------------------------------ MODULE ArmProofs ------------------------------
(***************************************************************************)
(* Proofs about the two parts of an ARMv8 VM that are emulated for its     *)
(* vCPUs: their power control, Psci.tla, and their interrupts, Vgic.tla.   *)
(* They share no state here.                                               *)
(*                                                                         *)
(*   PsciInv   why a vCPU runs as it was last asked to: who may call for   *)
(*             it, and what it holds while it is OFF, ON_PENDING and ON.   *)
(*   GicInv    why an active interrupt keeps an owner: every handler of    *)
(*             the vGIC takes a sane one to a sane one (Sane), its loops   *)
(*             and what it calls included; and, as long as nothing has been*)
(*             spilled, why a device is presented once and a pending       *)
(*             interrupt is on its way (Quiet, Waits): what is kept with an*)
(*             interrupt, what its list register has and what its device   *)
(*             waits for agree, but for the interrupt being routed (Fit).  *)
(***************************************************************************)
EXTENDS Psci, Vgic, FiniteSetTheorems, WellFoundedInduction, TLAPS

-----------------------------------------------------------------------------
(* Power control. *)

\* The types of all variables.
Types ==
    /\ PowerTypes
    /\ call \in [VCpus -> [target : VCpus, req : 0 .. MaxCalls]]
    /\ back \in [VCpus -> {"run", "guest"}]
    /\ entrypoint \in [VCpus -> 0 .. MaxCalls]
    /\ context_id \in [VCpus -> 0 .. MaxCalls]
    /\ calls \in 0 .. MaxCalls
    /\ asked \in [VCpus -> 0 .. MaxCalls]

\* The vCPUs that are in psci_cpu_on_handler for v, between the check that v is
\* OFF and the message.
Callers(v) == {w \in VCpus : at[w] \in Between /\ call[w].target = v}

\* The core of v is in the idle loop.
Asleep(v) ==
    \/ at[v] \in {"idle", "woken", "run", "stopped"}
    \/ at[v] = "messages" /\ back[v] = "run"

\* psci_ctx of v holds what v was last asked to be started with, and so do the
\* registers of v.
Stored(v)  == entrypoint[v] = asked[v] /\ context_id[v] = asked[v]
Entered(v) == regs[v] = [pc |-> asked[v], x0 |-> asked[v]]

\* One call at a time finds v OFF, and it is the one that v was last asked by.
OneCaller(v) ==
    /\ \A w, u \in Callers(v) : w = u
    /\ \A w \in Callers(v) : call[w].req = asked[v]

\* OFF: the core idles, no message is on its way, and a caller has not yet
\* written anything.
WhenOff(v) ==
    state[v] = "OFF" =>
        /\ Asleep(v)
        /\ msgs[v] = 0
        /\ \A w \in Callers(v) : at[w] = "pending"

\* ON_PENDING: the caller is still writing psci_ctx, or its message is in the
\* queue, or the core has taken the message and starts the vCPU.
Writing(v) ==
    /\ Asleep(v)
    /\ msgs[v] = 0
    /\ \E w \in Callers(v) :
        /\ at[w] \in {"entry", "context", "send"}
        /\ at[w] \in {"context", "send"} => entrypoint[v] = asked[v]
        /\ at[w] = "send" => context_id[v] = asked[v]
Sent(v) ==
    /\ Asleep(v)
    /\ msgs[v] = 1
    /\ Callers(v) = {}
    /\ Stored(v)
Starting(v) ==
    /\ at[v] \in {"reset", "on"} /\ back[v] = "run"
    /\ msgs[v] = 0
    /\ Callers(v) = {}
    /\ Stored(v)
    /\ at[v] = "on" => regs[v].pc = asked[v]
WhenPending(v) == state[v] = "ON_PENDING" => Writing(v) \/ Sent(v) \/ Starting(v)

\* ON: nobody starts v, and it runs with, or is about to be entered with, what
\* it was asked to.
WhenOn(v) ==
    state[v] = "ON" =>
        /\ msgs[v] = 0
        /\ Callers(v) = {}
        /\ \/ at[v] \in Between \cup {"guest", "standby", "messages", "run"} /\ Entered(v)
           \/ at[v] = "suspended" /\ Stored(v)
           \/ at[v] = "x0" /\ Stored(v) /\ regs[v].pc = asked[v]

\* The inductive invariant.
Power(v) == OneCaller(v) /\ WhenOff(v) /\ WhenPending(v) /\ WhenOn(v)
PsciInv  == Types /\ \A v \in VCpus : v \notin raced => Power(v)

-----------------------------------------------------------------------------
\* vCPU 0 is entered, the others idle, and no call has been made.
LEMMA InitPsciInv == PsciInit => PsciInv
<1> SUFFICES ASSUME PsciInit PROVE PsciInv
  OBVIOUS
<1>1. Types
  BY PsciAssumption DEF PsciInit, Types, PowerTypes
<1>2. \A v \in VCpus : Callers(v) = {}
  BY DEF PsciInit, Callers, Between
<1>3. ASSUME NEW v \in VCpus PROVE Power(v)
  BY <1>2 DEF PsciInit, Power, OneCaller, WhenOff, WhenPending, WhenOn, Asleep, Entered
<1> QED
  BY <1>1, <1>3 DEF PsciInv

\* Every step keeps the types.
LEMMA NextTypes == Types /\ [PsciNext]_psciVars => Types'
<1> SUFFICES ASSUME Types, [PsciNext]_psciVars PROVE Types'
  OBVIOUS
<1> USE PsciAssumption
    DEF Types, PowerTypes, Between, Calls, Goto, ctxVars, msgVars, history
<1>1. ASSUME NEW v \in VCpus, CpuOn(v) PROVE Types'
  BY <1>1 DEF CpuOn
<1>2. ASSUME NEW v \in VCpus, WritePending(v) PROVE Types'
  BY <1>2 DEF WritePending
<1>3. ASSUME NEW v \in VCpus, WriteEntrypoint(v) PROVE Types'
  BY <1>3 DEF WriteEntrypoint
<1>4. ASSUME NEW v \in VCpus, WriteContextId(v) PROVE Types'
  BY <1>4 DEF WriteContextId
<1>5. ASSUME NEW v \in VCpus, SendOn(v) PROVE Types'
  BY <1>5 DEF SendOn
<1>6. ASSUME NEW v \in VCpus, CpuOff(v) PROVE Types'
  BY <1>6 DEF CpuOff, cpu_idle
<1>7. ASSUME NEW v \in VCpus, CpuSuspend(v) PROVE Types'
  <2>1. calls' \in 0 .. MaxCalls
    BY <1>7 DEF CpuSuspend
  <2>2. at' \in [VCpus -> Between \cup {"guest", "idle", "woken", "messages", "reset", "on",
                       "x0", "run", "suspended", "standby", "stopped"}]
        /\ asked' \in [VCpus -> 0 .. MaxCalls]
    <3>1. CASE Goto(v, "suspended") /\ asked' = [asked EXCEPT ![v] = calls']
      BY <2>1, <3>1
    <3>2. CASE Goto(v, "standby") /\ UNCHANGED asked
      BY <3>2
    <3>3. CASE UNCHANGED <<at, asked>>
      BY <3>3
    <3> QED
      BY <1>7, <3>1, <3>2, <3>3 DEF CpuSuspend, psci_power_down
  <2> QED
    BY <1>7, <2>1, <2>2 DEF CpuSuspend
<1>8. ASSUME NEW v \in VCpus, CpuStandby(v) PROVE Types'
  BY <1>8 DEF CpuStandby
<1>9. ASSUME NEW v \in VCpus, EndStandby(v) PROVE Types'
  BY <1>9 DEF EndStandby
<1>10. ASSUME NEW v \in VCpus, psci_wake_from_powerdown(v) PROVE Types'
  BY <1>10 DEF psci_wake_from_powerdown
<1>11. ASSUME NEW v \in VCpus, Wake(v) PROVE Types'
  BY <1>11 DEF Wake
<1>12. ASSUME NEW v \in VCpus, cpu_idle_wakeup(v) PROVE Types'
  BY <1>12 DEF cpu_idle_wakeup
<1>13. ASSUME NEW v \in VCpus, TakeIpi(v) PROVE Types'
  BY <1>13 DEF TakeIpi
<1>14. ASSUME NEW v \in VCpus, cpu_msg_handler(v) PROVE Types'
  <2>1. msgs[v] > 0 => msgs[v] - 1 \in Nat
    OBVIOUS
  <2>2. msgs' \in [VCpus -> Nat]
    BY <1>14, <2>1 DEF cpu_msg_handler
  <2>3. at' \in [VCpus -> Between \cup {"guest", "idle", "woken", "messages", "reset", "on",
                       "x0", "run", "suspended", "standby", "stopped"}]
    BY <1>14 DEF cpu_msg_handler
  <2> QED
    BY <1>14, <2>2, <2>3 DEF cpu_msg_handler
<1>15. ASSUME NEW v \in VCpus, WakeReset(v) PROVE Types'
  BY <1>15 DEF WakeReset, vcpu_arch_reset
<1>16. ASSUME NEW v \in VCpus, WakeOn(v) PROVE Types'
  BY <1>16 DEF WakeOn
<1>17. ASSUME NEW v \in VCpus, WakeX0(v) PROVE Types'
  BY <1>17 DEF WakeX0
<1>18. ASSUME NEW v \in VCpus, vcpu_arch_run(v) PROVE Types'
  BY <1>18 DEF vcpu_arch_run, cpu_idle
<1>19. CASE UNCHANGED psciVars
  BY <1>19 DEF psciVars
<1> QED
  BY <1>1, <1>2, <1>3, <1>4, <1>5, <1>6, <1>7, <1>8, <1>9, <1>10, <1>11, <1>12,
     <1>13, <1>14, <1>15, <1>16, <1>17, <1>18, <1>19
  DEF PsciNext, Guest, Hypervisor, Interrupted

-----------------------------------------------------------------------------
\* What a vCPU and its core keep, and what its callers do, decide Power.
LEMMA Bystander ==
  ASSUME NEW u \in VCpus, Power(u),
         at'[u] = at[u], back'[u] = back[u], state'[u] = state[u],
         entrypoint'[u] = entrypoint[u], context_id'[u] = context_id[u],
         regs'[u] = regs[u], msgs'[u] = msgs[u], asked'[u] = asked[u],
         Callers(u)' = Callers(u),
         \A w \in Callers(u) : at'[w] = at[w] /\ call'[w] = call[w]
  PROVE  Power(u)'
<1>1. OneCaller(u)' /\ WhenOff(u)'
  BY DEF Power, OneCaller, WhenOff, Asleep
<1>2. WhenPending(u)'
  BY DEF Power, WhenPending, Writing, Sent, Starting, Asleep, Stored
<1>3. WhenOn(u)'
  BY DEF Power, WhenOn, Stored, Entered
<1> QED
  BY <1>1, <1>2, <1>3 DEF Power

\* A step of a core that is not in psci_cpu_on_handler before or after it
\* changes nobody's callers.
LEMMA QuietCallers ==
  ASSUME PsciInv, NEW v \in VCpus, NEW p, Goto(v, p), at[v] \notin Between, p \notin Between,
         UNCHANGED call
  PROVE  /\ \A w \in VCpus : at'[w] = IF w = v THEN p ELSE at[w]
         /\ \A u \in VCpus : Callers(u)' = Callers(u)
         /\ \A u \in VCpus : \A w \in Callers(u) : at'[w] = at[w] /\ call'[w] = call[w]
<1>1. at' = [at EXCEPT ![v] = p]
      /\ at \in [VCpus -> Between \cup {"guest", "idle", "woken", "messages", "reset", "on",
                                        "x0", "run", "suspended", "standby", "stopped"}]
  BY DEF PsciInv, Types, PowerTypes, Goto
<1>2. \A w \in VCpus : at'[w] = IF w = v THEN p ELSE at[w]
  BY <1>1
<1>3. \A u \in VCpus : Callers(u)' = Callers(u)
  BY <1>2 DEF Callers
<1>4. \A u \in VCpus : \A w \in Callers(u) : at'[w] = at[w] /\ call'[w] = call[w]
  BY <1>2 DEF Callers
<1> QED
  BY <1>2, <1>3, <1>4

\* Such a step disturbs at most the invariant of its own vCPU.
LEMMA QuietStep ==
  ASSUME PsciInv, NEW v \in VCpus, NEW p, Goto(v, p), at[v] \notin Between, p \notin Between,
         UNCHANGED <<call, raced>>,
         \A u \in VCpus \ {v} :
            /\ back'[u] = back[u] /\ state'[u] = state[u] /\ entrypoint'[u] = entrypoint[u]
            /\ context_id'[u] = context_id[u] /\ regs'[u] = regs[u]
            /\ msgs'[u] = msgs[u] /\ asked'[u] = asked[u],
         v \notin raced => Power(v)'
  PROVE  \A u \in VCpus : u \notin raced' => Power(u)'
<1>1. ASSUME NEW u \in VCpus, u \notin raced, u # v PROVE Power(u)'
  <2>1. at'[u] = at[u] /\ Callers(u)' = Callers(u)
        /\ \A w \in Callers(u) : at'[w] = at[w] /\ call'[w] = call[w]
    BY <1>1, QuietCallers
  <2>2. Power(u)
    BY <1>1 DEF PsciInv
  <2> QED
    BY <2>1, <2>2, <1>1, Bystander
<1> QED
  BY <1>1

-----------------------------------------------------------------------------
\* A core that goes on idling keeps the invariant of its vCPU, OFF or ON_PENDING.
LEMMA StaysAsleep ==
  ASSUME NEW v \in VCpus, Power(v), Types, Asleep(v), Asleep(v)', state[v] # "ON",
         state'[v] = state[v], entrypoint'[v] = entrypoint[v],
         context_id'[v] = context_id[v], msgs'[v] = msgs[v], asked'[v] = asked[v],
         Callers(v)' = Callers(v),
         \A w \in Callers(v) : at'[w] = at[w] /\ call'[w] = call[w]
  PROVE  Power(v)'
<1>1. OneCaller(v)' /\ WhenOff(v)' /\ WhenOn(v)'
  BY DEF Power, OneCaller, WhenOff, WhenOn
<1>2. ~ Starting(v)
  BY DEF Starting, Asleep
<1>3. ASSUME Writing(v) PROVE Writing(v)'
  BY <1>3 DEF Writing
<1>4. ASSUME Sent(v) PROVE Sent(v)'
  BY <1>4 DEF Sent, Stored
<1>5. WhenPending(v)'
  BY <1>2, <1>3, <1>4 DEF Power, WhenPending
<1> QED
  BY <1>1, <1>5 DEF Power

\* A vCPU whose guest or whose call executes, or that stands by, is ON, and
\* nobody starts it.
LEMMA RunningIsOn ==
  ASSUME PsciInv, NEW v \in VCpus, v \notin raced,
         at[v] \in Between \cup {"guest", "standby"}
  PROVE  state[v] = "ON" /\ msgs[v] = 0 /\ Callers(v) = {} /\ Entered(v)
<1>1. Power(v) /\ state[v] \in {"ON", "OFF", "ON_PENDING"}
  BY DEF PsciInv, Types, PowerTypes
<1>2. ~ Asleep(v) /\ at[v] \notin {"reset", "on", "x0", "suspended"}
  BY DEF Asleep, Between
<1> QED
  BY <1>1, <1>2 DEF Power, WhenOff, WhenPending, WhenOn, Writing, Sent, Starting

\* A vCPU that is on its way into its guest finds in psci_ctx what it was asked.
LEMMA AwakeIsStored ==
  ASSUME PsciInv, NEW v \in VCpus, v \notin raced
  PROVE  /\ at[v] \in {"suspended", "x0"} =>
              state[v] = "ON" /\ msgs[v] = 0 /\ Callers(v) = {} /\ Stored(v)
         /\ at[v] = "x0" => regs[v].pc = asked[v]
         /\ at[v] \in {"reset", "on"} => state[v] = "ON_PENDING" /\ Starting(v)
<1>1. Power(v) /\ state[v] \in {"ON", "OFF", "ON_PENDING"}
  BY DEF PsciInv, Types, PowerTypes
<1>2. at[v] \in {"suspended", "x0", "reset", "on"} =>
        ~ Asleep(v) /\ at[v] \notin Between \cup {"guest", "standby", "messages", "run"}
  BY DEF Asleep, Between
<1> QED
  BY <1>1, <1>2 DEF Power, WhenOff, WhenPending, WhenOn, Writing, Sent, Starting

\* Power holds of an ON vCPU that nobody starts and that has been, or will be,
\* entered as asked.
LEMMA OnPower ==
  ASSUME NEW v \in VCpus, state'[v] = "ON", msgs'[v] = 0, Callers(v)' = {},
         \/ at'[v] \in Between \cup {"guest", "standby", "messages", "run"} /\ Entered(v)'
         \/ at'[v] = "suspended" /\ Stored(v)'
         \/ at'[v] = "x0" /\ Stored(v)' /\ regs'[v].pc = asked'[v]
  PROVE  Power(v)'
BY DEF Power, OneCaller, WhenOff, WhenPending, WhenOn

\* psci_cpu_off_handler: nobody starts a vCPU that is ON, so none is when it is OFF.
LEMMA CpuOffPower ==
  ASSUME PsciInv, NEW v \in VCpus, CpuOff(v)
  PROVE  \A u \in VCpus : u \notin raced' => Power(u)'
<1> DEFINE p == IF profile = "denied" THEN "stopped" ELSE "idle"
<1>0. Types
  BY DEF PsciInv
<1>1. /\ Goto(v, p) /\ at[v] \notin Between /\ p \notin Between
      /\ UNCHANGED <<call, raced>>
  BY <1>0 DEF CpuOff, Calls, cpu_idle, Between, history, Types, PowerTypes
<1> HIDE DEF p
<1>2. \A u \in VCpus \ {v} :
        /\ back'[u] = back[u] /\ state'[u] = state[u] /\ entrypoint'[u] = entrypoint[u]
        /\ context_id'[u] = context_id[u] /\ regs'[u] = regs[u]
        /\ msgs'[u] = msgs[u] /\ asked'[u] = asked[u]
  BY <1>0 DEF CpuOff, Calls, cpu_idle, ctxVars, msgVars, history, Types, PowerTypes
<1>3. /\ at'[v] = p /\ Callers(v)' = Callers(v)
      /\ \A w \in Callers(v) : at'[w] = at[w] /\ call'[w] = call[w]
  BY <1>1, QuietCallers
<1>4. ASSUME v \notin raced PROVE Power(v)'
  <2>1. msgs[v] = 0 /\ Callers(v) = {}
    BY <1>4, RunningIsOn DEF CpuOff, Calls
  <2>2. state'[v] = "OFF" /\ msgs'[v] = msgs[v]
    BY <1>0 DEF CpuOff, msgVars, Types, PowerTypes
  <2>3. Asleep(v)'
    BY <1>3 DEF p, Asleep
  <2> QED
    BY <1>3, <2>1, <2>2, <2>3 DEF Power, OneCaller, WhenOff, WhenPending, WhenOn
<1> QED
  BY <1>1, <1>2, <1>4, QuietStep

\* psci_cpu_suspend_handler, standby: the vCPU stays ON.
LEMMA CpuStandbyPower ==
  ASSUME PsciInv, NEW v \in VCpus, CpuStandby(v)
  PROVE  \A u \in VCpus : u \notin raced' => Power(u)'
<1> DEFINE p == "standby"
<1>0. Types
  BY DEF PsciInv
<1>1. /\ Goto(v, p) /\ at[v] \notin Between /\ p \notin Between
      /\ UNCHANGED <<call, raced>>
  BY <1>0 DEF CpuStandby, Calls, Between, history, Types, PowerTypes
<1> HIDE DEF p
<1>2. \A u \in VCpus \ {v} :
        /\ back'[u] = back[u] /\ state'[u] = state[u] /\ entrypoint'[u] = entrypoint[u]
        /\ context_id'[u] = context_id[u] /\ regs'[u] = regs[u]
        /\ msgs'[u] = msgs[u] /\ asked'[u] = asked[u]
  BY <1>0 DEF CpuStandby, Calls, ctxVars, msgVars, history, Types, PowerTypes
<1>3. /\ at'[v] = p /\ Callers(v)' = Callers(v)
      /\ \A w \in Callers(v) : at'[w] = at[w] /\ call'[w] = call[w]
  BY <1>1, QuietCallers
<1>4. ASSUME v \notin raced PROVE Power(v)'
  <2>1. state[v] = "ON" /\ msgs[v] = 0 /\ Callers(v) = {} /\ Entered(v)
    BY <1>4, RunningIsOn DEF CpuStandby, Calls
  <2>2. UNCHANGED <<state, regs, msgs, asked>>
    BY DEF CpuStandby, ctxVars, msgVars, history
  <2> QED
    BY <1>3, <2>1, <2>2, OnPower DEF p, Entered
<1> QED
  BY <1>1, <1>2, <1>4, QuietStep

\* The standby ends.
LEMMA EndStandbyPower ==
  ASSUME PsciInv, NEW v \in VCpus, EndStandby(v)
  PROVE  \A u \in VCpus : u \notin raced' => Power(u)'
<1> DEFINE p == "guest"
<1>0. Types
  BY DEF PsciInv
<1>1. /\ Goto(v, p) /\ at[v] \notin Between /\ p \notin Between
      /\ UNCHANGED <<call, raced>>
  BY <1>0 DEF EndStandby, Between, history, Types, PowerTypes
<1> HIDE DEF p
<1>2. \A u \in VCpus \ {v} :
        /\ back'[u] = back[u] /\ state'[u] = state[u] /\ entrypoint'[u] = entrypoint[u]
        /\ context_id'[u] = context_id[u] /\ regs'[u] = regs[u]
        /\ msgs'[u] = msgs[u] /\ asked'[u] = asked[u]
  BY <1>0 DEF EndStandby, ctxVars, msgVars, history, Types, PowerTypes
<1>3. /\ at'[v] = p /\ Callers(v)' = Callers(v)
      /\ \A w \in Callers(v) : at'[w] = at[w] /\ call'[w] = call[w]
  BY <1>1, QuietCallers
<1>4. ASSUME v \notin raced PROVE Power(v)'
  <2>1. state[v] = "ON" /\ msgs[v] = 0 /\ Callers(v) = {} /\ Entered(v)
    BY <1>4, RunningIsOn DEF EndStandby
  <2>2. UNCHANGED <<state, regs, msgs, asked>>
    BY DEF EndStandby, ctxVars, msgVars, history
  <2> QED
    BY <1>3, <2>1, <2>2, OnPower DEF p, Entered
<1> QED
  BY <1>1, <1>2, <1>4, QuietStep

\* psci_wake_from_powerdown takes what the suspend stored.
LEMMA psci_wake_from_powerdownPower ==
  ASSUME PsciInv, NEW v \in VCpus, psci_wake_from_powerdown(v)
  PROVE  \A u \in VCpus : u \notin raced' => Power(u)'
<1> DEFINE p == "run"
<1>0. Types
  BY DEF PsciInv
<1>1. /\ Goto(v, p) /\ at[v] \notin Between /\ p \notin Between
      /\ UNCHANGED <<call, raced>>
  BY <1>0 DEF psci_wake_from_powerdown, Between, history, Types, PowerTypes
<1> HIDE DEF p
<1>2. \A u \in VCpus \ {v} :
        /\ back'[u] = back[u] /\ state'[u] = state[u] /\ entrypoint'[u] = entrypoint[u]
        /\ context_id'[u] = context_id[u] /\ regs'[u] = regs[u]
        /\ msgs'[u] = msgs[u] /\ asked'[u] = asked[u]
  BY <1>0 DEF psci_wake_from_powerdown, ctxVars, msgVars, history, Types, PowerTypes
<1>3. /\ at'[v] = p /\ Callers(v)' = Callers(v)
      /\ \A w \in Callers(v) : at'[w] = at[w] /\ call'[w] = call[w]
  BY <1>1, QuietCallers
<1>4. ASSUME v \notin raced PROVE Power(v)'
  <2>1. state[v] = "ON" /\ msgs[v] = 0 /\ Callers(v) = {} /\ Stored(v)
    BY <1>4, AwakeIsStored DEF psci_wake_from_powerdown
  <2>2. UNCHANGED <<state, msgs, asked>>
        /\ regs'[v] = [pc |-> entrypoint[v], x0 |-> context_id[v]]
    BY <1>0 DEF psci_wake_from_powerdown, ctxVars, msgVars, history, Types, PowerTypes
  <2>3. Entered(v)'
    BY <2>1, <2>2 DEF Stored, Entered
  <2> QED
    BY <1>3, <2>1, <2>2, <2>3, OnPower DEF p
<1> QED
  BY <1>1, <1>2, <1>4, QuietStep

\* An interrupt wakes the core: the vCPU is as it was.
LEMMA WakePower ==
  ASSUME PsciInv, NEW v \in VCpus, Wake(v)
  PROVE  \A u \in VCpus : u \notin raced' => Power(u)'
<1> DEFINE p == "woken"
<1>0. Types
  BY DEF PsciInv
<1>1. /\ Goto(v, p) /\ at[v] \notin Between /\ p \notin Between
      /\ UNCHANGED <<call, raced>>
  BY <1>0 DEF Wake, Between, history, Types, PowerTypes
<1> HIDE DEF p
<1>2. \A u \in VCpus \ {v} :
        /\ back'[u] = back[u] /\ state'[u] = state[u] /\ entrypoint'[u] = entrypoint[u]
        /\ context_id'[u] = context_id[u] /\ regs'[u] = regs[u]
        /\ msgs'[u] = msgs[u] /\ asked'[u] = asked[u]
  BY <1>0 DEF Wake, ctxVars, msgVars, history, Types, PowerTypes
<1>3. /\ at'[v] = p /\ Callers(v)' = Callers(v)
      /\ \A w \in Callers(v) : at'[w] = at[w] /\ call'[w] = call[w]
  BY <1>1, QuietCallers
<1>4. ASSUME v \notin raced PROVE Power(v)'
  <2>1. Power(v)
    BY <1>4 DEF PsciInv
  <2>2. Asleep(v) /\ Asleep(v)' /\ state[v] # "ON"
    BY <1>3, <2>1 DEF p, Wake, Asleep, Power, WhenOn, Between
  <2>3. UNCHANGED <<state, entrypoint, context_id, msgs, asked>>
    BY DEF Wake, ctxVars, msgVars, history
  <2> QED
    BY <1>0, <1>3, <2>1, <2>2, <2>3, StaysAsleep
<1> QED
  BY <1>1, <1>2, <1>4, QuietStep

\* cpu_idle_wakeup: the core stays in the idle loop.
LEMMA cpu_idle_wakeupPower ==
  ASSUME PsciInv, NEW v \in VCpus, cpu_idle_wakeup(v)
  PROVE  \A u \in VCpus : u \notin raced' => Power(u)'
<1> DEFINE p == IF ipi[v] THEN "messages" ELSE "run"
<1>0. Types
  BY DEF PsciInv
<1>1. /\ Goto(v, p) /\ at[v] \notin Between /\ p \notin Between
      /\ UNCHANGED <<call, raced>>
  BY <1>0 DEF cpu_idle_wakeup, Between, history, Types, PowerTypes
<1> HIDE DEF p
<1>2. \A u \in VCpus \ {v} :
        /\ back'[u] = back[u] /\ state'[u] = state[u] /\ entrypoint'[u] = entrypoint[u]
        /\ context_id'[u] = context_id[u] /\ regs'[u] = regs[u]
        /\ msgs'[u] = msgs[u] /\ asked'[u] = asked[u]
  BY <1>0 DEF cpu_idle_wakeup, ctxVars, msgVars, history, Types, PowerTypes
<1>3. /\ at'[v] = p /\ Callers(v)' = Callers(v)
      /\ \A w \in Callers(v) : at'[w] = at[w] /\ call'[w] = call[w]
  BY <1>1, QuietCallers
<1>4. ASSUME v \notin raced PROVE Power(v)'
  <2>1. Power(v)
    BY <1>4 DEF PsciInv
  <2>2. Asleep(v) /\ state[v] # "ON"
    BY <2>1 DEF cpu_idle_wakeup, Asleep, Power, WhenOn, Between
  <2>3. Asleep(v)'
    BY <1>0, <1>3 DEF p, cpu_idle_wakeup, Asleep, Types
  <2>4. UNCHANGED <<state, entrypoint, context_id, msgs, asked>>
    BY DEF cpu_idle_wakeup, ctxVars, history
  <2> QED
    BY <1>0, <1>3, <2>1, <2>2, <2>3, <2>4, StaysAsleep
<1> QED
  BY <1>1, <1>2, <1>4, QuietStep

\* The interrupt of a message is taken from the guest.
LEMMA TakeIpiPower ==
  ASSUME PsciInv, NEW v \in VCpus, TakeIpi(v)
  PROVE  \A u \in VCpus : u \notin raced' => Power(u)'
<1> DEFINE p == "messages"
<1>0. Types
  BY DEF PsciInv
<1>1. /\ Goto(v, p) /\ at[v] \notin Between /\ p \notin Between
      /\ UNCHANGED <<call, raced>>
  BY <1>0 DEF TakeIpi, Between, history, Types, PowerTypes
<1> HIDE DEF p
<1>2. \A u \in VCpus \ {v} :
        /\ back'[u] = back[u] /\ state'[u] = state[u] /\ entrypoint'[u] = entrypoint[u]
        /\ context_id'[u] = context_id[u] /\ regs'[u] = regs[u]
        /\ msgs'[u] = msgs[u] /\ asked'[u] = asked[u]
  BY <1>0 DEF TakeIpi, ctxVars, msgVars, history, Types, PowerTypes
<1>3. /\ at'[v] = p /\ Callers(v)' = Callers(v)
      /\ \A w \in Callers(v) : at'[w] = at[w] /\ call'[w] = call[w]
  BY <1>1, QuietCallers
<1>4. ASSUME v \notin raced PROVE Power(v)'
  <2>1. state[v] = "ON" /\ msgs[v] = 0 /\ Callers(v) = {} /\ Entered(v)
    BY <1>4, RunningIsOn DEF TakeIpi
  <2>2. UNCHANGED <<state, regs, msgs, asked>>
    BY DEF TakeIpi, ctxVars, history
  <2> QED
    BY <1>3, <2>1, <2>2, OnPower DEF p, Entered
<1> QED
  BY <1>1, <1>2, <1>4, QuietStep

\* psci_wake_from_off, the program counter: the caller has written psci_ctx.
LEMMA WakeResetPower ==
  ASSUME PsciInv, NEW v \in VCpus, WakeReset(v)
  PROVE  \A u \in VCpus : u \notin raced' => Power(u)'
<1> DEFINE p == "on"
<1>0. Types
  BY DEF PsciInv
<1>1. /\ Goto(v, p) /\ at[v] \notin Between /\ p \notin Between
      /\ UNCHANGED <<call, raced>>
  BY <1>0 DEF WakeReset, vcpu_arch_reset, Between, history, Types, PowerTypes
<1> HIDE DEF p
<1>2. \A u \in VCpus \ {v} :
        /\ back'[u] = back[u] /\ state'[u] = state[u] /\ entrypoint'[u] = entrypoint[u]
        /\ context_id'[u] = context_id[u] /\ regs'[u] = regs[u]
        /\ msgs'[u] = msgs[u] /\ asked'[u] = asked[u]
  BY <1>0 DEF WakeReset, vcpu_arch_reset, ctxVars, msgVars, history, Types, PowerTypes
<1>3. /\ at'[v] = p /\ Callers(v)' = Callers(v)
      /\ \A w \in Callers(v) : at'[w] = at[w] /\ call'[w] = call[w]
  BY <1>1, QuietCallers
<1>4. ASSUME v \notin raced PROVE Power(v)'
  <2>1. state[v] = "ON_PENDING" /\ Starting(v)
    BY <1>4, AwakeIsStored DEF WakeReset
  <2>2. /\ UNCHANGED <<state, back, entrypoint, context_id, msgs, asked>>
        /\ regs'[v].pc = entrypoint[v]
    BY <1>0 DEF WakeReset, vcpu_arch_reset, ctxVars, msgVars, history, Types, PowerTypes
  <2>3. Starting(v)'
    BY <1>3, <2>1, <2>2 DEF p, Starting, Stored
  <2> QED
    BY <1>3, <2>1, <2>2, <2>3 DEF Power, OneCaller, WhenOff, WhenPending, WhenOn, Starting
<1> QED
  BY <1>1, <1>2, <1>4, QuietStep

\* psci_wake_from_off, the state.
LEMMA WakeOnPower ==
  ASSUME PsciInv, NEW v \in VCpus, WakeOn(v)
  PROVE  \A u \in VCpus : u \notin raced' => Power(u)'
<1> DEFINE p == "x0"
<1>0. Types
  BY DEF PsciInv
<1>1. /\ Goto(v, p) /\ at[v] \notin Between /\ p \notin Between
      /\ UNCHANGED <<call, raced>>
  BY <1>0 DEF WakeOn, Between, history, Types, PowerTypes
<1> HIDE DEF p
<1>2. \A u \in VCpus \ {v} :
        /\ back'[u] = back[u] /\ state'[u] = state[u] /\ entrypoint'[u] = entrypoint[u]
        /\ context_id'[u] = context_id[u] /\ regs'[u] = regs[u]
        /\ msgs'[u] = msgs[u] /\ asked'[u] = asked[u]
  BY <1>0 DEF WakeOn, ctxVars, msgVars, history, Types, PowerTypes
<1>3. /\ at'[v] = p /\ Callers(v)' = Callers(v)
      /\ \A w \in Callers(v) : at'[w] = at[w] /\ call'[w] = call[w]
  BY <1>1, QuietCallers
<1>4. ASSUME v \notin raced PROVE Power(v)'
  <2>1. Starting(v)
    BY <1>4, AwakeIsStored DEF WakeOn
  <2>2. UNCHANGED <<entrypoint, context_id, regs, msgs, asked>> /\ state'[v] = "ON"
    BY <1>0 DEF WakeOn, msgVars, history, Types, PowerTypes
  <2>3. Stored(v)' /\ regs'[v].pc = asked'[v]
    BY <2>1, <2>2 DEF WakeOn, Starting, Stored
  <2> QED
    BY <1>3, <2>1, <2>2, <2>3, OnPower DEF p, Starting
<1> QED
  BY <1>1, <1>2, <1>4, QuietStep

\* psci_wake_from_off, the context id: nobody has written psci_ctx since.
LEMMA WakeX0Power ==
  ASSUME PsciInv, NEW v \in VCpus, WakeX0(v)
  PROVE  \A u \in VCpus : u \notin raced' => Power(u)'
<1> DEFINE p == "messages"
<1>0. Types
  BY DEF PsciInv
<1>1. /\ Goto(v, p) /\ at[v] \notin Between /\ p \notin Between
      /\ UNCHANGED <<call, raced>>
  BY <1>0 DEF WakeX0, Between, history, Types, PowerTypes
<1> HIDE DEF p
<1>2. \A u \in VCpus \ {v} :
        /\ back'[u] = back[u] /\ state'[u] = state[u] /\ entrypoint'[u] = entrypoint[u]
        /\ context_id'[u] = context_id[u] /\ regs'[u] = regs[u]
        /\ msgs'[u] = msgs[u] /\ asked'[u] = asked[u]
  BY <1>0 DEF WakeX0, ctxVars, msgVars, history, Types, PowerTypes
<1>3. /\ at'[v] = p /\ Callers(v)' = Callers(v)
      /\ \A w \in Callers(v) : at'[w] = at[w] /\ call'[w] = call[w]
  BY <1>1, QuietCallers
<1>4. ASSUME v \notin raced PROVE Power(v)'
  <2>1. /\ state[v] = "ON" /\ msgs[v] = 0 /\ Callers(v) = {} /\ Stored(v)
        /\ regs[v].pc = asked[v]
    BY <1>4, AwakeIsStored DEF WakeX0
  <2>2. UNCHANGED <<state, msgs, asked>>
        /\ regs'[v] = [pc |-> regs[v].pc, x0 |-> context_id[v]]
    BY <1>0 DEF WakeX0, ctxVars, msgVars, history, Types, PowerTypes
  <2>3. Entered(v)'
    BY <2>1, <2>2 DEF Stored, Entered
  <2> QED
    BY <1>3, <2>1, <2>2, <2>3, OnPower DEF p
<1> QED
  BY <1>1, <1>2, <1>4, QuietStep

\* vcpu_arch_run enters a vCPU that is ON and idles otherwise.
LEMMA vcpu_arch_runPower ==
  ASSUME PsciInv, NEW v \in VCpus, vcpu_arch_run(v)
  PROVE  \A u \in VCpus : u \notin raced' => Power(u)'
<1> DEFINE p == IF state[v] = "ON" THEN "guest"
                ELSE IF profile = "denied" THEN "stopped" ELSE "idle"
<1>0. Types
  BY DEF PsciInv
<1>1. /\ Goto(v, p) /\ at[v] \notin Between /\ p \notin Between
      /\ UNCHANGED <<call, raced>>
  BY <1>0 DEF vcpu_arch_run, cpu_idle, Between, history, Types, PowerTypes
<1> HIDE DEF p
<1>2. \A u \in VCpus \ {v} :
        /\ back'[u] = back[u] /\ state'[u] = state[u] /\ entrypoint'[u] = entrypoint[u]
        /\ context_id'[u] = context_id[u] /\ regs'[u] = regs[u]
        /\ msgs'[u] = msgs[u] /\ asked'[u] = asked[u]
  BY <1>0 DEF vcpu_arch_run, cpu_idle, ctxVars, msgVars, history, Types, PowerTypes
<1>3. /\ at'[v] = p /\ Callers(v)' = Callers(v)
      /\ \A w \in Callers(v) : at'[w] = at[w] /\ call'[w] = call[w]
  BY <1>1, QuietCallers
<1>4. ASSUME v \notin raced PROVE Power(v)'
  <2>1. Power(v)
    BY <1>4 DEF PsciInv
  <2>2. UNCHANGED <<state, entrypoint, context_id, regs, msgs, asked>>
    BY DEF vcpu_arch_run, ctxVars, msgVars, history
  <2>3. CASE state[v] = "ON"
    BY <1>3, <2>1, <2>2, <2>3
    DEF p, vcpu_arch_run, Power, OneCaller, WhenOff, WhenPending, WhenOn, Entered, Between
  <2>4. CASE state[v] # "ON"
    <3>1. Asleep(v) /\ Asleep(v)'
      BY <1>3, <2>4 DEF p, vcpu_arch_run, Asleep
    <3> QED
      BY <1>0, <1>3, <2>1, <2>2, <2>4, <3>1, StaysAsleep
  <2> QED
    BY <2>3, <2>4
<1> QED
  BY <1>1, <1>2, <1>4, QuietStep

\* cpu_msg_handler: a message is there only when the vCPU is ON_PENDING.
LEMMA cpu_msg_handlerPower ==
  ASSUME PsciInv, NEW v \in VCpus, cpu_msg_handler(v)
  PROVE  \A u \in VCpus : u \notin raced' => Power(u)'
<1> DEFINE p == IF msgs[v] = 0 THEN back[v]
                ELSE IF state[v] = "ON_PENDING" THEN "reset" ELSE "messages"
<1>0. Types
  BY DEF PsciInv
<1>1. /\ Goto(v, p) /\ at[v] \notin Between /\ p \notin Between
      /\ UNCHANGED <<call, raced>>
  BY <1>0 DEF cpu_msg_handler, Between, history, Types, PowerTypes
<1> HIDE DEF p
<1>2. \A u \in VCpus \ {v} :
        /\ back'[u] = back[u] /\ state'[u] = state[u] /\ entrypoint'[u] = entrypoint[u]
        /\ context_id'[u] = context_id[u] /\ regs'[u] = regs[u]
        /\ msgs'[u] = msgs[u] /\ asked'[u] = asked[u]
  BY <1>0 DEF cpu_msg_handler, ctxVars, msgVars, history, Types, PowerTypes
<1>3. /\ at'[v] = p /\ Callers(v)' = Callers(v)
      /\ \A w \in Callers(v) : at'[w] = at[w] /\ call'[w] = call[w]
  BY <1>1, QuietCallers
<1>4. ASSUME v \notin raced PROVE Power(v)'
  <2>1. Power(v)
    BY <1>4 DEF PsciInv
  <2>2. UNCHANGED <<state, entrypoint, context_id, regs, asked, back>> /\ at[v] = "messages"
    BY DEF cpu_msg_handler, ctxVars, history
  <2>3. CASE state[v] = "ON"
    <3>1. msgs[v] = 0 /\ msgs'[v] = 0 /\ at'[v] \in {"run", "guest"}
      BY <1>0, <1>3, <2>1, <2>3 DEF p, cpu_msg_handler, Power, WhenOn, Types
    <3> QED
      BY <1>3, <2>1, <2>2, <2>3, <3>1
      DEF Power, OneCaller, WhenOff, WhenPending, WhenOn, Entered, Between
  <2>4. CASE state[v] # "ON" /\ msgs[v] = 0
    <3>1. Asleep(v) /\ Asleep(v)'
      BY <1>0, <1>3, <2>1, <2>2, <2>4
      DEF p, Asleep, Power, WhenOff, WhenPending, Writing, Sent, Starting, Types, PowerTypes
    <3>2. msgs'[v] = msgs[v]
      BY <2>4 DEF cpu_msg_handler
    <3> QED
      BY <1>0, <1>3, <2>1, <2>2, <2>4, <3>1, <3>2, StaysAsleep
  <2>5. CASE state[v] # "ON" /\ msgs[v] # 0
    <3>1. state[v] = "ON_PENDING" /\ Sent(v)
      BY <1>0, <2>1, <2>5
      DEF Power, WhenOff, WhenPending, Writing, Starting, Types, PowerTypes
    <3>2. at'[v] = "reset" /\ back[v] = "run"
      BY <1>3, <2>2, <2>5, <3>1 DEF p, Sent, Asleep
    <3>3. msgs'[v] = 0
      BY <1>0, <3>1 DEF cpu_msg_handler, Sent, Types, PowerTypes
    <3>4. Starting(v)'
      BY <1>3, <2>2, <3>1, <3>2, <3>3 DEF Sent, Starting, Stored
    <3> QED
      BY <1>3, <2>1, <2>2, <3>1, <3>4
      DEF Power, OneCaller, WhenOff, WhenPending, WhenOn
  <2> QED
    BY <2>3, <2>4, <2>5
<1> QED
  BY <1>1, <1>2, <1>4, QuietStep

\* psci_cpu_suspend_handler with a power-down request: a refused one leaves the
\* registers of the running guest alone, the other is what v is woken with.
LEMMA CpuSuspendPower ==
  ASSUME PsciInv, NEW v \in VCpus, CpuSuspend(v)
  PROVE  \A u \in VCpus : u \notin raced' => Power(u)'
<1> DEFINE p == CASE profile = "powers_down" -> "suspended"
                  [] profile = "armv8_r"     -> "standby"
                  [] OTHER                   -> "guest"
<1>0. Types
  BY DEF PsciInv
<1>1. /\ Goto(v, p) /\ at[v] = "guest" /\ at[v] \notin Between /\ p \notin Between
      /\ UNCHANGED <<call, raced>>
  BY <1>0 DEF CpuSuspend, Calls, psci_power_down, Goto, Between, Types, PowerTypes
<1> HIDE DEF p
<1>2. calls' \in 0 .. MaxCalls
  BY <1>0, PsciAssumption DEF CpuSuspend, Calls, Types
<1>3. /\ UNCHANGED <<back, state, regs, msgs>>
      /\ entrypoint' = [entrypoint EXCEPT ![v] = calls']
      /\ context_id' = [context_id EXCEPT ![v] = calls']
      /\ asked' = IF p = "suspended" THEN [asked EXCEPT ![v] = calls'] ELSE asked
  BY DEF CpuSuspend, psci_power_down, msgVars, p
<1>4. \A u \in VCpus \ {v} :
        /\ back'[u] = back[u] /\ state'[u] = state[u] /\ entrypoint'[u] = entrypoint[u]
        /\ context_id'[u] = context_id[u] /\ regs'[u] = regs[u]
        /\ msgs'[u] = msgs[u] /\ asked'[u] = asked[u]
  BY <1>0, <1>3 DEF Types
<1>5. /\ at'[v] = p /\ Callers(v)' = Callers(v)
      /\ \A w \in Callers(v) : at'[w] = at[w] /\ call'[w] = call[w]
  BY <1>1, QuietCallers
<1>6. ASSUME v \notin raced PROVE Power(v)'
  <2>1. Power(v)
    BY <1>6 DEF PsciInv
  <2>2. /\ state[v] = "ON" /\ msgs[v] = 0 /\ Callers(v) = {} /\ Entered(v)
    BY <1>0, <1>1, <2>1
    DEF Power, WhenOff, WhenPending, WhenOn, Writing, Sent, Starting, Asleep, Types, PowerTypes
  <2>3. CASE p = "suspended"
    <3>1. Stored(v)'
      BY <1>0, <1>2, <1>3, <2>3 DEF Stored, Types
    <3> QED
      BY <1>3, <1>5, <2>2, <2>3, <3>1 DEF Power, OneCaller, WhenOff, WhenPending, WhenOn
  <2>4. CASE p # "suspended"
    <3>1. p \in {"guest", "standby"} /\ Entered(v)'
      BY <1>3, <2>2, <2>4 DEF p, Entered
    <3> QED
      BY <1>3, <1>5, <2>2, <3>1 DEF Power, OneCaller, WhenOff, WhenPending, WhenOn
  <2> QED
    BY <2>3, <2>4
<1> QED
  BY <1>1, <1>4, <1>6, QuietStep

-----------------------------------------------------------------------------
\* psci_cpu_on_handler finds the target OFF: it becomes the caller, and the
\* only one unless another call found the target OFF at the same time.
LEMMA CpuOnPower ==
  ASSUME PsciInv, NEW v \in VCpus, CpuOn(v)
  PROVE  \A u \in VCpus : u \notin raced' => Power(u)'
<1>0. Types
  BY DEF PsciInv
<1>1. PICK t \in VCpus :
        /\ state[t] = "OFF"
        /\ call' = [call EXCEPT ![v] = [target |-> t, req |-> calls']]
        /\ asked' = [asked EXCEPT ![t] = calls']
        /\ raced' = IF \E w \in VCpus \ {v} : at[w] \in Between /\ call[w].target = t
                    THEN raced \cup {t} ELSE raced
  BY DEF CpuOn
<1>2. /\ at[v] = "guest" /\ at' = [at EXCEPT ![v] = "pending"]
      /\ UNCHANGED <<back, state, entrypoint, context_id, regs, msgs>>
  BY DEF CpuOn, Calls, Goto, ctxVars, msgVars
<1>3. calls' \in 0 .. MaxCalls
  BY <1>0, PsciAssumption DEF CpuOn, Calls, Types
<1>4. /\ \A w \in VCpus : at'[w] = IF w = v THEN "pending" ELSE at[w]
      /\ \A w \in VCpus : w # v => call'[w] = call[w]
      /\ call'[v].target = t /\ call'[v].req = calls'
      /\ \A u \in VCpus : asked'[u] = IF u = t THEN calls' ELSE asked[u]
  BY <1>0, <1>1, <1>2, <1>3 DEF Types, PowerTypes
<1>5. \A u \in VCpus : u # t => Callers(u)' = Callers(u)
  BY <1>2, <1>4 DEF Callers, Between
<1>6. \A u \in VCpus : \A w \in Callers(u) : at'[w] = at[w] /\ call'[w] = call[w]
  BY <1>2, <1>4 DEF Callers, Between
<1> SUFFICES ASSUME NEW u \in VCpus, u \notin raced' PROVE Power(u)'
  OBVIOUS
<1>7. u \notin raced /\ Power(u)
  BY <1>1 DEF PsciInv
<1>8. CASE u = t
  <2>1. t # v
    BY <1>1, <1>2, <1>7, <1>8, RunningIsOn
  <2>2. Callers(t)' = {v}
    BY <1>1, <1>4, <1>8 DEF Callers, Between
  <2>3. Asleep(t)' /\ msgs'[t] = 0
    BY <1>1, <1>2, <1>4, <1>7, <1>8, <2>1 DEF Power, WhenOff, Asleep
  <2> QED
    BY <1>1, <1>2, <1>4, <1>8, <2>2, <2>3
    DEF Power, OneCaller, WhenOff, WhenPending, WhenOn
<1>9. CASE u = v /\ u # t
  <2>1. state[v] = "ON" /\ msgs[v] = 0 /\ Callers(v) = {} /\ Entered(v)
    BY <1>2, <1>7, <1>9, RunningIsOn
  <2>2. Callers(v)' = {} /\ Entered(v)' /\ at'[v] = "pending"
    BY <1>2, <1>4, <1>5, <1>9, <2>1 DEF Entered
  <2> QED
    BY <1>2, <1>9, <2>1, <2>2
    DEF Power, OneCaller, WhenOff, WhenPending, WhenOn, Between
<1>10. CASE u # v /\ u # t
  BY <1>2, <1>4, <1>5, <1>6, <1>7, <1>10, Bystander
<1> QED
  BY <1>8, <1>9, <1>10

\* The caller of a vCPU that no race touched is the only one: the target idles,
\* and its psci_ctx is as far written as the caller is.
LEMMA CallerKnows ==
  ASSUME PsciInv, NEW v \in VCpus, at[v] \in Between, NEW t, t = call[v].target, t \notin raced
  PROVE  /\ t \in VCpus /\ t # v /\ Callers(t) = {v} /\ call[v].req = asked[t]
         /\ Asleep(t) /\ msgs[t] = 0
         /\ at[v] = "pending" => state[t] = "OFF"
         /\ at[v] # "pending" => state[t] = "ON_PENDING"
         /\ at[v] \in {"context", "send"} => entrypoint[t] = asked[t]
         /\ at[v] = "send" => context_id[t] = asked[t]
<1>1. t \in VCpus /\ state[t] \in {"ON", "OFF", "ON_PENDING"}
  BY DEF PsciInv, Types, PowerTypes
<1>2. Power(t)
  BY <1>1 DEF PsciInv
<1>3. v \in Callers(t)
  BY DEF Callers
<1>4. Callers(t) = {v} /\ call[v].req = asked[t]
  BY <1>2, <1>3 DEF Power, OneCaller
<1>5. t # v
  BY <1>1, <1>3, RunningIsOn
<1>6. state[t] # "ON"
  BY <1>2, <1>3 DEF Power, WhenOn
<1>7. CASE state[t] = "OFF"
  BY <1>1, <1>2, <1>3, <1>4, <1>5, <1>7 DEF Power, WhenOff
<1>8. CASE state[t] = "ON_PENDING"
  <2>1. Writing(t)
    BY <1>2, <1>3, <1>8 DEF Power, WhenPending, Sent, Starting
  <2> QED
    BY <1>1, <1>4, <1>5, <1>8, <2>1 DEF Writing
<1> QED
  BY <1>1, <1>6, <1>7, <1>8

\* A caller touches its target, and of its own vCPU nothing.
LEMMA CallerStep ==
  ASSUME PsciInv, NEW v \in VCpus, NEW p \in Between \cup {"guest"}, at[v] \in Between,
         Goto(v, p), NEW t, t = call[v].target,
         UNCHANGED <<call, back, regs, asked, raced>>,
         \A u \in VCpus \ {t} :
            /\ state'[u] = state[u] /\ entrypoint'[u] = entrypoint[u]
            /\ context_id'[u] = context_id[u] /\ msgs'[u] = msgs[u],
         t \notin raced => Power(t)'
  PROVE  \A u \in VCpus : u \notin raced' => Power(u)'
<1> SUFFICES ASSUME NEW u \in VCpus, u \notin raced, u # t PROVE Power(u)'
  OBVIOUS
<1>1. \A w \in VCpus : at'[w] = IF w = v THEN p ELSE at[w]
  BY DEF PsciInv, Types, PowerTypes, Goto
<1>2. /\ Callers(u)' = Callers(u)
      /\ \A w \in Callers(u) : at'[w] = at[w] /\ call'[w] = call[w]
  BY <1>1 DEF Callers
<1>3. Power(u)
  BY DEF PsciInv
<1>4. CASE u = v
  <2>1. state[v] = "ON" /\ msgs[v] = 0 /\ Callers(v) = {} /\ Entered(v)
    BY <1>4, RunningIsOn
  <2>2. Callers(v)' = {} /\ Entered(v)' /\ at'[v] = p
    BY <1>1, <1>2, <1>4, <2>1 DEF Entered
  <2> QED
    BY <1>4, <2>1, <2>2 DEF Power, OneCaller, WhenOff, WhenPending, WhenOn
<1>5. CASE u # v
  BY <1>1, <1>2, <1>3, <1>5, Bystander
<1> QED
  BY <1>4, <1>5

\* The caller writes the state: the target stays asleep until the message.
LEMMA WritePendingPower ==
  ASSUME PsciInv, NEW v \in VCpus, WritePending(v)
  PROVE  \A u \in VCpus : u \notin raced' => Power(u)'
<1>0. Types
  BY DEF PsciInv
<1>1. PICK t \in VCpus : t = call[v].target
  BY <1>0 DEF Types
<1>2. /\ at[v] \in Between /\ Goto(v, "entry") /\ "entry" \in Between \cup {"guest"}
      /\ UNCHANGED <<call, back, regs, asked, raced>>
  BY DEF WritePending, Between, history
<1>3. /\ at[v] = "pending" /\ UNCHANGED <<entrypoint, context_id, msgs>>
      /\ state' = [state EXCEPT ![t] = "ON_PENDING"]
  BY <1>1 DEF WritePending, msgVars
<1>4. \A u \in VCpus \ {t} :
        /\ state'[u] = state[u] /\ entrypoint'[u] = entrypoint[u]
        /\ context_id'[u] = context_id[u] /\ msgs'[u] = msgs[u]
  BY <1>0, <1>3 DEF Types, PowerTypes
<1>5. ASSUME t \notin raced PROVE Power(t)'
  <2>1. /\ t # v /\ Callers(t) = {v} /\ call[v].req = asked[t]
        /\ Asleep(t) /\ msgs[t] = 0
    BY <1>1, <1>2, <1>5, CallerKnows
  <2>2. state'[t] = "ON_PENDING"
    BY <1>0, <1>3 DEF Types, PowerTypes
  <2>3. \A w \in VCpus : at'[w] = IF w = v THEN "entry" ELSE at[w]
    BY <1>0, <1>2 DEF Goto, Types, PowerTypes
  <2>4. Asleep(t)'
    BY <1>1, <1>2, <2>1, <2>3 DEF Asleep
  <2>5. Callers(t)' = {v}
    BY <1>1, <1>2, <2>1, <2>3 DEF Callers, Between
  <2>6. Writing(t)'
    BY <1>2, <1>3, <2>1, <2>3, <2>4, <2>5 DEF Writing
  <2>7. call'[v].req = asked'[t]
    BY <1>2, <2>1
  <2> QED
    BY <1>2, <2>1, <2>2, <2>5, <2>6, <2>7 DEF Power, OneCaller, WhenOff, WhenPending, WhenOn
<1> QED
  BY <1>1, <1>2, <1>4, <1>5, CallerStep

\* The caller writes the entry point.
LEMMA WriteEntrypointPower ==
  ASSUME PsciInv, NEW v \in VCpus, WriteEntrypoint(v)
  PROVE  \A u \in VCpus : u \notin raced' => Power(u)'
<1>0. Types
  BY DEF PsciInv
<1>1. PICK t \in VCpus : t = call[v].target
  BY <1>0 DEF Types
<1>2. /\ at[v] \in Between /\ Goto(v, "context") /\ "context" \in Between \cup {"guest"}
      /\ UNCHANGED <<call, back, regs, asked, raced>>
  BY DEF WriteEntrypoint, Between, history
<1>3. /\ at[v] = "entry" /\ UNCHANGED <<state, context_id, msgs>>
      /\ entrypoint' = [entrypoint EXCEPT ![t] = call[v].req]
  BY <1>1 DEF WriteEntrypoint, msgVars
<1>4. \A u \in VCpus \ {t} :
        /\ state'[u] = state[u] /\ entrypoint'[u] = entrypoint[u]
        /\ context_id'[u] = context_id[u] /\ msgs'[u] = msgs[u]
  BY <1>0, <1>3 DEF Types, PowerTypes
<1>5. ASSUME t \notin raced PROVE Power(t)'
  <2>1. /\ t # v /\ Callers(t) = {v} /\ call[v].req = asked[t]
        /\ Asleep(t) /\ msgs[t] = 0
        /\ state[t] = "ON_PENDING"
    BY <1>1, <1>2, <1>3, <1>5, CallerKnows
  <2>2. entrypoint'[t] = asked[t] /\ state'[t] = "ON_PENDING"
    BY <1>0, <1>3, <2>1 DEF Types
  <2>3. \A w \in VCpus : at'[w] = IF w = v THEN "context" ELSE at[w]
    BY <1>0, <1>2 DEF Goto, Types, PowerTypes
  <2>4. Asleep(t)'
    BY <1>1, <1>2, <2>1, <2>3 DEF Asleep
  <2>5. Callers(t)' = {v}
    BY <1>1, <1>2, <2>1, <2>3 DEF Callers, Between
  <2>6. Writing(t)'
    BY <1>2, <1>3, <2>1, <2>2, <2>3, <2>4, <2>5 DEF Writing
  <2>7. call'[v].req = asked'[t]
    BY <1>2, <2>1
  <2> QED
    BY <1>2, <2>1, <2>2, <2>5, <2>6, <2>7 DEF Power, OneCaller, WhenOff, WhenPending, WhenOn
<1> QED
  BY <1>1, <1>2, <1>4, <1>5, CallerStep

\* The caller writes the context id.
LEMMA WriteContextIdPower ==
  ASSUME PsciInv, NEW v \in VCpus, WriteContextId(v)
  PROVE  \A u \in VCpus : u \notin raced' => Power(u)'
<1>0. Types
  BY DEF PsciInv
<1>1. PICK t \in VCpus : t = call[v].target
  BY <1>0 DEF Types
<1>2. /\ at[v] \in Between /\ Goto(v, "send") /\ "send" \in Between \cup {"guest"}
      /\ UNCHANGED <<call, back, regs, asked, raced>>
  BY DEF WriteContextId, Between, history
<1>3. /\ at[v] = "context" /\ UNCHANGED <<state, entrypoint, msgs>>
      /\ context_id' = [context_id EXCEPT ![t] = call[v].req]
  BY <1>1 DEF WriteContextId, msgVars
<1>4. \A u \in VCpus \ {t} :
        /\ state'[u] = state[u] /\ entrypoint'[u] = entrypoint[u]
        /\ context_id'[u] = context_id[u] /\ msgs'[u] = msgs[u]
  BY <1>0, <1>3 DEF Types, PowerTypes
<1>5. ASSUME t \notin raced PROVE Power(t)'
  <2>1. /\ t # v /\ Callers(t) = {v} /\ call[v].req = asked[t]
        /\ Asleep(t) /\ msgs[t] = 0
        /\ state[t] = "ON_PENDING" /\ entrypoint[t] = asked[t]
    BY <1>1, <1>2, <1>3, <1>5, CallerKnows
  <2>2. context_id'[t] = asked[t] /\ state'[t] = "ON_PENDING"
    BY <1>0, <1>3, <2>1 DEF Types
  <2>3. \A w \in VCpus : at'[w] = IF w = v THEN "send" ELSE at[w]
    BY <1>0, <1>2 DEF Goto, Types, PowerTypes
  <2>4. Asleep(t)'
    BY <1>1, <1>2, <2>1, <2>3 DEF Asleep
  <2>5. Callers(t)' = {v}
    BY <1>1, <1>2, <2>1, <2>3 DEF Callers, Between
  <2>6. Writing(t)'
    BY <1>2, <1>3, <2>1, <2>2, <2>3, <2>4, <2>5 DEF Writing
  <2>7. call'[v].req = asked'[t]
    BY <1>2, <2>1
  <2> QED
    BY <1>2, <2>1, <2>2, <2>5, <2>6, <2>7 DEF Power, OneCaller, WhenOff, WhenPending, WhenOn
<1> QED
  BY <1>1, <1>2, <1>4, <1>5, CallerStep

\* The caller sends PSCI_MSG_ON: by now psci_ctx is written.
LEMMA SendOnPower ==
  ASSUME PsciInv, NEW v \in VCpus, SendOn(v)
  PROVE  \A u \in VCpus : u \notin raced' => Power(u)'
<1>0. Types
  BY DEF PsciInv
<1>1. PICK t \in VCpus : t = call[v].target
  BY <1>0 DEF Types
<1>2. /\ at[v] \in Between /\ Goto(v, "guest") /\ "guest" \in Between \cup {"guest"}
      /\ UNCHANGED <<call, back, regs, asked, raced>>
  BY DEF SendOn, Between, history
<1>3. /\ at[v] = "send" /\ UNCHANGED <<state, entrypoint, context_id>>
      /\ msgs' = [msgs EXCEPT ![t] = @ + 1]
  BY <1>1 DEF SendOn, ctxVars
<1>4. \A u \in VCpus \ {t} :
        /\ state'[u] = state[u] /\ entrypoint'[u] = entrypoint[u]
        /\ context_id'[u] = context_id[u] /\ msgs'[u] = msgs[u]
  BY <1>0, <1>3 DEF Types, PowerTypes
<1>5. ASSUME t \notin raced PROVE Power(t)'
  <2>1. /\ t # v /\ Callers(t) = {v} /\ call[v].req = asked[t]
        /\ Asleep(t) /\ msgs[t] = 0
        /\ state[t] = "ON_PENDING" /\ Stored(t)
    BY <1>1, <1>2, <1>3, <1>5, CallerKnows DEF Stored
  <2>2. msgs'[t] = 1 /\ state'[t] = "ON_PENDING"
    BY <1>0, <1>3, <2>1 DEF Types, PowerTypes
  <2>3. \A w \in VCpus : at'[w] = IF w = v THEN "guest" ELSE at[w]
    BY <1>0, <1>2 DEF Goto, Types, PowerTypes
  <2>4. Asleep(t)'
    BY <1>1, <1>2, <2>1, <2>3 DEF Asleep
  <2>5. Callers(t)' = {}
    BY <1>1, <1>2, <2>1, <2>3 DEF Callers, Between
  <2>6. Sent(t)'
    BY <1>2, <1>3, <2>1, <2>2, <2>4, <2>5 DEF Sent, Stored
  <2> QED
    BY <2>2, <2>5, <2>6 DEF Power, OneCaller, WhenOff, WhenPending, WhenOn
<1> QED
  BY <1>1, <1>2, <1>4, <1>5, CallerStep

-----------------------------------------------------------------------------
\* Every step keeps the inductive invariant.
LEMMA NextPsciInv == PsciInv /\ [PsciNext]_psciVars => PsciInv'
<1> SUFFICES ASSUME PsciInv, [PsciNext]_psciVars PROVE PsciInv'
  OBVIOUS
<1>1. Types'
  BY NextTypes DEF PsciInv
<1>2. ASSUME NEW v \in VCpus, Guest(v)
      PROVE  \A u \in VCpus : u \notin raced' => Power(u)'
  BY <1>2, CpuOnPower, CpuOffPower, CpuSuspendPower, CpuStandbyPower DEF Guest
<1>3. ASSUME NEW v \in VCpus, Hypervisor(v)
      PROVE  \A u \in VCpus : u \notin raced' => Power(u)'
  BY <1>3, WritePendingPower, WriteEntrypointPower, WriteContextIdPower, SendOnPower,
     cpu_idle_wakeupPower, cpu_msg_handlerPower, WakeResetPower, WakeOnPower, WakeX0Power,
     vcpu_arch_runPower DEF Hypervisor
<1>4. ASSUME NEW v \in VCpus, Interrupted(v) \/ TakeIpi(v)
      PROVE  \A u \in VCpus : u \notin raced' => Power(u)'
  BY <1>4, WakePower, EndStandbyPower, psci_wake_from_powerdownPower, TakeIpiPower
  DEF Interrupted
<1>5. ASSUME UNCHANGED psciVars
      PROVE  \A u \in VCpus : u \notin raced' => Power(u)'
  <2>1. UNCHANGED <<at, call, back, state, entrypoint, context_id, regs, msgs, asked, raced>>
    BY <1>5 DEF psciVars, ctxVars, msgVars, history
  <2>2. \A u \in VCpus : Callers(u)' = Callers(u)
    BY <2>1 DEF Callers
  <2> QED
    BY <2>1, <2>2, Bystander DEF PsciInv
<1> QED
  BY <1>1, <1>2, <1>3, <1>4, <1>5 DEF PsciNext, PsciInv

\* StartsAsAsked: psci_cpu_on_handler, psci_cpu_off_handler,
\* psci_cpu_suspend_handler and the wake-ups enter a vCPU only when it is ON
\* and with the entry point and context id of the one request that last
\* started or suspended it, unless two calls found it OFF at the same time.
THEOREM PowerIsOrderly == PsciSpec => []StartsAsAsked
<1>1. PsciInv => StartsAsAsked
  <2> SUFFICES ASSUME PsciInv, NEW v \in VCpus, v \notin raced
               PROVE  /\ at[v] \in {"guest", "standby", "suspended"} => state[v] = "ON"
                      /\ at[v] = "guest" => Entered(v)
                      /\ msgs[v] <= 1 /\ (msgs[v] = 1 => state[v] = "ON_PENDING")
    BY DEF PsciInv, Types, StartsAsAsked, Entered
  <2>1. Power(v) /\ state[v] \in {"ON", "OFF", "ON_PENDING"}
    BY DEF PsciInv, Types, PowerTypes
  <2>2. CASE state[v] = "ON"
    BY <2>1, <2>2 DEF Power, WhenOn
  <2>3. CASE state[v] = "OFF"
    BY <2>1, <2>3 DEF Power, WhenOff, Asleep
  <2>4. CASE state[v] = "ON_PENDING"
    BY <2>1, <2>4 DEF Power, WhenPending, Writing, Sent, Starting, Asleep
  <2> QED
    BY <2>1, <2>2, <2>3, <2>4
<1> QED
  BY <1>1, InitPsciInv, NextPsciInv, PTL DEF PsciSpec

-----------------------------------------------------------------------------
(* The virtual interrupt controller: parts of its state. *)

\* The interrupts of devices, and the types of the parts of the vGIC.
HwKeys == {k \in Keys : vgic_int_is_hw(k)}
HcrTypes == [en : BOOLEAN, np : BOOLEAN, u : BOOLEAN, eoicount : Nat]
ListTypes == [head : Keys \cup {Nil}, tail : Keys \cup {Nil}]
PhysTypes == [state : States, enabled : BOOLEAN, tgt : SUBSET Cpus]
Vgics ==
    [int : [Keys -> IntTypes],
     lr : [Cpus -> [Lrs -> LrTypes]],
     curr : [Cpus -> [Lrs -> Ids \cup {0}]],
     hcr : [Cpus -> HcrTypes],
     list : [Cpus \cup {VM} -> ListTypes],
     msg : [Cpus -> Seq(Msgs)],
     ctlr : BOOLEAN,
     spilt : BOOLEAN,
     phys : [HwKeys -> PhysTypes]]

\* A list register v that the hypervisor believes to hold the id i
\* (curr_lrs): i is right while it is in use, what is tied to a device is a
\* device's interrupt and not pending and active, and a pending SGI of GICv2
\* has a source.
LrInv(v, i) ==
    /\ v.hw => v.state # {"P", "A"} /\ v.id \in Hw \ SGIs
    /\ v.state # {} => i = v.id /\ v.id \in Ids
    /\ v.eoi => v.id \in Ids
    /\ V2 /\ v.id \in SGIs =>
          /\ v.state # {"P", "A"}
          /\ v.state = {"P"} => v.cpuid # None

\* An interrupt that is kept as active is in no list register and has an owner.
IntInv(r) == "A" \in r.state => ~r.in_lr /\ r.owner # None

\* What every handler of the vGIC finds and leaves.
Sane(s) ==
    /\ s \in Vgics
    /\ \A c \in Cpus : \A n \in Lrs : LrInv(s.lr[c][n], s.curr[c][n])
    /\ \A k \in Keys : IntInv(s.int[k])

-----------------------------------------------------------------------------
\* The ids of cores are naturals with a greatest one; those of the distributor's
\* bank and of no core are no cores.
LEMMA CpusAre ==
    /\ Cpus \subseteq Nat /\ 0 \in Cpus /\ None \notin Cpus /\ VM \notin Cpus
    /\ \E c \in Cpus : \A d \in Cpus : d <= c
<1>1. Cpus \subseteq Nat /\ 0 \in Cpus /\ \E c \in Cpus : \A d \in Cpus : d <= c
    BY VgicAssumption
<1>2. None \notin Nat /\ VM \notin Nat
    BY DEF None, VM
<1> QED
    BY <1>1, <1>2

\* An id seen from a core names an interrupt with that id.
LEMMA KeyType ==
    ASSUME NEW c \in Cpus, NEW i \in Ids
    PROVE  Key(c, i) \in Keys /\ Key(c, i)[2] = i
BY DEF Keys, Key

\* An interrupt is a bank and an id, and it has the bank of a core if it is
\* private.
LEMMA KeysAre ==
    ASSUME NEW k \in Keys
    PROVE  /\ k[2] \in Ids /\ k[1] \in Cpus \cup {VM}
           /\ k = <<k[1], k[2]>>
           /\ k[2] \in Priv <=> k[1] # VM
BY VgicAssumption DEF Keys, Key, VM, Ids, Priv

\* A sane vGIC stays sane when an interrupt is set to something sane.
LEMMA SetInt ==
    ASSUME NEW s, Sane(s), NEW k \in Keys, NEW r \in IntTypes, IntInv(r)
    PROVE  Sane([s EXCEPT !.int[k] = r])
<1> DEFINE t == [s EXCEPT !.int[k] = r]
<1>1. /\ t.int = [s.int EXCEPT ![k] = r] /\ t.lr = s.lr /\ t.curr = s.curr
      /\ t \in Vgics
    BY DEF Sane, Vgics
<1> QED
    BY <1>1 DEF Sane, Vgics

\* A sane vGIC stays sane when a list register is set to something sane.
LEMMA SetLr ==
    ASSUME NEW s, Sane(s), NEW c \in Cpus, NEW n \in Lrs, NEW v \in LrTypes,
           LrInv(v, s.curr[c][n])
    PROVE  Sane([s EXCEPT !.lr[c][n] = v])
<1> DEFINE t == [s EXCEPT !.lr[c][n] = v]
<1>1. /\ t.lr = [s.lr EXCEPT ![c] = [s.lr[c] EXCEPT ![n] = v]] /\ t.int = s.int /\ t.curr = s.curr
      /\ s.lr[c] \in [Lrs -> LrTypes]
      /\ t \in Vgics
    BY DEF Sane, Vgics
<1>2. ASSUME NEW d \in Cpus, NEW m \in Lrs
      PROVE  LrInv(t.lr[d][m], t.curr[d][m])
    BY <1>1 DEF Sane, Vgics
<1> QED
    BY <1>1, <1>2 DEF Sane

\* Whether a vGIC is sane does not depend on more than its types, its interrupts
\* and its list registers.
LEMMA SameInside ==
    ASSUME NEW s, Sane(s), NEW t \in Vgics, t.int = s.int, t.lr = s.lr, t.curr = s.curr
    PROVE  Sane(t)
BY DEF Sane

\* The control of the list registers may be set to anything.
LEMMA SetHcr ==
    ASSUME NEW s, Sane(s), NEW c \in Cpus, NEW h \in HcrTypes
    PROVE  Sane([s EXCEPT !.hcr[c] = h])
<1> DEFINE t == [s EXCEPT !.hcr[c] = h]
<1>1. t \in Vgics /\ t.int = s.int /\ t.lr = s.lr /\ t.curr = s.curr
    BY DEF Sane, Vgics
<1> QED
    BY <1>1, SameInside

\* The lists of spilled interrupts may be set to anything.
LEMMA SetList ==
    ASSUME NEW s, Sane(s), NEW l \in Cpus \cup {VM}, NEW e \in ListTypes
    PROVE  Sane([s EXCEPT !.list[l] = e])
<1> DEFINE t == [s EXCEPT !.list[l] = e]
<1>1. t \in Vgics /\ t.int = s.int /\ t.lr = s.lr /\ t.curr = s.curr
    BY DEF Sane, Vgics
<1> QED
    BY <1>1, SameInside

\* The physical GIC may be set to anything.
LEMMA SetPhys ==
    ASSUME NEW s, Sane(s), NEW k, NEW p \in PhysTypes
    PROVE  Sane([s EXCEPT !.phys[k] = p])
<1> DEFINE t == [s EXCEPT !.phys[k] = p]
<1>1. t \in Vgics /\ t.int = s.int /\ t.lr = s.lr /\ t.curr = s.curr
    BY DEF Sane, Vgics
<1> QED
    BY <1>1, SameInside

\* vgic_get_ownership takes an interrupt that has no owner, and leaves one that
\* has.
LEMMA GetOwnership ==
    ASSUME NEW s, Sane(s), NEW c \in Cpus, NEW k \in Keys
    PROVE  /\ Sane(vgic_get_ownership(s, c, k))
           /\ s.int[k].owner \in {None, c} => vgic_get_ownership(s, c, k).int[k].owner = c
<1> DEFINE r == [s.int[k] EXCEPT !.owner = c]
<1>0. s.int[k] \in IntTypes /\ IntInv(s.int[k]) /\ c # None
    BY VgicAssumption DEF Sane, Vgics, None
<1>1. r \in IntTypes /\ IntInv(r)
    BY <1>0 DEF IntInv, IntTypes
<1>2. [s EXCEPT !.int[k].owner = c] = [s EXCEPT !.int[k] = r]
    OBVIOUS
<1>3. Sane([s EXCEPT !.int[k] = r])
    BY <1>1, SetInt
<1>4. [s EXCEPT !.int[k] = r].int[k].owner = c
    BY <1>0 DEF Sane, Vgics, IntTypes
<1> QED
    BY <1>2, <1>3, <1>4 DEF vgic_get_ownership

\* What vgic_get_state and gich_get_lr find: the list register is the one the
\* interrupt names, in use and with its id.
LEMMA StateOf ==
    ASSUME NEW s, Sane(s), NEW c \in Cpus, NEW k \in Keys
    PROVE  /\ vgic_get_state(s, c, k) \in States
           /\ gich_get_lr(s, c, k) \in Lrs \cup {0}
           /\ gich_get_lr(s, c, k) # 0 =>
                /\ gich_get_lr(s, c, k) = s.int[k].lr
                /\ s.int[k].in_lr /\ s.int[k].owner = c
                /\ s.lr[c][gich_get_lr(s, c, k)].state # {}
                /\ s.lr[c][gich_get_lr(s, c, k)].id = k[2]
           /\ ~s.int[k].in_lr /\ "A" \notin vgic_get_state(s, c, k) =>
                "A" \notin s.int[k].state
<1>0. s.int[k] \in IntTypes /\ s.lr[c] \in [Lrs -> LrTypes]
    BY DEF Sane, Vgics
<1>1. /\ gich_get_lr(s, c, k) \in Lrs \cup {0}
      /\ gich_get_lr(s, c, k) # 0 =>
           /\ gich_get_lr(s, c, k) = s.int[k].lr
           /\ s.int[k].in_lr /\ s.int[k].owner = c
           /\ s.lr[c][gich_get_lr(s, c, k)].state # {}
           /\ s.lr[c][gich_get_lr(s, c, k)].id = k[2]
    BY <1>0 DEF gich_get_lr, IntTypes
<1>2. /\ s.int[k].lr \in Lrs /\ s.int[k].state \in States
      /\ s.lr[c][s.int[k].lr].state \in States
    BY <1>0 DEF IntTypes, LrTypes
<1>3. vgic_get_state(s, c, k) \in States
    BY <1>2 DEF vgic_get_state, States
<1>4. ~s.int[k].in_lr /\ "A" \notin vgic_get_state(s, c, k) => "A" \notin s.int[k].state
    BY <1>1 DEF vgic_get_state
<1> QED
    BY <1>1, <1>3, <1>4

\* vgic_yield_ownership gives no active interrupt up.
LEMMA YieldOwnership ==
    ASSUME NEW s, Sane(s), NEW c \in Cpus, NEW k \in Keys
    PROVE  Sane(vgic_yield_ownership(s, c, k))
<1> DEFINE r == [s.int[k] EXCEPT !.owner = None]
<1>0. s.int[k] \in IntTypes /\ IntInv(s.int[k])
    BY DEF Sane, Vgics
<1>1. CASE s.int[k].in_lr \/ "A" \in vgic_get_state(s, c, k)
    BY <1>1 DEF vgic_yield_ownership
<1>2. CASE ~s.int[k].in_lr /\ "A" \notin vgic_get_state(s, c, k)
    <2>1. r \in IntTypes /\ IntInv(r)
        BY <1>0, <1>2, StateOf DEF IntInv, IntTypes
    <2>2. [s EXCEPT !.int[k].owner = None] = [s EXCEPT !.int[k] = r]
        OBVIOUS
    <2>3. Sane([s EXCEPT !.int[k] = r])
        BY <2>1, SetInt
    <2> QED
        BY <2>2, <2>3 DEF vgic_yield_ownership
<1> QED
    BY <1>1, <1>2

\* A message changes nothing of the interrupts.
LEMMA SendMsg ==
    ASSUME NEW s, Sane(s), NEW targets, NEW m \in Msgs
    PROVE  Sane(vgic_send_sgi_msg(s, targets, m))
<1> DEFINE t == vgic_send_sgi_msg(s, targets, m)
<1>0. s.msg \in [Cpus -> Seq(Msgs)]
    BY DEF Sane, Vgics
<1>1. \A c \in Cpus : Append(s.msg[c], m) \in Seq(Msgs)
    BY <1>0
<1>2. [c \in Cpus |-> IF c \in targets THEN Append(s.msg[c], m) ELSE s.msg[c]]
        \in [Cpus -> Seq(Msgs)]
    BY <1>0, <1>1
<1>3. t \in Vgics /\ t.int = s.int /\ t.lr = s.lr /\ t.curr = s.curr
    BY <1>2 DEF vgic_send_sgi_msg, Sane, Vgics
<1> QED
    BY <1>3, SameInside

\* The link of a spilled interrupt is not part of what makes it sane.
LEMMA SetNext ==
    ASSUME NEW s, Sane(s), NEW k \in Keys, NEW j \in Keys \cup {Nil}
    PROVE  Sane([s EXCEPT !.int[k].next = j])
<1> DEFINE r == [s.int[k] EXCEPT !.next = j]
<1>0. s.int[k] \in IntTypes /\ IntInv(s.int[k])
    BY DEF Sane, Vgics
<1>1. r \in IntTypes /\ IntInv(r)
    BY <1>0 DEF IntTypes, IntInv
<1>2. [s EXCEPT !.int[k].next = j] = [s EXCEPT !.int[k] = r]
    OBVIOUS
<1> QED
    BY <1>1, <1>2, SetInt

\* vgic_add_spilled puts an interrupt at the end of a list, whatever the list
\* was.
LEMMA AddSpilled ==
    ASSUME NEW s, Sane(s), NEW c \in Cpus, NEW k \in Keys
    PROVE  Sane(vgic_add_spilled(s, c, k))
<1> DEFINE l == IF k[2] \in Priv THEN c ELSE VM
           t == s.list[l].tail
           s1 == [s EXCEPT !.int[k].next = Nil]
           s2 == IF t = Nil THEN s1 ELSE [s1 EXCEPT !.int[t].next = k]
           s3 == [s2 EXCEPT !.list[l].tail = k,
                            !.list[l].head = IF @ = Nil THEN k ELSE @,
                            !.hcr[c].np = TRUE,
                            !.spilt = TRUE]
<1>1. t \in Keys \cup {Nil} /\ l \in Cpus \cup {VM}
    <2>1. l \in Cpus \cup {VM} /\ s.list \in [Cpus \cup {VM} -> ListTypes]
        BY DEF Sane, Vgics
    <2> QED
        BY <2>1 DEF ListTypes
<1>2. Sane(s1)
    BY SetNext
<1>3. Sane(s2)
    BY <1>1, <1>2, SetNext
<1> DEFINE e == [s2.list[l] EXCEPT !.tail = k, !.head = IF @ = Nil THEN k ELSE @]
           h == [s2.hcr[c] EXCEPT !.np = TRUE]
           s4 == [s2 EXCEPT !.list[l] = e]
           s5 == [s4 EXCEPT !.hcr[c] = h]
<1> HIDE DEF s1, s2, t, l
<1>4. s2.list[l] \in ListTypes /\ s2.hcr[c] \in HcrTypes
    BY <1>1, <1>3 DEF Sane, Vgics
<1>5. e \in ListTypes /\ h \in HcrTypes
    BY <1>4 DEF ListTypes, HcrTypes
<1>6. Sane([s5 EXCEPT !.spilt = TRUE])
    <2>1. Sane(s4)
        BY <1>1, <1>3, <1>5, SetList
    <2> HIDE DEF s4
    <2>2. Sane(s5)
        BY <1>5, <2>1, SetHcr
    <2> HIDE DEF s5
    <2> DEFINE s6 == [s5 EXCEPT !.spilt = TRUE]
    <2>3. s6 \in Vgics /\ s6.int = s5.int /\ s6.lr = s5.lr /\ s6.curr = s5.curr
        BY <2>2 DEF Sane, Vgics
    <2> QED
        BY <2>2, <2>3, SameInside
<1>7. s3 = [s5 EXCEPT !.spilt = TRUE]
    BY <1>1, <1>3, <1>4 DEF Sane, Vgics
<1> QED
    BY <1>6, <1>7 DEF vgic_add_spilled, s1, s2, t, l

\* vgic_remove_lr: what is in the list register is stored with the interrupt,
\* which its core owns.
LEMMA RemoveLr ==
    ASSUME NEW s, Sane(s), NEW c \in Cpus, NEW k \in Keys
    PROVE  /\ Sane(vgic_remove_lr(s, c, k))
           /\ s.int[k].owner = c => /\ vgic_remove_lr(s, c, k).int[k].owner = c
                                    /\ ~vgic_remove_lr(s, c, k).int[k].in_lr
<1> DEFINE n == gich_get_lr(s, c, k)
           v == s.lr[c][n]
           s1 == [s EXCEPT !.int[k].in_lr = FALSE]
           r0 == [s.int[k] EXCEPT !.in_lr = FALSE]
           r == [s.int[k] EXCEPT !.in_lr = FALSE,
                    !.state = v.state,
                    !.sgiAct = IF V2 /\ k[2] \in SGIs /\ "A" \in v.state
                               THEN v.cpuid ELSE @,
                    !.sgiPend = IF V2 /\ k[2] \in SGIs /\ v.state = {"P"}
                                THEN @ \cup {v.cpuid} ELSE @]
           s2 == [s EXCEPT !.int[k] = r]
           s3 == [s2 EXCEPT !.lr[c][n] = EmptyLr]
           s4 == [s3 EXCEPT !.hcr[c] = [s.hcr[c] EXCEPT
                               !.np = @ \/ ("P" \in v.state /\ s.int[k].enabled), !.u = TRUE]]
<1>0. s.int[k] \in IntTypes /\ IntInv(s.int[k]) /\ s.lr[c] \in [Lrs -> LrTypes]
    BY DEF Sane, Vgics
<1>1. CASE ~vgic_owns(s, c, k) \/ ~s.int[k].in_lr
    BY <1>1 DEF vgic_remove_lr, vgic_owns
<1>2. CASE vgic_owns(s, c, k) /\ s.int[k].in_lr /\ n = 0
    <2>1. r0 \in IntTypes /\ IntInv(r0)
        BY <1>0, <1>2 DEF IntInv, IntTypes
    <2>2. s1 = [s EXCEPT !.int[k] = r0]
        OBVIOUS
    <2>3. Sane(s1)
        BY <2>1, <2>2, SetInt
    <2>4. s1.int[k].owner = s.int[k].owner /\ ~s1.int[k].in_lr
        BY <1>0 DEF Sane, Vgics, IntTypes
    <2> QED
        BY <1>2, <2>3, <2>4 DEF vgic_remove_lr
<1>3. CASE vgic_owns(s, c, k) /\ s.int[k].in_lr /\ n # 0
    <2>1. n \in Lrs /\ v \in LrTypes /\ s.int[k].owner = c
        BY <1>0, <1>3, StateOf DEF vgic_owns
    <2> HIDE DEF n, v
    <2>2. c # None
        BY VgicAssumption DEF None
    <2>3. V2 /\ k[2] \in SGIs /\ v.state = {"P"} => v.cpuid \in Cpus
        <3>1. LrInv(v, s.curr[c][n]) /\ v.cpuid \in Cpus \cup {None} /\ v.id = k[2]
            BY <1>3, <2>1, StateOf DEF Sane, LrTypes, n, v
        <3> QED
            BY <3>1 DEF LrInv
    <2>4. r \in IntTypes /\ IntInv(r) /\ r.owner = c /\ ~r.in_lr
        <3>1. /\ v.state \in States /\ v.cpuid \in Cpus \cup {None}
              /\ s.int[k].sgiPend \in SUBSET Cpus /\ s.int[k].sgiAct \in Cpus \cup {None}
            BY <1>0, <2>1 DEF LrTypes, IntTypes
        <3>2. /\ (IF V2 /\ k[2] \in SGIs /\ "A" \in v.state THEN v.cpuid
                  ELSE s.int[k].sgiAct) \in Cpus \cup {None}
              /\ (IF V2 /\ k[2] \in SGIs /\ v.state = {"P"} THEN s.int[k].sgiPend \cup {v.cpuid}
                  ELSE s.int[k].sgiPend) \in SUBSET Cpus
            BY <2>3, <3>1
        <3> QED
            BY <1>0, <2>1, <2>2, <3>1, <3>2 DEF IntInv, IntTypes
    <2> HIDE DEF r
    <2>5. Sane(s2) /\ s2.int[k] = r
        BY <2>4, SetInt DEF Sane, Vgics
    <2> HIDE DEF s2
    <2>6. EmptyLr \in LrTypes /\ LrInv(EmptyLr, s2.curr[c][n])
        BY VgicAssumption DEF EmptyLr, LrTypes, LrInv, States, Ids
    <2>7. Sane(s3) /\ s3.int = s2.int
        <3>1. Sane(s3)
            BY <2>1, <2>5, <2>6, SetLr
        <3> QED
            BY <2>5, <3>1 DEF Sane, Vgics
    <2>8. Sane(s4) /\ s4.int = s2.int
        <3> HIDE DEF s3
        <3> DEFINE h == [s.hcr[c] EXCEPT !.np = @ \/ ("P" \in v.state /\ s.int[k].enabled),
                                         !.u = TRUE]
        <3>1. s.hcr[c] \in HcrTypes
            BY DEF Sane, Vgics
        <3>2. h \in HcrTypes
            BY <1>0, <3>1 DEF HcrTypes, IntTypes
        <3>3. Sane([s3 EXCEPT !.hcr[c] = h])
            BY <2>7, <3>2, SetHcr
        <3>4. s4 = [s3 EXCEPT !.hcr[c] = h]
            OBVIOUS
        <3> QED
            BY <2>7, <3>3, <3>4 DEF Sane, Vgics
    <2>9. vgic_remove_lr(s, c, k) = s4
        BY <1>3, <2>1 DEF vgic_remove_lr, vgic_owns, n, v, r, s2
    <2> HIDE DEF s3, s4
    <2> QED
        BY <2>4, <2>5, <2>8, <2>9
<1> QED
    BY <1>1, <1>2, <1>3

\* A set of naturals that is not empty has a least element.
LEMMA SmallestOf ==
    ASSUME NEW T, T \subseteq Nat, T # {}
    PROVE  \E x \in T : \A y \in T : x <= y
<1> DEFINE R == OpToRel(<, Nat)
<1>1. \A x, y \in Nat : y < x => <<y, x>> \in R
    BY DEF OpToRel
<1>2. IsWellFoundedOn(R, Nat)
    BY NatLessThanWellFounded
<1> HIDE DEF R
<1>3. PICK x \in T : \A y \in T : ~(<<y, x>> \in R)
    BY <1>2, WFMin
<1>4. \A y \in T : x \in Nat /\ y \in Nat /\ ~(y < x)
    BY <1>1, <1>3
<1>5. \A y \in T : x <= y
    BY <1>4
<1> QED
    BY <1>5

\* A bounded set of naturals that is not empty has a greatest element.
LEMMA GreatestOf ==
    ASSUME NEW T, T \subseteq Nat, T # {}, NEW b \in Nat, \A x \in T : x <= b
    PROVE  \E x \in T : \A y \in T : y <= x
<1> DEFINE D == {b - x : x \in T}
<1>1. D \subseteq Nat /\ D # {}
    <2>1. \A x \in T : b - x \in Nat
        OBVIOUS
    <2> QED
        BY <2>1
<1>2. PICK d \in D : \A e \in D : d <= e
    BY <1>1, SmallestOf
<1>3. PICK x \in T : d = b - x
    BY <1>2
<1>4. ASSUME NEW y \in T PROVE y <= x
    <2>1. b - y \in D /\ x \in Nat /\ y \in Nat
        BY <1>4
    <2> QED
        BY <1>2, <1>3, <2>1
<1> QED
    BY <1>4

\* The end of vgic_write_lr: the interrupt is in the list register, and with the
\* interrupt nothing is left of its state.
LEMMA PutInLr ==
    ASSUME NEW s, Sane(s), NEW c \in Cpus, NEW k \in Keys, NEW n \in Lrs, NEW v \in LrTypes,
           LrInv(v, k[2])
    PROVE  Sane(Place(s, c, k, n, v))
<1> DEFINE s1 == [s EXCEPT !.lr[c][n] = v, !.curr[c][n] = k[2]]
           r  == [s.int[k] EXCEPT !.state = {}, !.in_lr = TRUE, !.lr = n]
<1>0. PICK i \in Ids \cup {0} : i = k[2]
    BY KeysAre
<1>1. Sane(s1) /\ s1.int = s.int
    <2>0. /\ s.lr[c] \in [Lrs -> LrTypes] /\ s.curr[c] \in [Lrs -> Ids \cup {0}]
          /\ s.lr \in [Cpus -> [Lrs -> LrTypes]] /\ s.curr \in [Cpus -> [Lrs -> Ids \cup {0}]]
        BY DEF Sane, Vgics
    <2>1. /\ s1.lr = [s.lr EXCEPT ![c] = [s.lr[c] EXCEPT ![n] = v]]
          /\ s1.curr = [s.curr EXCEPT ![c] = [s.curr[c] EXCEPT ![n] = i]]
          /\ s1.int = s.int
        BY <1>0 DEF Sane, Vgics
    <2>2. s1 \in Vgics
        <3>1. s1.lr \in [Cpus -> [Lrs -> LrTypes]] /\ s1.curr \in [Cpus -> [Lrs -> Ids \cup {0}]]
            BY <2>0, <2>1
        <3>2. s1 = [s EXCEPT !.lr = s1.lr, !.curr = s1.curr]
            BY <2>1 DEF Sane, Vgics
        <3> HIDE DEF s1
        <3> QED
            BY <3>1, <3>2 DEF Sane, Vgics
    <2> HIDE DEF s1
    <2>3. ASSUME NEW d \in Cpus, NEW m \in Lrs
          PROVE  LrInv(s1.lr[d][m], s1.curr[d][m])
        <3>1. CASE d = c /\ m = n
            BY <1>0, <2>0, <2>1, <3>1
        <3>2. CASE ~(d = c /\ m = n)
            <4>1. s1.lr[d][m] = s.lr[d][m] /\ s1.curr[d][m] = s.curr[d][m]
                BY <2>0, <2>1, <3>2
            <4> QED
                BY <4>1 DEF Sane
        <3> QED
            BY <3>1, <3>2
    <2> QED
        BY <2>1, <2>2, <2>3 DEF Sane
<1>2. r \in IntTypes /\ IntInv(r)
    <2>1. s.int[k] \in IntTypes
        BY DEF Sane, Vgics
    <2> QED
        BY <2>1 DEF IntTypes, IntInv, States
<1>3. Sane([s1 EXCEPT !.int[k] = r])
    BY <1>1, <1>2, SetInt
<1>4. Place(s, c, k, n, v) = [s1 EXCEPT !.int[k] = r]
    <2>1. Place(s, c, k, n, v) = [s EXCEPT !.lr[c][n] = v, !.curr[c][n] = k[2],
                                           !.int = [s.int EXCEPT ![k] = r]]
        BY DEF Place
    <2>2. [s1 EXCEPT !.int[k] = r] = [s1 EXCEPT !.int = [s.int EXCEPT ![k] = r]]
        BY <1>1
    <2> QED
        BY <2>1, <2>2
<1> QED
    BY <1>3, <1>4

\* The interrupt that was in the list register before has left it.
LEMMA Forgets ==
    ASSUME NEW s, Sane(s), NEW c \in Cpus, NEW k \in Keys, NEW n \in Lrs
    PROVE  Sane(ForgetPrevious(s, c, k, n))
<1> DEFINE p == Key(c, s.curr[c][n])
           r == [s.int[p] EXCEPT !.in_lr = FALSE]
<1>1. CASE s.curr[c][n] \in SPIs /\ s.int[p].in_lr
    <2>1. p \in Keys
        BY <1>1, KeyType DEF Ids
    <2>2. s.int[p] \in IntTypes /\ IntInv(s.int[p])
        BY <2>1 DEF Sane, Vgics
    <2>3. r \in IntTypes /\ IntInv(r)
        BY <1>1, <2>2 DEF IntTypes, IntInv
    <2>4. Sane([s EXCEPT !.int[p] = r])
        BY <2>1, <2>3, SetInt
    <2>5. [s EXCEPT !.int[p].in_lr = FALSE] = [s EXCEPT !.int[p] = r]
        OBVIOUS
    <2> HIDE DEF p, r
    <2>6. Sane(vgic_yield_ownership([s EXCEPT !.int[p].in_lr = FALSE], c, p))
        BY <2>1, <2>4, <2>5, YieldOwnership
    <2> QED
        BY <2>6 DEF ForgetPrevious, p
<1>2. CASE ~(s.curr[c][n] \in SPIs /\ s.int[p].in_lr)
    BY <1>2 DEF ForgetPrevious
<1> QED
    BY <1>1, <1>2

\* vgic_write_lr: what is written to a list register is sane, the source of an
\* SGI included.
LEMMA WriteLr ==
    ASSUME NEW s0, Sane(s0), NEW c \in Cpus, NEW k \in Keys, NEW n \in Lrs
    PROVE  Sane(vgic_write_lr(s0, c, k, n))
<1> DEFINE s == ForgetPrevious(s0, c, k, n)
           bits == vgic_get_state(s, c, k)
           pend == s.int[k].sgiPend
           src == IF pend = {} THEN None ELSE CHOOSE x \in pend : \A y \in pend : y <= x
           sgi == V2 /\ k[2] \in SGIs
           rest == IF sgi /\ "A" \notin bits THEN pend \ {src} ELSE pend
           v == [id    |-> k[2],
                 prio  |-> s.int[k].prio,
                 hw    |-> vgic_int_is_hw(k),
                 state |-> LrState(k, bits, src),
                 cpuid |-> IF ~sgi THEN None
                           ELSE IF "A" \in bits THEN s.int[k].sgiAct ELSE src,
                 eoi   |-> IF sgi THEN rest # {} ELSE ~vgic_int_is_hw(k) /\ k[2] \in SPIs]
           r == [s.int[k] EXCEPT !.sgiPend = rest]
<1>1. Sane(s)
    BY Forgets
<1> HIDE DEF s
<1>2. s.int[k] \in IntTypes /\ IntInv(s.int[k]) /\ bits \in States
    BY <1>1, StateOf DEF Sane, Vgics
<1>3. pend \subseteq Cpus /\ s.int[k].sgiAct \in Cpus \cup {None} /\ s.int[k].prio \in Prios
    BY <1>2 DEF IntTypes
<1> HIDE DEF bits, pend
<1>4. src \in Cpus \cup {None} /\ (pend = {} <=> src = None)
    <2>1. CASE pend = {}
        BY <2>1
    <2>2. CASE pend # {}
        <3>1. PICK b \in Cpus : \A d \in Cpus : d <= b
            BY CpusAre
        <3>2. \E x \in pend : \A y \in pend : y <= x
            BY <1>3, <2>2, <3>1, GreatestOf, CpusAre
        <3>3. src \in pend
            BY <2>2, <3>2
        <3> HIDE DEF src
        <3> QED
            BY <1>3, <2>2, <3>3, CpusAre
    <2> QED
        BY <2>1, <2>2
<1> HIDE DEF src
<1>5. rest \subseteq Cpus
    BY <1>3
<1> HIDE DEF rest
<1>6. /\ LrState(k, bits, src) \in States
      /\ sgi => LrState(k, bits, src) # {"P", "A"}
      /\ vgic_int_is_hw(k) => LrState(k, bits, src) # {"P", "A"}
      /\ sgi /\ LrState(k, bits, src) = {"P"} => "A" \notin bits /\ src # None
    BY <1>2 DEF LrState, States, vgic_int_is_hw
<1>7. v \in LrTypes
    <2>1. k[2] \in Ids /\ vgic_int_is_hw(k) \in BOOLEAN
        BY KeysAre DEF vgic_int_is_hw
    <2> QED
        BY <1>3, <1>4, <1>6, <2>1 DEF LrTypes
<1>8. LrInv(v, k[2])
    BY <1>6, KeysAre DEF LrInv, vgic_int_is_hw
<1>9. Sane([s EXCEPT !.int[k] = r])
    <2>1. r \in IntTypes /\ IntInv(r)
        BY <1>2, <1>5 DEF IntTypes, IntInv
    <2> QED
        BY <1>1, <2>1, SetInt
<1>10. [s EXCEPT !.int[k].sgiPend = rest] = [s EXCEPT !.int[k] = r]
    OBVIOUS
<1> HIDE DEF v, r
<1>11. Sane(Place([s EXCEPT !.int[k].sgiPend = rest], c, k, n, v))
    BY <1>7, <1>8, <1>9, <1>10, PutInLr
<1> QED
    BY <1>11 DEF vgic_write_lr, s, bits, pend, src, rest, v

\* vgic_spill_lr of a list register in use.
LEMMA SpillLr ==
    ASSUME NEW s, Sane(s), NEW c \in Cpus, NEW n \in Lrs, s.lr[c][n].state # {}
    PROVE  Sane(vgic_spill_lr(s, c, n))
<1> DEFINE k == Key(c, s.lr[c][n].id)
<1>1. k \in Keys
    BY KeyType DEF Sane, LrInv
<1> HIDE DEF k
<1>2. Sane(vgic_remove_lr(s, c, k))
    BY <1>1, RemoveLr
<1>3. Sane(vgic_add_spilled(vgic_remove_lr(s, c, k), c, k))
    BY <1>1, <1>2, AddSpilled
<1>4. Sane(vgic_yield_ownership(vgic_add_spilled(vgic_remove_lr(s, c, k), c, k), c, k))
    BY <1>1, <1>3, YieldOwnership
<1> QED
    BY <1>4 DEF vgic_spill_lr, k

\* The list registers are numbered from one.
LEMMA LrsAre ==
    ASSUME NUM_LRS \in LrCounts
    PROVE  Lrs \subseteq Nat /\ 0 \notin Lrs /\ \A n \in Lrs : n <= NUM_LRS /\ NUM_LRS \in Nat
BY VgicAssumption DEF Lrs

\* The first of some list registers is one of them.
LEMMA LowestIn ==
    ASSUME NUM_LRS \in LrCounts, NEW S, S \subseteq Lrs, S # {}
    PROVE  Lowest1(S) \in S
<1>1. \E n \in S : \A m \in S : n <= m
    BY LrsAre, SmallestOf
<1> QED
    BY <1>1 DEF Lowest1

\* Of several interrupts with bounded priorities and ids one is the least
\* urgent.
LEMMA OneIsBelow ==
    ASSUME NEW X, NEW U, X # {}, NEW b \in Nat,
           \A x \in X : U[x][1] \in 0..b /\ U[x][2] \in 0..b
    PROVE  \E x \in X : \A y \in X : ~Below(U[y], U[x])
<1>0. \A x \in X : /\ U[x][1] \in Nat /\ U[x][1] <= b
                    /\ U[x][2] \in Nat /\ U[x][2] <= b
    OBVIOUS
<1> DEFINE P == {U[x][1] : x \in X}
<1>1. PICK p \in P : \A q \in P : q <= p
    <2>1. P \subseteq Nat /\ P # {} /\ \A q \in P : q <= b
        BY <1>0
    <2> HIDE DEF P
    <2> QED
        BY <2>1, GreatestOf
<1> DEFINE Y == {x \in X : U[x][1] = p}
           I == {U[x][2] : x \in Y}
<1>2. PICK i \in I : \A j \in I : j <= i
    <2>1. PICK w \in X : U[w][1] = p
        BY <1>1
    <2>2. U[w][2] \in I
        BY <2>1
    <2>3. I \subseteq Nat /\ \A j \in I : j <= b
        BY <1>0
    <2> HIDE DEF I
    <2> QED
        BY <2>2, <2>3, GreatestOf
<1>3. PICK x \in Y : U[x][2] = i
    BY <1>2
<1>4. ASSUME NEW y \in X, Below(U[y], U[x])
      PROVE  FALSE
    <2>1. /\ U[y][1] \in P /\ U[y][1] \in Nat /\ U[y][2] \in Nat
          /\ U[x][1] = p /\ p \in Nat /\ i \in Nat
        BY <1>0, <1>1, <1>3
    <2>2. U[y][1] <= p /\ U[x][2] = i
        BY <1>1, <1>3, <2>1
    <2>3. U[y][1] = p /\ U[y][2] > i
        <3> HIDE DEF P, I, Y
        <3> QED
            BY <1>4, <2>1, <2>2 DEF Below
    <2>4. U[y][2] \in I
        BY <2>1, <2>3
    <2>5. U[y][2] <= i
        BY <1>2, <2>4
    <2> QED
        BY <2>1, <2>3, <2>5
<1> QED
    BY <1>3, <1>4

\* Of several interrupts with bounded priorities and ids one is the most urgent.
LEMMA OneIsAbove ==
    ASSUME NEW X, NEW U, X # {}, NEW b \in Nat,
           \A x \in X : U[x][1] \in 0..b /\ U[x][2] \in 0..b
    PROVE  \E x \in X : \A y \in X : ~Below(U[x], U[y])
<1> DEFINE W == [x \in X |-> <<b - U[x][1], b - U[x][2]>>]
<1>1. \A x \in X : /\ U[x][1] \in Int /\ U[x][2] \in Int
                   /\ W[x][1] = b - U[x][1] /\ W[x][2] = b - U[x][2]
                   /\ W[x][1] \in 0..b /\ W[x][2] \in 0..b
    OBVIOUS
<1> HIDE DEF W
<1>2. PICK x \in X : \A y \in X : ~Below(W[y], W[x])
    BY <1>1, OneIsBelow
<1>3. ASSUME NEW y \in X PROVE ~Below(U[x], U[y])
    <2>1. ~Below(W[y], W[x])
        BY <1>2
    <2> QED
        BY <1>1, <2>1 DEF Below
<1> QED
    BY <1>3

\* The priorities and the ids have a common bound.
LEMMA Bounds ==
    \E b \in Nat : (\A p \in Prios \cup {0} : p \in 0..b) /\ (\A i \in Ids \cup {0} : i \in 0..b)
<1>1. PICK p \in Prios : Prios \subseteq Nat /\ \A q \in Prios : q <= p
    BY VgicAssumption
<1>2. PICK i \in Ids : Ids \subseteq Nat /\ \A j \in Ids : j <= i
    BY VgicAssumption DEF Ids
<1>3. p + i \in Nat /\ p <= p + i /\ i <= p + i
    BY <1>1, <1>2
<1>4. \A q \in Prios \cup {0} : q \in 0..(p + i)
    BY <1>1, <1>2
<1>5. \A j \in Ids \cup {0} : j \in 0..(p + i)
    BY <1>1, <1>2
<1> QED
    BY <1>3, <1>4, <1>5

\* The list register that is given up is one in use.
LEMMA VictimIn ==
    ASSUME NUM_LRS \in LrCounts, NEW s, Sane(s), NEW c \in Cpus, NEW k \in Keys, Victim(s, c, k) # 0
    PROVE  Victim(s, c, k) \in Lrs /\ s.lr[c][Victim(s, c, k)].state # {}
<1> DEFINE U(n) == <<s.lr[c][n].prio, s.lr[c][n].id>>
           act  == {n \in Lrs : "A" \in s.lr[c][n].state}
           pend == {n \in Lrs : s.lr[c][n].state = {"P"}}
           from == IF Cardinality(pend) > 1 THEN pend ELSE act
           less == {n \in from : Below(U(n), <<s.int[k].prio, k[2]>>)}
           W == [n \in less |-> U(n)]
<1>1. less \subseteq Lrs /\ \A n \in less : s.lr[c][n].state # {}
    OBVIOUS
<1>2. less # {} /\ Victim(s, c, k) = CHOOSE n \in less : \A m \in less : ~Below(U(m), U(n))
    BY DEF Victim
<1>3. PICK b \in Nat : /\ \A p \in Prios \cup {0} : p \in 0..b
                        /\ \A i \in Ids \cup {0} : i \in 0..b
    BY Bounds
<1>4. \A n \in less : W[n] = U(n) /\ W[n][1] \in 0..b /\ W[n][2] \in 0..b
    <2> SUFFICES ASSUME NEW n \in less
                 PROVE  s.lr[c][n].prio \in 0..b /\ s.lr[c][n].id \in 0..b
        OBVIOUS
    <2>1. s.lr[c][n] \in LrTypes
        BY <1>1 DEF Sane, Vgics
    <2> QED
        BY <1>3, <2>1 DEF LrTypes
<1> HIDE DEF W, less
<1>5. PICK n \in less : \A m \in less : ~Below(W[m], W[n])
    BY <1>2, <1>4, OneIsBelow
<1>6. \A m \in less : ~Below(U(m), U(n))
    BY <1>4, <1>5
<1>7. Victim(s, c, k) \in less
    <2> HIDE DEF U
    <2> QED
        BY <1>2, <1>6
<1> QED
    BY <1>1, <1>7

\* vgic_add_lr: into a free list register, into one that is given up, or
\* spilled.
LEMMA AddLr ==
    ASSUME NUM_LRS \in LrCounts, NEW s, Sane(s), NEW c \in Cpus, NEW k \in Keys
    PROVE  Sane(vgic_add_lr(s, c, k))
<1> DEFINE free == Elrsr(s, c)
           vic == Victim(s, c, k)
<1>1. CASE ~s.int[k].enabled \/ s.int[k].in_lr
    BY <1>1 DEF vgic_add_lr
<1>2. CASE free # {}
    <2>1. Lowest1(free) \in Lrs
        BY <1>2, LowestIn DEF Elrsr
    <2> HIDE DEF free
    <2>2. Sane(vgic_write_lr(s, c, k, Lowest1(free)))
        BY <2>1, WriteLr
    <2> QED
        BY <1>1, <1>2, <2>2 DEF vgic_add_lr, free
<1>3. CASE free = {} /\ vic # 0
    <2>1. vic \in Lrs /\ s.lr[c][vic].state # {}
        BY <1>3, VictimIn
    <2> HIDE DEF vic
    <2>2. Sane(vgic_spill_lr(s, c, vic))
        BY <2>1, SpillLr
    <2>3. Sane(vgic_write_lr(vgic_spill_lr(s, c, vic), c, k, vic))
        BY <2>1, <2>2, WriteLr
    <2> QED
        BY <1>1, <1>3, <2>3 DEF vgic_add_lr, vic
<1>4. CASE free = {} /\ vic = 0
    <2>1. Sane(vgic_add_spilled(s, c, k))
        BY AddSpilled
    <2> QED
        BY <1>1, <1>4, <2>1 DEF vgic_add_lr
<1> QED
    BY <1>2, <1>3, <1>4

\* The writes of the guest, and the one that an injection makes.
SomeWrite(w) ==
    /\ w[1] \in Registers
    /\ w[1] = "IPRIORITYR" => w[3] \in Prios
    /\ w[1] \in {"ITARGETSR", "IROUTER"} => w[3] \subseteq Cpus

\* The writes of a guest, and the one an injection makes, have values of their
\* registers.
LEMMA WritesAre ==
    /\ \A w \in Writes : SomeWrite(w)
    /\ \A i \in Ids : SomeWrite(<<"ISPENDR", i, 1>>)
BY VgicAssumption DEF SomeWrite, Registers

\* A register write changes a field of the interrupt, and neither its owner nor
\* whether it is in a list register.
LEMMA FieldsUpdated ==
    ASSUME NEW s, Sane(s), NEW c \in Cpus, NEW k \in Keys, NEW w, SomeWrite(w)
    PROVE  /\ UpdateField(s, c, k, w[1], w[3]) \in IntTypes
           /\ UpdateField(s, c, k, w[1], w[3]).in_lr = s.int[k].in_lr
           /\ UpdateField(s, c, k, w[1], w[3]).owner = s.int[k].owner
<1> DEFINE r == s.int[k]
           val == w[3]
           f == UpdateField(s, c, k, w[1], w[3])
           More(P) == [r EXCEPT !.state = @ \cup {P}]
           Less(P) == [r EXCEPT !.state = @ \ {P}]
<1>0. r \in IntTypes
    BY DEF Sane, Vgics
<1> HIDE DEF r
<1>1. \A P \in {"P", "A"} :
         /\ More(P) \in IntTypes /\ More(P).in_lr = r.in_lr /\ More(P).owner = r.owner
         /\ Less(P) \in IntTypes /\ Less(P).in_lr = r.in_lr /\ Less(P).owner = r.owner
    BY <1>0 DEF IntTypes, States
<1>2. CASE w[1] \in {"ISENABLER", "ICENABLER"}
    <2>1. f \in {r, [r EXCEPT !.enabled = TRUE], [r EXCEPT !.enabled = FALSE]}
        BY <1>2 DEF UpdateField, r
    <2> QED
        BY <1>0, <2>1 DEF IntTypes, r
<1>3. CASE w[1] \in {"ISPENDR", "ICPENDR"}
    <2>1. f \in {r, More("P"), Less("P")}
        BY <1>3 DEF UpdateField, r
    <2> HIDE DEF f, More, Less
    <2> QED
        BY <1>0, <1>1, <2>1 DEF f, r
<1>4. CASE w[1] \in {"ISACTIVER", "ICACTIVER"}
    <2>1. f \in {r, More("A"), Less("A")}
        BY <1>4 DEF UpdateField, r
    <2> HIDE DEF f, More, Less
    <2> QED
        BY <1>0, <1>1, <2>1 DEF f, r
<1>5. CASE w[1] = "IPRIORITYR"
    <2>1. f = [r EXCEPT !.prio = val] /\ val \in Prios
        BY <1>5 DEF UpdateField, r, SomeWrite
    <2> QED
        BY <1>0, <2>1 DEF IntTypes, r
<1>6. CASE w[1] = "ITARGETSR"
    <2>1. f \in {r, [r EXCEPT !.tgt = val]} /\ val \subseteq Cpus
        BY <1>6 DEF UpdateField, r, SomeWrite, vgicd_set_trgt
    <2> QED
        BY <1>0, <2>1 DEF IntTypes, r
<1>7. CASE w[1] = "IROUTER"
    <2> DEFINE t == IF val = Cpus THEN {c} ELSE val
    <2>1. f \in {r, [r EXCEPT !.irm = (val = Cpus), !.tgt = t]} /\ val \subseteq Cpus
        BY <1>7 DEF UpdateField, r, SomeWrite, vgic_int_set_route
    <2>2. t \in SUBSET Cpus /\ (val = Cpus) \in BOOLEAN
        BY <2>1
    <2> HIDE DEF t
    <2> QED
        BY <1>0, <2>1, <2>2 DEF IntTypes, r
<1> QED
    BY <1>2, <1>3, <1>4, <1>5, <1>6, <1>7 DEF SomeWrite, Registers

\* The state, the enable bit and the targets of a physical interrupt may be set
\* to anything.
LEMMA PhysKept ==
    ASSUME NEW s, Sane(s), NEW k \in HwKeys
    PROVE  /\ \A st \in States : Sane(PhysSetState(s, k, st))
           /\ \A en \in BOOLEAN : Sane(gic_set_enable(s, k, en))
           /\ \A t \in SUBSET Cpus : Sane(PhysSetTarget(s, k, t))
<1>1. s.phys[k] \in PhysTypes
    BY DEF Sane, Vgics
<1>2. ASSUME NEW st \in States PROVE Sane(PhysSetState(s, k, st))
    <2> DEFINE p == [s.phys[k] EXCEPT !.state = st]
    <2>1. p \in PhysTypes
        BY <1>1 DEF PhysTypes
    <2>2. PhysSetState(s, k, st) = [s EXCEPT !.phys[k] = p]
        BY DEF PhysSetState
    <2> HIDE DEF p
    <2> QED
        BY <2>1, <2>2, SetPhys
<1>3. ASSUME NEW en \in BOOLEAN PROVE Sane(gic_set_enable(s, k, en))
    <2> DEFINE p == [s.phys[k] EXCEPT !.enabled = en]
    <2>1. p \in PhysTypes
        BY <1>1 DEF PhysTypes
    <2>2. gic_set_enable(s, k, en) = [s EXCEPT !.phys[k] = p]
        BY DEF gic_set_enable
    <2> HIDE DEF p
    <2>3. Sane([s EXCEPT !.phys[k] = p])
        BY <2>1, SetPhys
    <2> QED
        BY <2>2, <2>3
<1>4. ASSUME NEW t \in SUBSET Cpus PROVE Sane(PhysSetTarget(s, k, t))
    <2> DEFINE p == [s.phys[k] EXCEPT !.tgt = t]
    <2>1. p \in PhysTypes
        BY <1>1 DEF PhysTypes
    <2>2. PhysSetTarget(s, k, t) = [s EXCEPT !.phys[k] = p]
        BY DEF PhysSetTarget
    <2> HIDE DEF p
    <2> QED
        BY <2>1, <2>2, SetPhys
<1> QED
    BY <1>2, <1>3, <1>4

\* What a register write does to the physical interrupt.
LEMMA HwUpdated ==
    ASSUME NEW s, Sane(s), NEW k \in HwKeys, NEW reg \in Registers
    PROVE  Sane(UpdateHw(s, k, reg))
<1>0. /\ s.int[k].state \in States /\ s.int[k].enabled \in BOOLEAN /\ s.int[k].tgt \in SUBSET Cpus
      /\ {"A"} \in States
    BY DEF Sane, Vgics, IntTypes, HwKeys, States
<1>1. Sane(vgic_int_state_hw(s, k))
    BY <1>0, PhysKept DEF vgic_int_state_hw
<1>2. Sane(gic_set_enable(s, k, s.int[k].enabled)) /\ Sane(PhysSetTarget(s, k, s.int[k].tgt))
    BY <1>0, PhysKept
<1> QED
    BY <1>1, <1>2 DEF UpdateHw, Registers

-----------------------------------------------------------------------------
(* Loops. *)

\* The values a loop goes through in N steps from a.
Loops(N, S, a, step) == {f \in [0..N -> S] : f[0] = a /\ \A n \in 1..N : f[n] = step[f[n - 1]]}

\* A step that keeps a set can be repeated any number of times: the function
\* that a loop defines exists.
LEMMA LoopFunction ==
    ASSUME NEW N \in Nat, NEW S, NEW a \in S, NEW step \in [S -> S]
    PROVE  Loops(N, S, a, step) # {}
<1> DEFINE Runs(m) == Loops(m, S, a, step)
           T == {m \in Nat : Runs(m) = {}}
<1>1. SUFFICES ASSUME T # {} PROVE FALSE
    OBVIOUS
<1>2. PICK m \in T : \A y \in T : m <= y
    BY <1>1, SmallestOf
<1>3. m # 0
    <2>1. [n \in 0..0 |-> a] \in Runs(0)
        BY DEF Loops
    <2> QED
        BY <1>2, <2>1
<1>4. m - 1 \in Nat /\ m - 1 \notin T
    <2>1. m \in Nat
        OBVIOUS
    <2> HIDE DEF T
    <2> QED
        BY <1>2, <1>3, <2>1
<1>5. PICK f \in Runs(m - 1) : TRUE
    BY <1>4
<1> DEFINE h == [n \in 0..m |-> IF n = m THEN step[f[m - 1]] ELSE f[n]]
<1>6. h \in Runs(m)
    <2>1. f \in [0..(m - 1) -> S] /\ m - 1 \in 0..(m - 1)
        BY <1>4, <1>5 DEF Loops
    <2>2. step[f[m - 1]] \in S
        BY <2>1
    <2>3. \A n \in 0..m : n # m => n \in 0..(m - 1)
        BY <1>4
    <2>4. h \in [0..m -> S]
        BY <2>1, <2>2, <2>3
    <2>5. h[0] = a
        BY <1>3, <1>4, <1>5 DEF Loops
    <2>6. ASSUME NEW n \in 1..m PROVE h[n] = step[h[n - 1]]
        <3>1. CASE n = m
            BY <1>4, <3>1
        <3>2. CASE n # m
            <4>1. n \in 1..(m - 1) /\ n \in 0..m /\ n - 1 \in 0..m /\ n - 1 # m
                BY <1>4, <3>2
            <4>2. f[n] = step[f[n - 1]]
                BY <1>5, <4>1 DEF Loops
            <4> QED
                BY <3>2, <4>1, <4>2
        <3> QED
            BY <3>1, <3>2
    <2> QED
        BY <2>4, <2>5, <2>6 DEF Loops
<1> QED
    BY <1>2, <1>6

\* What every step of a loop keeps holds at each of them.
LEMMA LoopStays ==
    ASSUME NEW N \in Nat, NEW S, NEW f, f[0] \in S,
           \A n \in 1..N : f[n - 1] \in S => f[n] \in S
    PROVE  \A n \in 0..N : f[n] \in S
<1> DEFINE T == {n \in 0..N : f[n] \notin S}
<1> SUFFICES ASSUME T # {} PROVE FALSE
    OBVIOUS
<1>1. T \subseteq Nat
    OBVIOUS
<1> HIDE DEF T
<1>2. PICK m \in T : \A y \in T : m <= y
    BY <1>1, SmallestOf
<1>3. m \in 1..N /\ f[m] \notin S /\ m - 1 \in 0..N /\ m - 1 \notin T
    BY <1>1, <1>2 DEF T
<1> QED
    BY <1>3 DEF T

\* The set S is closed under one round of vgic_handle_trapped_eoir.
EoirStays(S, c) ==
    \A t \in S : Eisr(t, c) # {} =>
        LET n  == Lowest1(Eisr(t, c))
            k  == Key(c, t.lr[c][n].id)
            t1 == [t EXCEPT !.lr[c][n] = EmptyLr, !.int[k].in_lr = FALSE]
        IN (k[2] \in SGIs => vgic_add_lr(t1, c, k) \in S)
           /\ vgic_yield_ownership(t1, c, k) \in S

\* vgic_handle_trapped_eoir stays in a set that a round of it keeps: as many
\* rounds as there are list registers.
LEMMA TrappedEoirLoop ==
    ASSUME NUM_LRS \in LrCounts, NEW c \in Cpus, NEW S, NEW s \in S, EoirStays(S, c)
    PROVE  vgic_handle_trapped_eoir(s, c) \in S
<1> DEFINE Step(t) == LET n  == Lowest1(Eisr(t, c))
                          k  == Key(c, t.lr[c][n].id)
                          t1 == [t EXCEPT !.lr[c][n] = EmptyLr, !.int[k].in_lr = FALSE]
                      IN IF Eisr(t, c) = {} THEN t
                         ELSE IF k[2] \in SGIs THEN vgic_add_lr(t1, c, k)
                         ELSE vgic_yield_ownership(t1, c, k)
           Loop(f) == [n \in 0..NUM_LRS |-> IF n = 0 THEN s ELSE Step(f[n - 1])]
           f == CHOOSE f : f = Loop(f)
<1>2. ASSUME NEW t \in S PROVE Step(t) \in S
    BY DEF EoirStays
<1>3. NUM_LRS \in Nat
    BY VgicAssumption
<1> HIDE DEF Step
<1>4. PICK h \in [0..NUM_LRS -> S] : h[0] = s /\ \A n \in 1..NUM_LRS : h[n] = Step(h[n - 1])
    <2> DEFINE step == [t \in S |-> Step(t)]
    <2>1. step \in [S -> S] /\ \A t \in S : step[t] = Step(t)
        BY <1>2
    <2> HIDE DEF step
    <2>2. PICK h \in Loops(NUM_LRS, S, s, step) : TRUE
        BY <1>3, <2>1, LoopFunction
    <2>3. \A n \in 1..NUM_LRS : n - 1 \in 0..NUM_LRS
        BY <1>3
    <2> QED
        BY <2>1, <2>2, <2>3 DEF Loops
<1>5. h = Loop(h)
    <2>1. ASSUME NEW n \in 0..NUM_LRS, n # 0 PROVE h[n] = Step(h[n - 1])
        <3>1. n \in 1..NUM_LRS /\ n - 1 \in 0..NUM_LRS
            BY <1>3, <2>1
        <3> QED
            BY <1>4, <3>1
    <2> QED
        BY <1>4, <2>1
<1>6. f = Loop(f)
    BY <1>5
<1> HIDE DEF f
<1>7. \A n \in 0..NUM_LRS : f[n] \in S
    <2>1. f[0] = s /\ \A n \in 1..NUM_LRS : f[n] = Step(f[n - 1])
        BY <1>3, <1>6
    <2>2. f[0] \in S /\ \A n \in 1..NUM_LRS : f[n - 1] \in S => f[n] \in S
        BY <1>2, <2>1
    <2> QED
        BY <1>3, <2>2, LoopStays
<1>8. vgic_handle_trapped_eoir(s, c) = f[NUM_LRS]
    BY DEF vgic_handle_trapped_eoir, f, Step
<1> QED
    BY <1>3, <1>7, <1>8

\* There are finitely many interrupts.
LEMMA KeysAreFinite == Cardinality(Keys) \in Nat
<1>1. PICK b \in Nat : \A i \in Ids \cup {0} : i \in 0..b
    BY Bounds
<1>2. PICK d \in Cpus : \A c \in Cpus : c <= d
    BY CpusAre
<1>3. IsFiniteSet(0..b) /\ IsFiniteSet(-1..d)
    <2>1. 0 \in Int /\ -1 \in Int /\ b \in Int /\ d \in Int
        BY CpusAre
    <2> QED
        BY <2>1, FS_Interval
<1>4. Ids \subseteq 0..b /\ Cpus \cup {VM} \subseteq -1..d
    BY <1>1, <1>2, CpusAre DEF VM
<1>5. IsFiniteSet((Cpus \cup {VM}) \X Ids)
    <2>1. IsFiniteSet(Ids) /\ IsFiniteSet(Cpus \cup {VM})
        BY <1>3, <1>4, FS_Subset
    <2> QED
        BY <2>1, FS_Product
<1>6. Keys \subseteq (Cpus \cup {VM}) \X Ids
    BY KeysAre
<1> QED
    BY <1>5, <1>6, FS_Subset, FS_CardinalityType

\* The set S is closed under following the links of spilled interrupts.
LinksStay(s, S) == \A x \in S : x \cup ({s.int[k].next : k \in x} \ {Nil}) \in S

\* What is reached from the head of a list stays in a set that following links
\* keeps.
LEMMA SpilledLoop ==
    ASSUME NEW s, NEW l, NEW S, {s.list[l].head} \ {Nil} \in S, LinksStay(s, S)
    PROVE  Spilled(s, l) \in S
<1> DEFINE NUM == Cardinality(Keys)
           a == {s.list[l].head} \ {Nil}
           Step(x) == x \cup ({s.int[k].next : k \in x} \ {Nil})
           Loop(f) == [n \in 0..NUM |-> IF n = 0 THEN a ELSE Step(f[n - 1])]
           f == CHOOSE f : f = Loop(f)
<1>1. a \in S
    OBVIOUS
<1>2. ASSUME NEW t \in S PROVE Step(t) \in S
    BY DEF LinksStay
<1> HIDE DEF a
<1>3. NUM \in Nat
    BY KeysAreFinite
<1> HIDE DEF NUM
<1> HIDE DEF Step
<1>4. PICK h \in [0..NUM -> S] : h[0] = a /\ \A n \in 1..NUM : h[n] = Step(h[n - 1])
    <2> DEFINE step == [t \in S |-> Step(t)]
    <2>1. step \in [S -> S] /\ \A t \in S : step[t] = Step(t)
        BY <1>2
    <2> HIDE DEF step
    <2>2. PICK h \in Loops(NUM, S, a, step) : TRUE
        BY <1>1, <1>3, <2>1, LoopFunction
    <2>3. \A n \in 1..NUM : n - 1 \in 0..NUM
        BY <1>3
    <2> QED
        BY <2>1, <2>2, <2>3 DEF Loops
<1>5. h = Loop(h)
    <2>1. ASSUME NEW n \in 0..NUM, n # 0 PROVE h[n] = Step(h[n - 1])
        <3>1. n \in 1..NUM /\ n - 1 \in 0..NUM
            BY <1>3, <2>1
        <3> QED
            BY <1>4, <3>1
    <2> QED
        BY <1>4, <2>1
<1>6. f = Loop(f)
    BY <1>5
<1> HIDE DEF f
<1>7. \A n \in 0..NUM : f[n] \in S
    <2>1. f[0] = a /\ \A n \in 1..NUM : f[n] = Step(f[n - 1])
        BY <1>3, <1>6
    <2>2. f[0] \in S /\ \A n \in 1..NUM : f[n - 1] \in S => f[n] \in S
        BY <1>1, <1>2, <2>1
    <2> QED
        BY <1>3, <2>2, LoopStays
<1>8. Spilled(s, l) = f[NUM]
    BY DEF Spilled, f, NUM, a, Step
<1> QED
    BY <1>3, <1>7, <1>8

\* What is reached from the head of a list of spilled interrupts are interrupts.
LEMMA SpilledAre ==
    ASSUME NEW s, Sane(s), NEW l \in Cpus \cup {VM}
    PROVE  Spilled(s, l) \subseteq Keys
<1>1. {s.list[l].head} \ {Nil} \in SUBSET Keys
    BY DEF Sane, Vgics, ListTypes
<1>2. ASSUME NEW x \in SUBSET Keys
      PROVE  x \cup ({s.int[k].next : k \in x} \ {Nil}) \in SUBSET Keys
    <2>1. \A k \in x : s.int[k].next \in Keys \cup {Nil}
        BY DEF Sane, Vgics, IntTypes
    <2> QED
        BY <2>1
<1>3. LinksStay(s, SUBSET Keys)
    BY <1>2 DEF LinksStay
<1>4. Spilled(s, l) \in SUBSET Keys
    BY <1>1, <1>3, SpilledLoop
<1> QED
    BY <1>4

\* vgic_highest_prio_spilled is a spilled interrupt or none.
LEMMA HighestPrioSpilled ==
    ASSUME NEW s, Sane(s), NEW c \in Cpus, NEW flags
    PROVE  vgic_highest_prio_spilled(s, c, flags) \in Keys \cup {Nil}
<1> DEFINE Q == {k \in Spilled(s, c) \cup Spilled(s, VM) : vgic_get_state(s, c, k) \cap flags # {}}
           U(k) == <<s.int[k].prio, k[2]>>
           W == [k \in Q |-> U(k)]
<1>1. Q \subseteq Keys
    BY SpilledAre
<1> HIDE DEF Q
<1>2. CASE Q # {}
    <2>1. PICK b \in Nat : /\ \A p \in Prios \cup {0} : p \in 0..b
                            /\ \A i \in Ids \cup {0} : i \in 0..b
        BY Bounds
    <2>2. \A k \in Q : W[k] = U(k) /\ W[k][1] \in 0..b /\ W[k][2] \in 0..b
        <3> SUFFICES ASSUME NEW k \in Q
                     PROVE  s.int[k].prio \in 0..b /\ k[2] \in 0..b
            OBVIOUS
        <3>1. s.int[k] \in IntTypes /\ k[2] \in Ids
            BY <1>1, KeysAre DEF Sane, Vgics
        <3> QED
            BY <2>1, <3>1 DEF IntTypes
    <2> HIDE DEF W
    <2>3. PICK k \in Q : \A j \in Q : ~Below(W[k], W[j])
        BY <1>2, <2>2, OneIsAbove
    <2>4. \A j \in Q \ {k} : ~Below(U(k), U(j))
        BY <2>2, <2>3
    <2> DEFINE top == CHOOSE i \in Q : \A j \in Q \ {i} : ~Below(U(i), U(j))
    <2>5. top \in Q
        <3> HIDE DEF U
        <3> QED
            BY <2>4
    <2>6. vgic_highest_prio_spilled(s, c, flags) = top
        BY <1>2 DEF vgic_highest_prio_spilled, Q
    <2> QED
        BY <1>1, <2>5, <2>6
<1>3. CASE Q = {}
    BY <1>3 DEF vgic_highest_prio_spilled, Q
<1> QED
    BY <1>2, <1>3

\* list_rm changes links and a list only.
LEMMA ListRm ==
    ASSUME NEW s, Sane(s), NEW l \in Cpus \cup {VM}, NEW k \in Keys
    PROVE  Sane(list_rm(s, l, k))
<1> DEFINE prev == {p \in Spilled(s, l) : s.int[p].next = k}
           j  == s.int[k].next
           f  == [p \in Keys |-> IF p \in prev THEN [s.int[p] EXCEPT !.next = j] ELSE s.int[p]]
           sh == [s EXCEPT !.list[l].head = j]
           sf == [s EXCEPT !.int = f]
           s1 == IF s.list[l].head = k THEN sh ELSE sf
           s2 == [s1 EXCEPT !.list[l].tail = Nil]
<1>1. s.int \in [Keys -> IntTypes] /\ j \in Keys \cup {Nil} /\ \A p \in Keys : IntInv(s.int[p])
    BY DEF Sane, Vgics, IntTypes
<1> HIDE DEF prev, j
<1>2. Sane(sh)
    <2> DEFINE e == [s.list[l] EXCEPT !.head = j]
    <2>0. s.list \in [Cpus \cup {VM} -> ListTypes]
        BY DEF Sane, Vgics
    <2>1. e \in ListTypes
        BY <1>1, <2>0 DEF ListTypes
    <2>2. sh = [s EXCEPT !.list[l] = e]
        OBVIOUS
    <2> HIDE DEF e, sh
    <2> QED
        BY <2>1, <2>2, SetList
<1>3. Sane(sf)
    <2>1. ASSUME NEW p \in Keys PROVE f[p] \in IntTypes /\ IntInv(f[p])
        <3>1. [s.int[p] EXCEPT !.next = j] \in IntTypes /\ IntInv([s.int[p] EXCEPT !.next = j])
            BY <1>1 DEF IntTypes, IntInv
        <3>2. f[p] \in {s.int[p], [s.int[p] EXCEPT !.next = j]}
            OBVIOUS
        <3> HIDE DEF f
        <3> QED
            BY <1>1, <3>1, <3>2
    <2>2. f \in [Keys -> IntTypes]
        BY <2>1
    <2> HIDE DEF f
    <2>3. sf \in Vgics /\ sf.lr = s.lr /\ sf.curr = s.curr /\ sf.int = f
        BY <2>2 DEF Sane, Vgics
    <2> HIDE DEF sf
    <2> QED
        BY <2>1, <2>3 DEF Sane
<1>4. Sane(s1)
    BY <1>2, <1>3
<1> HIDE DEF s1
<1>5. Sane(s2)
    <2> DEFINE e == [s1.list[l] EXCEPT !.tail = Nil]
    <2>0. s1.list \in [Cpus \cup {VM} -> ListTypes]
        BY <1>4 DEF Sane, Vgics
    <2>1. e \in ListTypes
        BY <2>0 DEF ListTypes
    <2>2. s2 = [s1 EXCEPT !.list[l] = e]
        OBVIOUS
    <2> HIDE DEF e, s2
    <2> QED
        BY <1>4, <2>1, <2>2, SetList
<1>6. list_rm(s, l, k) \in {s1, s2}
    BY DEF list_rm, s1, prev, j
<1> QED
    BY <1>4, <1>5, <1>6

\* The set S is closed under one round of vgic_refill_lrs.
RefillStays(S, c) ==
    \A p \in S :
        LET k == vgic_highest_prio_spilled(p.s, c, p.flags)
            o == vgic_get_ownership(p.s, c, k)
            l == IF k[2] \in Priv THEN c ELSE VM
        IN  /\ [p EXCEPT !.done = TRUE] \in S
            /\ [p EXCEPT !.done = TRUE, !.blocked = TRUE] \in S
            /\ [p EXCEPT !.done = TRUE,
                         !.s.hcr[c] = [p.s.hcr[c] EXCEPT !.np = FALSE, !.u = FALSE]] \in S
            /\ k # Nil /\ Elrsr(p.s, c) # {} =>
                 [p EXCEPT !.s = vgic_write_lr(list_rm(o, l, k), c, k, Lowest1(Elrsr(p.s, c))),
                           !.flags = {"A", "P"}] \in S

RefillStart(s, np) ==
    [s |-> s, flags |-> IF np THEN {"P"} ELSE {"A", "P"}, done |-> FALSE, blocked |-> FALSE]

\* vgic_refill_lrs stays in a set that a round of it keeps, also when it gives
\* up waiting for an owner.
LEMMA RefillLoop ==
    ASSUME NUM_LRS \in LrCounts, NEW c \in Cpus, NEW S, NEW s0, NEW np,
           NEW s \in S, s = RefillStart(s0, np), RefillStays(S, c)
    PROVE  vgic_refill_lrs(s0, c, np) \in S
<1> DEFINE NUM == NUM_LRS + 1
           Step(p) ==
              LET k == vgic_highest_prio_spilled(p.s, c, p.flags)
                  o == vgic_get_ownership(p.s, c, k)
                  l == IF k[2] \in Priv THEN c ELSE VM
              IN IF p.done \/ Elrsr(p.s, c) = {} THEN [p EXCEPT !.done = TRUE]
                 ELSE IF k = Nil
                 THEN [p EXCEPT !.done = TRUE,
                                !.s.hcr[c] = [p.s.hcr[c] EXCEPT !.np = FALSE, !.u = FALSE]]
                 ELSE IF ~vgic_owns(o, c, k) THEN [p EXCEPT !.done = TRUE, !.blocked = TRUE]
                 ELSE [p EXCEPT !.s = vgic_write_lr(list_rm(o, l, k), c, k, Lowest1(Elrsr(p.s, c))),
                                !.flags = {"A", "P"}]
           Loop(f) == [n \in 0..NUM |-> IF n = 0 THEN s ELSE Step(f[n - 1])]
           f == CHOOSE f : f = Loop(f)
<1>1. s \in S
    OBVIOUS
<1>2. ASSUME NEW t \in S PROVE Step(t) \in S
    BY DEF RefillStays
<1>3. NUM \in Nat
    BY VgicAssumption
<1> HIDE DEF NUM
<1> HIDE DEF Step
<1>4. PICK h \in [0..NUM -> S] : h[0] = s /\ \A n \in 1..NUM : h[n] = Step(h[n - 1])
    <2> DEFINE step == [t \in S |-> Step(t)]
    <2>1. step \in [S -> S] /\ \A t \in S : step[t] = Step(t)
        BY <1>2
    <2> HIDE DEF step
    <2>2. PICK h \in Loops(NUM, S, s, step) : TRUE
        BY <1>1, <1>3, <2>1, LoopFunction
    <2>3. \A n \in 1..NUM : n - 1 \in 0..NUM
        BY <1>3
    <2> QED
        BY <2>1, <2>2, <2>3 DEF Loops
<1>5. h = Loop(h)
    <2>1. ASSUME NEW n \in 0..NUM, n # 0 PROVE h[n] = Step(h[n - 1])
        <3>1. n \in 1..NUM /\ n - 1 \in 0..NUM
            BY <1>3, <2>1
        <3> QED
            BY <1>4, <3>1
    <2> QED
        BY <1>4, <2>1
<1>6. f = Loop(f)
    BY <1>5
<1> HIDE DEF f
<1>7. \A n \in 0..NUM : f[n] \in S
    <2>1. f[0] = s /\ \A n \in 1..NUM : f[n] = Step(f[n - 1])
        BY <1>3, <1>6
    <2>2. f[0] \in S /\ \A n \in 1..NUM : f[n - 1] \in S => f[n] \in S
        BY <1>1, <1>2, <2>1
    <2> QED
        BY <1>3, <2>2, LoopStays
<1>8. vgic_refill_lrs(s0, c, np) = f[NUM]
    BY DEF vgic_refill_lrs, f, NUM, Step, RefillStart
<1> QED
    BY <1>3, <1>7, <1>8

\* vgic_eoir_highest_spilled_active: an interrupt in no list register is ended.
LEMMA EoirSpilled ==
    ASSUME NUM_LRS \in LrCounts, NEW s, Sane(s), NEW c \in Cpus
    PROVE  Sane(vgic_eoir_highest_spilled_active(s, c))
<1> DEFINE k == vgic_highest_prio_spilled(s, c, {"A"})
           s1 == vgic_get_ownership(s, c, k)
           r == [s1.int[k] EXCEPT !.state = @ \ {"A"}]
           s2 == [s1 EXCEPT !.int[k].state = @ \ {"A"}]
<1>1. CASE k = Nil
    BY <1>1 DEF vgic_eoir_highest_spilled_active
<1>2. CASE k # Nil
    <2>1. k \in Keys
        BY <1>2, HighestPrioSpilled
    <2> HIDE DEF k
    <2>2. Sane(s1)
        BY <2>1, GetOwnership
    <2> HIDE DEF s1
    <2>3. r \in IntTypes /\ IntInv(r)
        <3>1. s1.int[k] \in IntTypes
            BY <2>1, <2>2 DEF Sane, Vgics
        <3> QED
            BY <3>1 DEF IntTypes, IntInv, States
    <2>4. s2 = [s1 EXCEPT !.int[k] = r]
        OBVIOUS
    <2> HIDE DEF r
    <2>5. Sane(s2)
        BY <2>1, <2>2, <2>3, <2>4, SetInt
    <2> HIDE DEF s2
    <2>6. Sane(vgic_add_lr(s2, c, k))
        BY <2>1, <2>5, AddLr
    <2>7. vgic_int_is_hw(k) => Sane(PhysSetState(s2, k, s2.phys[k].state \ {"A"}))
        <3>1. vgic_int_is_hw(k) => k \in HwKeys /\ s2.phys[k].state \ {"A"} \in States
            BY <2>1, <2>5 DEF HwKeys, Sane, Vgics, PhysTypes, States
        <3> QED
            BY <2>5, <3>1, PhysKept
    <2> QED
        BY <2>5, <2>6, <2>7 DEF vgic_eoir_highest_spilled_active, k, s1, s2
<1> QED
    BY <1>1, <1>2

\* The set S is closed under vgic_eoir_highest_spilled_active.
EoisStay(S, c) == \A t \in S : vgic_eoir_highest_spilled_active(t, c) \in S

\* Several ends of spilled interrupts stay in a set that one of them keeps.
LEMMA EoiLoop ==
    ASSUME NEW c \in Cpus, NEW NUM \in Nat, NEW S, NEW s \in S, EoisStay(S, c)
    PROVE  LET f[n \in 0..NUM] == IF n = 0 THEN s
                                  ELSE vgic_eoir_highest_spilled_active(f[n - 1], c)
           IN  f[NUM] \in S
<1> DEFINE Step(t) == vgic_eoir_highest_spilled_active(t, c)
           Loop(f) == [n \in 0..NUM |-> IF n = 0 THEN s ELSE Step(f[n - 1])]
           f == CHOOSE f : f = Loop(f)
<1>2. ASSUME NEW t \in S PROVE Step(t) \in S
    BY DEF EoisStay
<1>3. NUM \in Nat
    OBVIOUS
<1> HIDE DEF Step
<1>4. PICK h \in [0..NUM -> S] : h[0] = s /\ \A n \in 1..NUM : h[n] = Step(h[n - 1])
    <2> DEFINE step == [t \in S |-> Step(t)]
    <2>1. step \in [S -> S] /\ \A t \in S : step[t] = Step(t)
        BY <1>2
    <2> HIDE DEF step
    <2>2. PICK h \in Loops(NUM, S, s, step) : TRUE
        BY <1>3, <2>1, LoopFunction
    <2>3. \A n \in 1..NUM : n - 1 \in 0..NUM
        BY <1>3
    <2> QED
        BY <2>1, <2>2, <2>3 DEF Loops
<1>5. h = Loop(h)
    <2>1. ASSUME NEW n \in 0..NUM, n # 0 PROVE h[n] = Step(h[n - 1])
        <3>1. n \in 1..NUM /\ n - 1 \in 0..NUM
            BY <1>3, <2>1
        <3> QED
            BY <1>4, <3>1
    <2> QED
        BY <1>4, <2>1
<1>6. f = Loop(f)
    BY <1>5
<1> HIDE DEF f
<1>7. \A n \in 0..NUM : f[n] \in S
    <2>1. f[0] = s /\ \A n \in 1..NUM : f[n] = Step(f[n - 1])
        BY <1>3, <1>6
    <2>2. f[0] \in S /\ \A n \in 1..NUM : f[n - 1] \in S => f[n] \in S
        BY <1>2, <2>1
    <2> QED
        BY <1>3, <2>2, LoopStays
<1> QED
    BY <1>7 DEF f, Step


-----------------------------------------------------------------------------
(* As long as nothing has been spilled. *)

\* The list register n of core c presents the device's interrupt k.
Holds(s, c, n, k) ==
    s.lr[c][n].hw /\ s.lr[c][n].state # {} /\ Key(c, s.lr[c][n].id) = k

\* The core may have the interrupt in a list register.
Mine(c, k) == k[2] \in Priv => k[1] = c

\* A list register is tied to a physical interrupt if a device has it.
Tied(v) == v.state # {} \/ v.eoi => (v.hw <=> v.id \in Hw \ SGIs)

\* An interrupt that is presented names its list register, and its device waits.
Named(s, c, n, k) ==
    s.int[k].owner = c /\ s.int[k].in_lr /\ s.int[k].lr = n /\ "A" \in s.phys[k].state

\* In a list register no state is kept with the interrupt; what is kept of a
\* device's interrupt, the device waits for.
Kept(s, k) ==
    /\ V2 => ~s.int[k].irm /\ (k[2] \in Priv => s.int[k].owner = k[1])
    /\ k[2] \notin SGIs /\ s.int[k].in_lr =>
          s.int[k].state = {} /\ s.int[k].owner \in Cpus /\ Mine(s.int[k].owner, k)
    /\ k \in HwKeys => /\ s.int[k].state # {} => "A" \in s.phys[k].state
                       /\ k[2] \in Priv => s.phys[k].tgt = {k[1]}

\* A pending interrupt with a target belongs to no core, and one of its targets
\* will be asked to take it.
Waits(s, k) ==
    k[2] \in SPIs /\ s.int[k].state = {"P"} /\ s.int[k].enabled /\ s.int[k].tgt # {} =>
        /\ s.int[k].owner = None
        /\ \E d \in s.int[k].tgt : \E n \in DOMAIN s.msg[d] :
              s.msg[d][n].ev = "ROUTE" /\ s.msg[d][n].id = k[2]

Quiet(s) ==
    /\ \A l \in Cpus \cup {VM} : s.list[l].head = Nil
    /\ \A c \in Cpus, n \in Lrs : Tied(s.lr[c][n])
    /\ \A k \in Keys : Kept(s, k)
    /\ \A c \in Cpus, n \in Lrs, k \in HwKeys : Holds(s, c, n, k) => Named(s, c, n, k)
    /\ \A c \in Cpus : \A n \in DOMAIN s.msg[c] :
          V2 /\ s.msg[c][n].ev = "SET_REG" => s.msg[c][n].id \in SPIs

\* What every handler finds and leaves; x is the interrupt it is routing.
Fit(s, x) ==
    /\ Sane(s)
    /\ ~s.spilt => Quiet(s) /\ \A k \in Keys \ {x} : Waits(s, k)

-----------------------------------------------------------------------------
\* What a list register presents for a device is a device's interrupt, which
\* names that list register.
LEMMA HoldsHw ==
    ASSUME NEW s, Sane(s), Quiet(s), NEW c \in Cpus, NEW n \in Lrs,
           NEW k \in Keys, Holds(s, c, n, k)
    PROVE  k \in HwKeys /\ k[2] = s.lr[c][n].id /\ Named(s, c, n, k) /\ Mine(c, k)
           /\ k[2] \notin SGIs
<1>1. s.lr[c][n].id \in Ids
    BY DEF Sane, LrInv, Holds
<1>2. k[2] = s.lr[c][n].id /\ Mine(c, k)
    BY <1>1 DEF Holds, Key, Mine
<1>3. s.lr[c][n].id \in Hw \ SGIs
    BY DEF Quiet, Tied, Holds
<1>4. k \in HwKeys
    BY <1>2, <1>3 DEF HwKeys, vgic_int_is_hw
<1> QED
    BY <1>2, <1>3, <1>4 DEF Quiet

\* Once the interrupt that was being routed is on its way, all are.
LEMMA FitNil ==
    ASSUME NEW s, NEW k, Fit(s, k), ~s.spilt /\ Quiet(s) => Waits(s, k)
    PROVE  Fit(s, Nil)
BY DEF Fit

\* An exception for one interrupt may always be made.
LEMMA FitFor ==
    ASSUME NEW s, NEW k, Fit(s, Nil)
    PROVE  Fit(s, k)
<1>1. Nil \notin Keys
    BY KeysAre, CpusAre, VgicAssumption DEF Nil, None, Ids
<1> QED
    BY <1>1 DEF Fit

\* A list register may change if what it presents then is the interrupt k.
LrFor(s, t, c, n, k) ==
    \/ t.lr[c][n] = s.lr[c][n]
    \/ Tied(t.lr[c][n]) /\ \A j \in Keys : Holds(t, c, n, j) => j = k

\* One interrupt may change with its physical one and with the list registers
\* that present it.
LEMMA QuietAt ==
    ASSUME NEW s, Sane(s), Quiet(s), NEW t, NEW k \in Keys,
           t.list = s.list, t.msg = s.msg,
           \A j \in Keys \ {k} : t.int[j] = s.int[j] /\ (j \in HwKeys => t.phys[j] = s.phys[j]),
           Kept(t, k),
           \A c \in Cpus, n \in Lrs : LrFor(s, t, c, n, k),
           \A c \in Cpus, n \in Lrs : k \in HwKeys /\ Holds(t, c, n, k) => Named(t, c, n, k)
    PROVE  Quiet(t) /\ \A j \in Keys \ {k} : Waits(s, j) => Waits(t, j)
<1>1. \A c \in Cpus, n \in Lrs : Tied(t.lr[c][n])
    BY DEF Quiet, LrFor
<1>2. \A j \in Keys : Kept(t, j)
    BY DEF Quiet, Kept
<1>3. ASSUME NEW c \in Cpus, NEW n \in Lrs, NEW j \in HwKeys, Holds(t, c, n, j), j # k
      PROVE  Named(t, c, n, j)
    <2>1. t.lr[c][n] = s.lr[c][n] /\ j \in Keys
        BY <1>3 DEF LrFor, HwKeys
    <2>2. Named(s, c, n, j)
        BY <1>3, <2>1 DEF Quiet, Holds
    <2> QED
        BY <1>3, <2>1, <2>2 DEF Named
<1>4. Quiet(t)
    BY <1>1, <1>2, <1>3 DEF Quiet
<1>5. \A j \in Keys \ {k} : Waits(s, j) => Waits(t, j)
    BY DEF Waits
<1> QED
    BY <1>4, <1>5

\* The same for what every handler keeps, but for the interrupt being routed.
LEMMA FitAt ==
    ASSUME NEW s, NEW t, Sane(t), NEW k \in Keys, Fit(s, k),
           t.spilt = s.spilt, t.list = s.list, t.msg = s.msg,
           \A j \in Keys \ {k} : t.int[j] = s.int[j] /\ (j \in HwKeys => t.phys[j] = s.phys[j]),
           ~s.spilt /\ Quiet(s) =>
               /\ Kept(t, k)
               /\ \A c \in Cpus, n \in Lrs : LrFor(s, t, c, n, k)
               /\ \A c \in Cpus, n \in Lrs : k \in HwKeys /\ Holds(t, c, n, k) => Named(t, c, n, k)
    PROVE  Fit(t, k)
<1> SUFFICES ASSUME ~s.spilt, Quiet(s), Sane(s)
             PROVE  Quiet(t) /\ \A j \in Keys \ {k} : Waits(t, j)
    BY DEF Fit
<1>1. Quiet(t) /\ \A j \in Keys \ {k} : Waits(s, j) => Waits(t, j)
    BY QuietAt
<1> QED
    BY <1>1 DEF Fit

\* Only the control of the list registers, the distributor's enable bit and the
\* current interrupts may differ.
LEMMA FitSame ==
    ASSUME NEW s, NEW x, Fit(s, x), NEW t, Sane(t), t.spilt = s.spilt, t.list = s.list,
           t.msg = s.msg, t.int = s.int, t.lr = s.lr, t.phys = s.phys
    PROVE  Fit(t, x)
BY DEF Fit, Quiet, Tied, Kept, Holds, Named, Waits

-----------------------------------------------------------------------------
\* vgic_get_ownership of the interrupt that is being routed.
LEMMA FitGet ==
    ASSUME NEW s, NEW c \in Cpus, NEW k \in Keys, Fit(s, k)
    PROVE  /\ Fit(vgic_get_ownership(s, c, k), k)
           /\ vgic_get_ownership(s, c, k).int[k].in_lr = s.int[k].in_lr
<1> DEFINE t == vgic_get_ownership(s, c, k)
           r == [s.int[k] EXCEPT !.owner = c]
<1>1. CASE s.int[k].owner # None
    BY <1>1 DEF vgic_get_ownership
<1>2. CASE s.int[k].owner = None
    <2>0. s.int[k] \in IntTypes /\ Sane(s) /\ None \notin Cpus /\ Sane(t)
        BY CpusAre, GetOwnership DEF Fit, Sane, Vgics
    <2>1. /\ t.int = [s.int EXCEPT ![k] = r] /\ t.lr = s.lr /\ t.phys = s.phys
          /\ t.msg = s.msg /\ t.list = s.list /\ t.spilt = s.spilt
        BY <1>2, <2>0 DEF vgic_get_ownership, Sane, Vgics
    <2>2. t.int[k] = r /\ \A j \in Keys \ {k} : t.int[j] = s.int[j]
        BY <2>0, <2>1 DEF Sane, Vgics
    <2>3. /\ r.state = s.int[k].state /\ r.in_lr = s.int[k].in_lr /\ r.irm = s.int[k].irm
          /\ r.owner = c
        BY <2>0 DEF IntTypes
    <2> HIDE DEF t, r
    <2>4. ASSUME Quiet(s)
          PROVE  /\ Kept(t, k)
                 /\ \A d \in Cpus, n \in Lrs : LrFor(s, t, d, n, k)
                 /\ \A d \in Cpus, n \in Lrs :
                        k \in HwKeys /\ Holds(t, d, n, k) => Named(t, d, n, k)
        <3>2. Kept(s, k)
            BY <2>4 DEF Quiet
        <3>1. ~s.int[k].in_lr \/ k[2] \in SGIs
            BY <1>2, <2>0, <3>2 DEF Kept
        <3>3. V2 /\ k[2] \in Priv => FALSE
            BY <1>2, <2>0, <3>2, KeysAre DEF Kept, VM, None
        <3>4. Kept(t, k)
            BY <2>1, <2>2, <2>3, <3>1, <3>2, <3>3 DEF Kept
        <3>5. \A d \in Cpus, n \in Lrs : LrFor(s, t, d, n, k)
            BY <2>1 DEF LrFor
        <3>6. ASSUME NEW d \in Cpus, NEW n \in Lrs, k \in HwKeys, Holds(t, d, n, k) PROVE FALSE
            <4>1. Holds(s, d, n, k)
                BY <2>1, <3>6 DEF Holds
            <4> QED
                BY <1>2, <2>0, <2>4, <3>6, <4>1 DEF Quiet, Named
        <3> QED
            BY <3>4, <3>5, <3>6
    <2>5. /\ Sane(t) /\ t.phys = s.phys /\ t.msg = s.msg /\ t.list = s.list /\ t.spilt = s.spilt
          /\ \A j \in Keys \ {k} : t.int[j] = s.int[j]
        BY <2>0, <2>1, <2>2 DEF t
    <2>6. Fit(t, k)
        BY <2>4, <2>5, FitAt
    <2> QED
        BY <2>2, <2>3, <2>6 DEF t
<1> QED
    BY <1>1, <1>2

\* Whether vgic_yield_ownership gives up, and what then.
LEMMA YieldIs ==
    ASSUME NEW s, Sane(s), NEW c \in Cpus, NEW k \in Keys, NEW t,
           t = vgic_yield_ownership(s, c, k)
    PROVE  /\ t.lr = s.lr /\ t.phys = s.phys /\ t.msg = s.msg /\ t.list = s.list
           /\ t.spilt = s.spilt
           /\ \A j \in Keys \ {k} : t.int[j] = s.int[j]
           /\ t.int[k] \in {s.int[k], [s.int[k] EXCEPT !.owner = None]}
           /\ t.int[k] # s.int[k] => ~(V2 /\ k[2] \in Priv) /\ ~s.int[k].in_lr
<1>1. CASE t = s
    BY <1>1
<1>2. CASE t # s
    <2>1. /\ t = [s EXCEPT !.int[k].owner = None]
          /\ ~(V2 /\ k[2] \in Priv) /\ ~s.int[k].in_lr
        BY <1>2 DEF vgic_yield_ownership
    <2>2. /\ t.int = [s.int EXCEPT ![k] = [s.int[k] EXCEPT !.owner = None]]
          /\ t.lr = s.lr /\ t.phys = s.phys /\ t.msg = s.msg /\ t.list = s.list
          /\ t.spilt = s.spilt
        BY <2>1 DEF Sane, Vgics
    <2> QED
        BY <2>1, <2>2 DEF Sane, Vgics
<1> QED
    BY <1>1, <1>2

\* vgic_yield_ownership of any interrupt.
LEMMA FitYield ==
    ASSUME NEW s, NEW c \in Cpus, NEW k \in Keys, NEW x, Fit(s, x)
    PROVE  Fit(vgic_yield_ownership(s, c, k), x)
<1> SUFFICES ASSUME NEW t, t = vgic_yield_ownership(s, c, k) PROVE Fit(t, x)
    OBVIOUS
<1>0. Sane(s) /\ Sane(t) /\ s.int[k] \in IntTypes
    BY YieldOwnership DEF Fit, Sane, Vgics
<1>1. /\ t.lr = s.lr /\ t.phys = s.phys /\ t.msg = s.msg /\ t.list = s.list
      /\ t.spilt = s.spilt
      /\ \A j \in Keys \ {k} : t.int[j] = s.int[j]
      /\ t.int[k] \in {s.int[k], [s.int[k] EXCEPT !.owner = None]}
      /\ t.int[k] # s.int[k] => ~(V2 /\ k[2] \in Priv) /\ ~s.int[k].in_lr
    BY <1>0, YieldIs
<1>2. /\ t.int[k].irm = s.int[k].irm /\ t.int[k].in_lr = s.int[k].in_lr
      /\ t.int[k].state = s.int[k].state /\ t.int[k].tgt = s.int[k].tgt
      /\ t.int[k].enabled = s.int[k].enabled /\ t.int[k].lr = s.int[k].lr
      /\ t.int[k].owner \in {s.int[k].owner, None}
      /\ t.int[k].owner # s.int[k].owner => ~(V2 /\ k[2] \in Priv) /\ ~s.int[k].in_lr
    BY <1>0, <1>1 DEF IntTypes
<1> SUFFICES ASSUME ~s.spilt, Quiet(s)
             PROVE  Quiet(t) /\ \A j \in Keys \ {x} : Waits(t, j)
    BY <1>0, <1>1 DEF Fit
<1>3. Kept(s, k) /\ \A d \in Cpus, n \in Lrs :
                        k \in HwKeys /\ Holds(s, d, n, k) => Named(s, d, n, k)
    BY DEF Quiet
<1>4. Kept(t, k)
    BY <1>1, <1>2, <1>3 DEF Kept
<1>5. \A d \in Cpus, n \in Lrs : LrFor(s, t, d, n, k)
    BY <1>1 DEF LrFor
<1>6. \A d \in Cpus, n \in Lrs : k \in HwKeys /\ Holds(t, d, n, k) => Named(t, d, n, k)
    BY <1>1, <1>2, <1>3 DEF Holds, Named
<1>7. Quiet(t) /\ \A j \in Keys \ {k} : Waits(s, j) => Waits(t, j)
    BY <1>0, <1>1, <1>4, <1>5, <1>6, QuietAt
<1>8. Waits(s, k) => Waits(t, k)
    BY <1>1, <1>2 DEF Waits
<1> QED
    BY <1>7, <1>8 DEF Fit

\* vgic_send_sgi_msg puts a message at the end of the queues of its targets.
LEMMA SendIs ==
    ASSUME NEW s, Sane(s), NEW T, NEW m \in Msgs, NEW t, t = vgic_send_sgi_msg(s, T, m)
    PROVE  /\ t.lr = s.lr /\ t.phys = s.phys /\ t.int = s.int /\ t.list = s.list
           /\ t.spilt = s.spilt
           /\ \A c \in Cpus :
                 /\ \A n \in DOMAIN s.msg[c] : n \in DOMAIN t.msg[c] /\ t.msg[c][n] = s.msg[c][n]
                 /\ \A n \in DOMAIN t.msg[c] \ DOMAIN s.msg[c] : t.msg[c][n] = m /\ c \in T
                 /\ c \in T => \E n \in DOMAIN t.msg[c] : t.msg[c][n] = m
<1>1. /\ t.lr = s.lr /\ t.phys = s.phys /\ t.int = s.int /\ t.list = s.list
      /\ t.spilt = s.spilt
      /\ t.msg = [c \in Cpus |-> IF c \in T THEN Append(s.msg[c], m) ELSE s.msg[c]]
    BY DEF vgic_send_sgi_msg, Sane, Vgics
<1>2. ASSUME NEW c \in Cpus
      PROVE  /\ \A n \in DOMAIN s.msg[c] : n \in DOMAIN t.msg[c] /\ t.msg[c][n] = s.msg[c][n]
             /\ \A n \in DOMAIN t.msg[c] \ DOMAIN s.msg[c] : t.msg[c][n] = m /\ c \in T
             /\ c \in T => \E n \in DOMAIN t.msg[c] : t.msg[c][n] = m
    <2>0. PICK q \in Seq(Msgs) : q = s.msg[c]
        BY DEF Sane, Vgics
    <2>1. CASE c \in T
        <3>1. t.msg[c] = Append(q, m)
            BY <1>1, <2>0, <2>1
        <3>2. /\ Len(q) \in Nat /\ DOMAIN q = 1..Len(q)
              /\ DOMAIN Append(q, m) = 1..(Len(q) + 1)
              /\ Append(q, m)[Len(q) + 1] = m
              /\ \A n \in 1..Len(q) : Append(q, m)[n] = q[n]
            OBVIOUS
        <3> QED
            BY <2>0, <2>1, <3>1, <3>2
    <2>2. CASE c \notin T
        BY <1>1, <2>2
    <2> QED
        BY <2>1, <2>2
<1> QED
    BY <1>1, <1>2

\* A message may be sent, one to write a register of a private interrupt under
\* GICv2 only if nobody gets it.
LEMMA FitSend ==
    ASSUME NEW s, NEW x, Fit(s, x), NEW T, NEW m \in Msgs,
           ~s.spilt /\ Quiet(s) /\ V2 /\ m.ev = "SET_REG" /\ (\E c \in Cpus : c \in T) =>
               m.id \in SPIs
    PROVE  Fit(vgic_send_sgi_msg(s, T, m), x)
<1> DEFINE t == vgic_send_sgi_msg(s, T, m)
<1>0. Sane(s) /\ Sane(t)
    BY SendMsg DEF Fit
<1>1. /\ t.lr = s.lr /\ t.phys = s.phys /\ t.int = s.int /\ t.list = s.list
      /\ t.spilt = s.spilt
      /\ \A c \in Cpus :
            /\ \A n \in DOMAIN s.msg[c] : n \in DOMAIN t.msg[c] /\ t.msg[c][n] = s.msg[c][n]
            /\ \A n \in DOMAIN t.msg[c] \ DOMAIN s.msg[c] : t.msg[c][n] = m /\ c \in T
    BY <1>0, SendIs
<1> HIDE DEF t
<1>2. SUFFICES ASSUME ~s.spilt, Quiet(s)
               PROVE  Quiet(t) /\ \A k \in Keys \ {x} : Waits(t, k)
    BY <1>0, <1>1 DEF Fit, t
<1>3. /\ \A l \in Cpus \cup {VM} : t.list[l].head = Nil
      /\ \A c \in Cpus, n \in Lrs : Tied(t.lr[c][n])
      /\ \A k \in Keys : Kept(t, k)
      /\ \A c \in Cpus, n \in Lrs, k \in HwKeys : Holds(t, c, n, k) => Named(t, c, n, k)
    BY <1>1, <1>2 DEF Quiet, Kept, Holds, Named
<1>4. ASSUME NEW c \in Cpus, NEW n \in DOMAIN t.msg[c], V2, t.msg[c][n].ev = "SET_REG"
      PROVE  t.msg[c][n].id \in SPIs
    <2>1. CASE n \in DOMAIN s.msg[c]
        BY <1>1, <1>2, <1>4, <2>1 DEF Quiet
    <2>2. CASE n \notin DOMAIN s.msg[c]
        BY <1>1, <1>2, <1>4, <2>2
    <2> QED
        BY <2>1, <2>2
<1>5. ASSUME NEW k \in Keys \ {x} PROVE Waits(t, k)
    <2>1. Waits(s, k) /\ s.int[k].tgt \subseteq Cpus
        BY <1>0, <1>2 DEF Fit, Sane, Vgics, IntTypes
    <2> QED
        BY <1>1, <2>1 DEF Waits
<1> QED
    BY <1>3, <1>4, <1>5 DEF Quiet

\* An interrupt that has left its list register, if it was still in one.
Removed(s, t, c, k) ==
    \/ /\ gich_get_lr(s, c, k) = 0
       /\ t.lr = s.lr /\ t.int[k].state = s.int[k].state
    \/ \E n \in Lrs :
          /\ n = gich_get_lr(s, c, k) /\ s.lr[c][n].id = k[2]
          /\ s.lr[c][n].state # {} /\ s.int[k].lr = n
          /\ t.lr = [s.lr EXCEPT ![c] = [s.lr[c] EXCEPT ![n] = EmptyLr]]
          /\ t.int[k].state = s.lr[c][n].state

\* What vgic_remove_lr changes.
LEMMA RemoveIs ==
    ASSUME NEW s, Sane(s), NEW c \in Cpus, NEW k \in Keys, NEW t, t = vgic_remove_lr(s, c, k)
    PROVE  /\ t.phys = s.phys /\ t.msg = s.msg /\ t.list = s.list /\ t.spilt = s.spilt
           /\ \A j \in Keys \ {k} : t.int[j] = s.int[j]
           /\ t.int[k].owner = s.int[k].owner /\ t.int[k].irm = s.int[k].irm
           /\ t # s => /\ s.int[k].owner = c /\ s.int[k].in_lr /\ ~t.int[k].in_lr
                       /\ Removed(s, t, c, k)
<1> DEFINE n == gich_get_lr(s, c, k)
           v == s.lr[c][n]
           r == [s.int[k] EXCEPT !.in_lr = FALSE,
                    !.state = v.state,
                    !.sgiAct = IF V2 /\ k[2] \in SGIs /\ "A" \in v.state
                               THEN v.cpuid ELSE @,
                    !.sgiPend = IF V2 /\ k[2] \in SGIs /\ v.state = {"P"}
                                THEN @ \cup {v.cpuid} ELSE @]
           h == [s.hcr[c] EXCEPT !.np = @ \/ ("P" \in v.state /\ s.int[k].enabled), !.u = TRUE]
<1>0. s.int[k] \in IntTypes /\ s.lr \in [Cpus -> [Lrs -> LrTypes]]
    BY DEF Sane, Vgics
<1>1. CASE t = s
    BY <1>1
<1>2. CASE t # s /\ n = 0
    <2>1. t = [s EXCEPT !.int[k].in_lr = FALSE] /\ s.int[k].owner = c /\ s.int[k].in_lr
        BY <1>2 DEF vgic_remove_lr, vgic_owns
    <2>2. /\ t.int = [s.int EXCEPT ![k] = [s.int[k] EXCEPT !.in_lr = FALSE]]
          /\ t.lr = s.lr /\ t.phys = s.phys /\ t.msg = s.msg /\ t.list = s.list
          /\ t.spilt = s.spilt
        BY <2>1 DEF Sane, Vgics
    <2>3. /\ t.int[k] = [s.int[k] EXCEPT !.in_lr = FALSE]
          /\ \A j \in Keys \ {k} : t.int[j] = s.int[j]
        BY <2>2 DEF Sane, Vgics
    <2>4. /\ ~t.int[k].in_lr /\ t.int[k].state = s.int[k].state
          /\ t.int[k].owner = s.int[k].owner /\ t.int[k].irm = s.int[k].irm
        BY <1>0, <2>3 DEF IntTypes
    <2> QED
        BY <1>2, <2>1, <2>2, <2>3, <2>4 DEF Removed
<1>3. CASE t # s /\ n # 0
    <2>1. /\ t = [s EXCEPT !.int[k] = r, !.lr[c][n] = EmptyLr, !.hcr[c] = h]
          /\ s.int[k].owner = c /\ s.int[k].in_lr
        BY <1>3 DEF vgic_remove_lr, vgic_owns
    <2>2. /\ n \in Lrs /\ n = s.int[k].lr /\ s.lr[c][n].id = k[2] /\ s.lr[c][n].state # {}
        BY <1>3, StateOf
    <2>3. /\ ~r.in_lr /\ r.state = v.state /\ r.owner = s.int[k].owner /\ r.irm = s.int[k].irm
        BY <1>0 DEF IntTypes
    <2> HIDE DEF r, h, n
    <2>4. /\ t.int = [s.int EXCEPT ![k] = r]
          /\ t.lr = [s.lr EXCEPT ![c] = [s.lr[c] EXCEPT ![n] = EmptyLr]]
          /\ t.phys = s.phys /\ t.msg = s.msg /\ t.list = s.list /\ t.spilt = s.spilt
        BY <2>1 DEF Sane, Vgics
    <2>5. t.int[k] = r /\ \A j \in Keys \ {k} : t.int[j] = s.int[j]
        BY <2>4 DEF Sane, Vgics
    <2> QED
        BY <2>1, <2>2, <2>3, <2>4, <2>5 DEF n, Removed
<1> QED
    BY <1>1, <1>2, <1>3

\* vgic_remove_lr: the state that is taken back is one the device waits for.
LEMMA FitRemove ==
    ASSUME NEW s, NEW c \in Cpus, NEW k \in Keys, Fit(s, k)
    PROVE  Fit(vgic_remove_lr(s, c, k), k)
<1> SUFFICES ASSUME NEW t, t = vgic_remove_lr(s, c, k) PROVE Fit(t, k)
    OBVIOUS
<1>0. Sane(s) /\ Sane(t) /\ s.lr \in [Cpus -> [Lrs -> LrTypes]]
    BY RemoveLr DEF Fit, Sane, Vgics
<1>1. /\ t.phys = s.phys /\ t.msg = s.msg /\ t.list = s.list /\ t.spilt = s.spilt
      /\ \A j \in Keys \ {k} : t.int[j] = s.int[j]
      /\ t.int[k].owner = s.int[k].owner /\ t.int[k].irm = s.int[k].irm
    BY <1>0, RemoveIs
<1>2. t # s => /\ s.int[k].owner = c /\ s.int[k].in_lr /\ ~t.int[k].in_lr
               /\ Removed(s, t, c, k)
    BY <1>0, RemoveIs
<1>3. CASE t = s
    BY <1>3
<1>4. CASE t # s
    <2>0. s.int[k].owner = c /\ s.int[k].in_lr /\ ~t.int[k].in_lr
        BY <1>2, <1>4
    <2>1. ASSUME Quiet(s)
          PROVE  /\ Kept(t, k)
                 /\ \A d \in Cpus, n \in Lrs : LrFor(s, t, d, n, k)
                 /\ \A d \in Cpus, n \in Lrs :
                        k \in HwKeys /\ Holds(t, d, n, k) => Named(t, d, n, k)
        <3>0. Kept(s, k) /\ \A d \in Cpus, n \in Lrs :
                                k \in HwKeys /\ Holds(s, d, n, k) => Named(s, d, n, k)
            BY <2>1 DEF Quiet
        <3>1. ASSUME NEW d \in Cpus, NEW n \in Lrs, k \in HwKeys, Holds(s, d, n, k)
              PROVE  d = c /\ n = gich_get_lr(s, c, k)
            <4>1. d = c /\ s.int[k].lr = n
                BY <2>0, <3>0, <3>1 DEF Named
            <4>2. s.lr[c][n].id = k[2] /\ s.lr[c][n].state # {}
                BY <1>0, <2>1, <3>1, <4>1, HoldsHw DEF Holds
            <4> QED
                BY <2>0, <4>1, <4>2 DEF gich_get_lr
        <3>2. CASE /\ gich_get_lr(s, c, k) = 0
                   /\ t.lr = s.lr /\ t.int[k].state = s.int[k].state
            <4>1. Kept(t, k)
                BY <1>1, <2>0, <3>0, <3>2 DEF Kept
            <4>2. ASSUME NEW d \in Cpus, NEW n \in Lrs, k \in HwKeys, Holds(t, d, n, k)
                  PROVE  FALSE
                <5>1. Holds(s, d, n, k)
                    BY <3>2, <4>2 DEF Holds
                <5> QED
                    BY <3>1, <3>2, <4>2, <5>1 DEF Lrs
            <4> QED
                BY <3>2, <4>1, <4>2 DEF LrFor
        <3>3. ASSUME NEW n \in Lrs,
                     n = gich_get_lr(s, c, k), s.lr[c][n].id = k[2],
                     s.lr[c][n].state # {}, s.int[k].lr = n,
                     t.lr = [s.lr EXCEPT ![c] = [s.lr[c] EXCEPT ![n] = EmptyLr]],
                     t.int[k].state = s.lr[c][n].state
              PROVE  /\ Kept(t, k)
                     /\ \A d \in Cpus, m \in Lrs : LrFor(s, t, d, m, k)
                     /\ \A d \in Cpus, m \in Lrs :
                            k \in HwKeys /\ Holds(t, d, m, k) => Named(t, d, m, k)
            <4>1. /\ t.lr[c][n] = EmptyLr
                  /\ \A d \in Cpus, m \in Lrs : ~(d = c /\ m = n) => t.lr[d][m] = s.lr[d][m]
                BY <1>0, <3>3
            <4>2. k \in HwKeys => "A" \in s.phys[k].state
                <5> SUFFICES ASSUME k \in HwKeys PROVE "A" \in s.phys[k].state
                    OBVIOUS
                <5>1. k[2] \notin SGIs /\ k[2] \in Hw
                    BY DEF HwKeys, vgic_int_is_hw
                <5>2. Mine(c, k)
                    BY <2>0, <3>0, <5>1 DEF Kept
                <5>3. Key(c, k[2]) = k
                    BY <5>2, KeysAre DEF Key, Mine
                <5>4. Tied(s.lr[c][n])
                    BY <2>1 DEF Quiet
                <5>5. Holds(s, c, n, k)
                    BY <3>3, <5>1, <5>3, <5>4 DEF Holds, Tied
                <5> QED
                    BY <3>0, <5>5 DEF Named
            <4>3. Kept(t, k)
                BY <1>1, <2>0, <3>0, <4>2 DEF Kept
            <4>4. EmptyLr.state = {} /\ ~EmptyLr.eoi
                BY DEF EmptyLr
            <4>5. ASSUME NEW d \in Cpus, NEW m \in Lrs PROVE LrFor(s, t, d, m, k)
                BY <4>1, <4>4 DEF LrFor, Tied, Holds
            <4>6. ASSUME NEW d \in Cpus, NEW m \in Lrs, k \in HwKeys, Holds(t, d, m, k)
                  PROVE  FALSE
                <5>1. ~(d = c /\ m = n)
                    BY <4>1, <4>4, <4>6 DEF Holds
                <5>2. Holds(s, d, m, k)
                    BY <4>1, <4>6, <5>1 DEF Holds
                <5> QED
                    BY <3>1, <3>3, <4>6, <5>1, <5>2
            <4> QED
                BY <4>3, <4>5, <4>6
        <3> QED
            BY <1>2, <1>4, <3>2, <3>3 DEF Removed
    <2> QED
        BY <1>0, <1>1, <2>1, FitAt
<1> QED
    BY <1>3, <1>4

\* What vgic_write_lr does to the interrupt the list register had before changes
\* neither the new one nor a list register.
LEMMA ForgetIs ==
    ASSUME NEW s, Sane(s), NEW c \in Cpus, NEW k \in Keys, NEW n \in Lrs,
           NEW f, f = ForgetPrevious(s, c, k, n)
    PROVE  f.int[k] = s.int[k] /\ f.lr = s.lr /\ f.phys = s.phys /\ f.spilt = s.spilt
<1>1. CASE f = s
    BY <1>1
<1>2. CASE f # s
    <2>1. PICK p \in Keys \ {k} : p = Key(c, s.curr[c][n])
        BY <1>2, KeyType DEF ForgetPrevious, Ids
    <2>2. PICK u : u = [s EXCEPT !.int[p].in_lr = FALSE]
        OBVIOUS
    <2>3. f = vgic_yield_ownership(u, c, p) /\ s.int[p].in_lr
        BY <1>2, <2>1, <2>2 DEF ForgetPrevious
    <2> DEFINE r == [s.int[p] EXCEPT !.in_lr = FALSE]
    <2>4. u = [s EXCEPT !.int[p] = r]
        BY <2>2
    <2>5. r \in IntTypes /\ IntInv(r)
        <3>1. s.int[p] \in IntTypes /\ IntInv(s.int[p])
            BY DEF Sane, Vgics
        <3> QED
            BY <2>3, <3>1 DEF IntTypes, IntInv
    <2>6. Sane(u)
        BY <2>4, <2>5, SetInt
    <2> HIDE DEF r
    <2>7. u.int = [s.int EXCEPT ![p] = r] /\ u.lr = s.lr /\ u.phys = s.phys /\ u.spilt = s.spilt
        BY <2>4 DEF Sane, Vgics
    <2>8. f.lr = u.lr /\ f.phys = u.phys /\ f.spilt = u.spilt
          /\ \A j \in Keys \ {p} : f.int[j] = u.int[j]
        BY <2>1, <2>3, <2>6, YieldIs
    <2>9. u.int[k] = s.int[k]
        BY <2>1, <2>7 DEF Sane, Vgics
    <2> QED
        BY <2>1, <2>7, <2>8, <2>9
<1> QED
    BY <1>1, <1>2

\* The previous interrupt of a list register no longer in use.
LEMMA FitForget ==
    ASSUME NEW s, NEW x, NEW c \in Cpus, NEW k \in Keys, NEW n \in Lrs, Fit(s, x),
           ~s.spilt /\ Quiet(s) => s.lr[c][n].state = {}
    PROVE  Fit(ForgetPrevious(s, c, k, n), x)
<1>1. CASE ForgetPrevious(s, c, k, n) = s
    BY <1>1
<1>2. CASE ForgetPrevious(s, c, k, n) # s
    <2>2. PICK p \in Keys \ {k} : p = Key(c, s.curr[c][n]) /\ p[2] \in SPIs
        BY <1>2, KeyType DEF ForgetPrevious, Ids
    <2> DEFINE u == [s EXCEPT !.int[p].in_lr = FALSE]
    <2>1. /\ ForgetPrevious(s, c, k, n) = vgic_yield_ownership(u, c, p)
          /\ s.int[p].owner = c /\ s.int[p].in_lr /\ s.int[p].lr = n
        BY <1>2, <2>2 DEF ForgetPrevious, vgic_owns
    <2>3. /\ Sane(s) /\ s.int[p] \in IntTypes /\ IntInv(s.int[p])
          /\ s.int \in [Keys -> IntTypes]
        BY <2>2 DEF Fit, Sane, Vgics
    <2> DEFINE r == [s.int[p] EXCEPT !.in_lr = FALSE]
    <2>4. /\ r \in IntTypes /\ ~r.in_lr /\ r.owner = s.int[p].owner /\ r.state = s.int[p].state
          /\ r.irm = s.int[p].irm /\ IntInv(r)
        BY <2>1, <2>3 DEF IntTypes, IntInv
    <2>5. /\ u = [s EXCEPT !.int[p] = r]
          /\ u.int = [s.int EXCEPT ![p] = r] /\ u.lr = s.lr /\ u.phys = s.phys
          /\ u.msg = s.msg /\ u.list = s.list /\ u.spilt = s.spilt
        BY <2>3 DEF Sane, Vgics
    <2>6. Sane(u)
        BY <2>2, <2>3, <2>4, <2>5, SetInt
    <2> HIDE DEF u, r
    <2>7. u.int[p] = r /\ \A j \in Keys \ {p} : u.int[j] = s.int[j]
        BY <2>2, <2>3, <2>5
    <2>8. ASSUME ~s.spilt, Quiet(s)
          PROVE  Quiet(u) /\ \A j \in Keys \ {x} : Waits(u, j)
        <3>1. Kept(s, p) /\ \A d \in Cpus, m \in Lrs :
                                p \in HwKeys /\ Holds(s, d, m, p) => Named(s, d, m, p)
            BY <2>2, <2>8 DEF Quiet
        <3>2. p[2] \notin SGIs
            <4>1. \A i, j \in Nat : i < j => i # j
                OBVIOUS
            <4> QED
                BY <2>2, <4>1, VgicAssumption
        <3>3. s.int[p].state = {}
            BY <2>1, <3>1, <3>2 DEF Kept
        <3>4. Kept(u, p)
            BY <2>4, <2>5, <2>7, <3>1 DEF Kept
        <3>5. ASSUME NEW d \in Cpus, NEW m \in Lrs, p \in HwKeys, Holds(u, d, m, p)
              PROVE  FALSE
            <4>1. Holds(s, d, m, p)
                BY <2>5, <3>5 DEF Holds
            <4>2. d = c /\ m = n
                BY <2>1, <3>1, <3>5, <4>1 DEF Named
            <4> QED
                BY <2>8, <4>1, <4>2 DEF Holds
        <3>6. \A d \in Cpus, m \in Lrs : LrFor(s, u, d, m, p)
            BY <2>5 DEF LrFor
        <3>7. Quiet(u) /\ \A j \in Keys \ {p} : Waits(s, j) => Waits(u, j)
            <4>1. /\ p \in Keys /\ Sane(s) /\ Quiet(s) /\ u.list = s.list /\ u.msg = s.msg
                  /\ \A j \in Keys \ {p} : u.int[j] = s.int[j] /\ u.phys[j] = s.phys[j]
                BY <2>2, <2>3, <2>5, <2>7, <2>8
            <4> QED
                BY <3>4, <3>5, <3>6, <4>1, QuietAt
        <3>8. Waits(u, p)
            BY <2>4, <2>7, <3>3 DEF Waits
        <3> QED
            BY <2>8, <3>7, <3>8 DEF Fit
    <2>9. Fit(u, x)
        BY <2>5, <2>6, <2>8 DEF Fit
    <2>10. Fit(vgic_yield_ownership(u, c, p), x)
        BY <2>2, <2>9, FitYield
    <2> QED
        BY <2>1, <2>10
<1> QED
    BY <1>1, <1>2

\* What the end of vgic_write_lr changes.
LEMMA PlaceIs ==
    ASSUME NEW s, s \in Vgics, NEW c \in Cpus, NEW k \in Keys, NEW n \in Lrs, NEW v,
           NEW t, t = Place(s, c, k, n, v)
    PROVE  /\ t.phys = s.phys /\ t.msg = s.msg /\ t.list = s.list /\ t.spilt = s.spilt
           /\ \A j \in Keys \ {k} : t.int[j] = s.int[j]
           /\ t.int[k].owner = s.int[k].owner /\ t.int[k].irm = s.int[k].irm
           /\ t.int[k].state = {} /\ t.int[k].in_lr /\ t.int[k].lr = n
           /\ t.lr[c][n] = v
           /\ \A d \in Cpus, m \in Lrs : ~(d = c /\ m = n) => t.lr[d][m] = s.lr[d][m]
<1> DEFINE r == [s.int[k] EXCEPT !.state = {}, !.in_lr = TRUE, !.lr = n]
<1>0. s.int[k] \in IntTypes
    BY DEF Vgics
<1>1. /\ r.owner = s.int[k].owner /\ r.irm = s.int[k].irm
      /\ r.state = {} /\ r.in_lr /\ r.lr = n
    BY <1>0 DEF IntTypes
<1>2. t = [s EXCEPT !.lr[c][n] = v, !.curr[c][n] = k[2], !.int[k] = r]
    BY DEF Place
<1> HIDE DEF r
<1>3. /\ t.int = [s.int EXCEPT ![k] = r]
      /\ t.lr = [s.lr EXCEPT ![c] = [s.lr[c] EXCEPT ![n] = v]]
      /\ t.phys = s.phys /\ t.msg = s.msg /\ t.list = s.list /\ t.spilt = s.spilt
    BY <1>2 DEF Vgics
<1>4. t.int[k] = r /\ \A j \in Keys \ {k} : t.int[j] = s.int[j]
    <2>1. s.int \in [Keys -> IntTypes]
        BY DEF Vgics
    <2> QED
        BY <1>3, <2>1
<1>5. /\ t.lr[c][n] = v
      /\ \A d \in Cpus, m \in Lrs : ~(d = c /\ m = n) => t.lr[d][m] = s.lr[d][m]
    <2>1. s.lr \in [Cpus -> [Lrs -> LrTypes]]
        BY DEF Vgics
    <2> QED
        BY <1>3, <2>1
<1> QED
    BY <1>1, <1>3, <1>4, <1>5

\* vgic_write_lr of an interrupt in no list register, of this core, to a list
\* register not in use.
LEMMA FitWrite ==
    ASSUME NEW s0, NEW c \in Cpus, NEW k \in Keys, NEW n \in Lrs, Fit(s0, k),
           ~s0.spilt /\ Quiet(s0) =>
               /\ s0.lr[c][n].state = {}
               /\ Mine(c, k) /\ ~s0.int[k].in_lr
               /\ k[2] \notin SGIs => s0.int[k].owner = c
    PROVE  Fit(vgic_write_lr(s0, c, k, n), Nil)
<1>1. PICK s : s = ForgetPrevious(s0, c, k, n)
    OBVIOUS
<1>2. /\ Fit(s, k) /\ s.int[k] = s0.int[k] /\ s.lr = s0.lr /\ s.phys = s0.phys
      /\ s.spilt = s0.spilt
    <2>1. ~s0.spilt /\ Quiet(s0) => s0.lr[c][n].state = {}
        OBVIOUS
    <2> QED
        <3>1. Sane(s0)
            BY DEF Fit
        <3>2. s.int[k] = s0.int[k] /\ s.lr = s0.lr /\ s.phys = s0.phys /\ s.spilt = s0.spilt
            BY <1>1, <3>1, ForgetIs
        <3>3. Fit(s, k)
            BY <1>1, <2>1, FitForget
        <3> QED
            BY <3>2, <3>3
<1>3. PICK t : t = vgic_write_lr(s0, c, k, n)
    OBVIOUS
<1>4. \E v, rest : /\ t = Place([s EXCEPT !.int[k].sgiPend = rest], c, k, n, v)
                   /\ rest \subseteq s.int[k].sgiPend /\ v.id = k[2] /\ (v.hw <=> vgic_int_is_hw(k))
                   /\ v.hw /\ v.state # {} => vgic_get_state(s, c, k) # {}
    <2> DEFINE bits == vgic_get_state(s, c, k)
               pend == s.int[k].sgiPend
               src == IF pend = {} THEN None ELSE CHOOSE x \in pend : \A y \in pend : y <= x
               sgi == V2 /\ k[2] \in SGIs
               rest == IF sgi /\ "A" \notin bits THEN pend \ {src} ELSE pend
               v == [id    |-> k[2],
                     prio  |-> s.int[k].prio,
                     hw    |-> vgic_int_is_hw(k),
                     state |-> LrState(k, bits, src),
                     cpuid |-> IF ~sgi THEN None
                               ELSE IF "A" \in bits THEN s.int[k].sgiAct ELSE src,
                     eoi   |-> IF sgi THEN rest # {} ELSE ~vgic_int_is_hw(k) /\ k[2] \in SPIs]
    <2>1. t = Place([s EXCEPT !.int[k].sgiPend = rest], c, k, n, v)
        BY <1>1, <1>3 DEF vgic_write_lr
    <2> HIDE DEF bits, src
    <2>0. rest \subseteq s.int[k].sgiPend
        OBVIOUS
    <2> HIDE DEF rest
    <2>2. v.id = k[2] /\ (v.hw <=> vgic_int_is_hw(k)) /\ v.state = LrState(k, bits, src)
        OBVIOUS
    <2>3. v.hw /\ v.state # {} => bits # {}
        BY <2>2 DEF LrState
    <2> HIDE DEF v
    <2>4. v.hw /\ v.state # {} => vgic_get_state(s, c, k) # {}
        BY <2>3 DEF bits
    <2> WITNESS v, rest
    <2> QED
        BY <2>0, <2>1, <2>2, <2>4
<1>5. PICK v, rest : /\ t = Place([s EXCEPT !.int[k].sgiPend = rest], c, k, n, v)
                     /\ rest \subseteq s.int[k].sgiPend /\ v.id = k[2]
                     /\ (v.hw <=> vgic_int_is_hw(k))
                     /\ v.hw /\ v.state # {} => vgic_get_state(s, c, k) # {}
    BY <1>4
<1>6. Sane(s0) /\ Sane(s) /\ Sane(t)
    BY <1>2, <1>3, WriteLr DEF Fit
<1>7. /\ t.phys = s.phys /\ t.msg = s.msg /\ t.list = s.list /\ t.spilt = s.spilt
      /\ \A j \in Keys \ {k} : t.int[j] = s.int[j]
      /\ t.int[k].owner = s.int[k].owner /\ t.int[k].irm = s.int[k].irm
      /\ t.int[k].state = {} /\ t.int[k].in_lr /\ t.int[k].lr = n
      /\ t.lr[c][n] = v
      /\ \A d \in Cpus, m \in Lrs : ~(d = c /\ m = n) => t.lr[d][m] = s.lr[d][m]
    <2>1. PICK u : u = [s EXCEPT !.int[k].sgiPend = rest]
        OBVIOUS
    <2> DEFINE r == [s.int[k] EXCEPT !.sgiPend = rest]
    <2>2. s.int[k] \in IntTypes /\ s \in Vgics
        BY <1>6 DEF Sane, Vgics
    <2>3. /\ r \in IntTypes /\ r.owner = s.int[k].owner /\ r.irm = s.int[k].irm
        BY <1>5, <2>2 DEF IntTypes
    <2>4. u = [s EXCEPT !.int[k] = r]
        BY <2>1
    <2> HIDE DEF r
    <2>5. /\ u.int = [s.int EXCEPT ![k] = r] /\ u \in Vgics
          /\ u.lr = s.lr /\ u.phys = s.phys /\ u.msg = s.msg /\ u.list = s.list
          /\ u.spilt = s.spilt
        BY <2>2, <2>3, <2>4 DEF Vgics
    <2>6. u.int[k] = r /\ \A j \in Keys \ {k} : u.int[j] = s.int[j]
        BY <2>2, <2>5 DEF Vgics
    <2>7. t = Place(u, c, k, n, v) /\ u \in Vgics
        BY <1>5, <2>1, <2>5
    <2>8. /\ t.phys = u.phys /\ t.msg = u.msg /\ t.list = u.list /\ t.spilt = u.spilt
          /\ \A j \in Keys \ {k} : t.int[j] = u.int[j]
          /\ t.int[k].owner = u.int[k].owner /\ t.int[k].irm = u.int[k].irm
          /\ t.int[k].state = {} /\ t.int[k].in_lr /\ t.int[k].lr = n
          /\ t.lr[c][n] = v
          /\ \A d \in Cpus, m \in Lrs : ~(d = c /\ m = n) => t.lr[d][m] = u.lr[d][m]
        BY <2>7, PlaceIs
    <2> QED
        BY <2>3, <2>5, <2>6, <2>8
<1>8. /\ t.lr[c][n] = v
      /\ \A d \in Cpus, m \in Lrs : ~(d = c /\ m = n) => t.lr[d][m] = s.lr[d][m]
    BY <1>7
<1>9. ASSUME ~s.spilt, Quiet(s)
      PROVE  /\ Kept(t, k)
             /\ \A d \in Cpus, m \in Lrs : LrFor(s, t, d, m, k)
             /\ \A d \in Cpus, m \in Lrs : k \in HwKeys /\ Holds(t, d, m, k) => Named(t, d, m, k)
    <2>1. Kept(s, k) /\ \A d \in Cpus, m \in Lrs :
                            k \in HwKeys /\ Holds(s, d, m, k) => Named(s, d, m, k)
        BY <1>9 DEF Quiet
    <2>2. /\ s.lr[c][n].state = {} /\ Mine(c, k) /\ ~s.int[k].in_lr
          /\ k[2] \notin SGIs => s.int[k].owner = c
        <3>1. ~s0.spilt /\ (Quiet(s0) \/ s0.spilt)
            BY <1>2, <1>9 DEF Fit
        <3> QED
            BY <1>2, <3>1
    <2>3. Kept(t, k)
        BY <1>7, <2>1, <2>2 DEF Kept
    <2>4. Tied(v) /\ \A j \in Keys : Holds(t, c, n, j) => j = k
        <3>1. v.hw <=> v.id \in Hw \ SGIs
            BY <1>5 DEF vgic_int_is_hw
        <3>2. Key(c, v.id) = k
            BY <1>5, <2>2, KeysAre DEF Key, Mine
        <3> QED
            BY <1>8, <3>1, <3>2 DEF Tied, Holds
    <2>5. \A d \in Cpus, m \in Lrs : LrFor(s, t, d, m, k)
        BY <1>8, <2>4 DEF LrFor
    <2>6. ASSUME NEW d \in Cpus, NEW m \in Lrs, k \in HwKeys, Holds(t, d, m, k)
          PROVE  Named(t, d, m, k)
        <3>1. CASE d = c /\ m = n
            <4>1. v.hw /\ v.state # {}
                BY <1>8, <2>6, <3>1 DEF Holds
            <4>2. s.int[k].state # {}
                <5>1. k[2] \notin SGIs
                    BY <2>6 DEF HwKeys, vgic_int_is_hw
                <5>2. gich_get_lr(s, c, k) = 0
                    BY <2>2 DEF gich_get_lr
                <5> QED
                    BY <1>5, <4>1, <5>1, <5>2 DEF vgic_get_state
            <4>3. "A" \in s.phys[k].state /\ s.int[k].owner = c
                BY <2>1, <2>2, <2>6, <4>2 DEF Kept, HwKeys, vgic_int_is_hw
            <4> QED
                BY <1>7, <3>1, <4>3 DEF Named
        <3>2. CASE ~(d = c /\ m = n)
            <4>1. Holds(s, d, m, k)
                BY <1>8, <2>6, <3>2 DEF Holds
            <4> QED
                BY <2>1, <2>2, <2>6, <4>1 DEF Named
        <3> QED
            BY <3>1, <3>2
    <2> QED
        BY <2>3, <2>5, <2>6
<1>10. Fit(t, k)
    BY <1>2, <1>6, <1>7, <1>9, FitAt
<1>11. Waits(t, k)
    BY <1>7 DEF Waits
<1> QED
    BY <1>3, <1>10, <1>11, FitNil

\* That something was spilled is remembered.
LEMMA SpillsAre ==
    ASSUME NEW s, Sane(s), NEW c \in Cpus, NEW k \in Keys
    PROVE  vgic_add_spilled(s, c, k).spilt
<1> DEFINE l == IF k[2] \in Priv THEN c ELSE VM
           t == s.list[l].tail
           s1 == [s EXCEPT !.int[k].next = Nil]
           s2 == IF t = Nil THEN s1 ELSE [s1 EXCEPT !.int[t].next = k]
<1>1. t \in Keys \cup {Nil}
    <2>1. l \in Cpus \cup {VM} /\ s.list \in [Cpus \cup {VM} -> ListTypes]
        BY DEF Sane, Vgics
    <2> QED
        BY <2>1 DEF ListTypes
<1>2. Sane(s1)
    BY SetNext
<1>3. Sane(s2)
    BY <1>1, <1>2, SetNext
<1>4. vgic_add_spilled(s, c, k) = [s2 EXCEPT !.list[l].tail = k,
                                             !.list[l].head = IF @ = Nil THEN k ELSE @,
                                             !.hcr[c].np = TRUE,
                                             !.spilt = TRUE]
    BY DEF vgic_add_spilled
<1> HIDE DEF s2, l
<1> QED
    BY <1>3, <1>4 DEF Sane, Vgics

\* vgic_add_lr of an interrupt the core owns: if there is no free list register
\* something is spilled.
LEMMA FitAdd ==
    ASSUME NUM_LRS \in LrCounts, NEW s, NEW c \in Cpus, NEW k \in Keys, Fit(s, k),
           ~s.spilt /\ Quiet(s) => Mine(c, k) /\ (k[2] \notin SGIs => s.int[k].owner = c)
    PROVE  Fit(vgic_add_lr(s, c, k), Nil)
<1> DEFINE free == Elrsr(s, c)
           vic == Victim(s, c, k)
<1>0. Sane(s) /\ Sane(vgic_add_lr(s, c, k))
    BY AddLr DEF Fit
<1>1. CASE ~s.int[k].enabled \/ s.int[k].in_lr
    <2>1. vgic_add_lr(s, c, k) = s
        BY <1>1 DEF vgic_add_lr
    <2>2. ASSUME ~s.spilt /\ Quiet(s) PROVE Waits(s, k)
        <3>1. Kept(s, k)
            BY <2>2 DEF Quiet
        <3>2. k[2] \in SPIs => k[2] \notin SGIs
            <4>1. \A i, j \in Nat : i < j => i # j
                OBVIOUS
            <4> QED
                BY <4>1, VgicAssumption
        <3> QED
            BY <1>1, <3>1, <3>2 DEF Kept, Waits
    <2>3. Fit(s, Nil)
        BY <2>2, FitNil
    <2> QED
        BY <2>1, <2>3
<1>2. CASE ~(~s.int[k].enabled \/ s.int[k].in_lr) /\ free # {}
    <2>1. Lowest1(free) \in free /\ free \subseteq Lrs
        BY <1>2, LowestIn DEF Elrsr
    <2>2. vgic_add_lr(s, c, k) = vgic_write_lr(s, c, k, Lowest1(free))
        BY <1>2 DEF vgic_add_lr
    <2>3. PICK n \in Lrs : n = Lowest1(free) /\ s.lr[c][n].state = {}
        BY <2>1 DEF Elrsr
    <2> HIDE DEF free
    <2>4. ~s.spilt /\ Quiet(s) =>
               /\ s.lr[c][n].state = {}
               /\ Mine(c, k) /\ ~s.int[k].in_lr
               /\ k[2] \notin SGIs => s.int[k].owner = c
        BY <1>2, <2>3
    <2>5. Fit(vgic_write_lr(s, c, k, n), Nil)
        BY <2>4, FitWrite
    <2> QED
        BY <2>2, <2>3, <2>5
<1>3. CASE ~(~s.int[k].enabled \/ s.int[k].in_lr) /\ free = {} /\ vic # 0
    <2>1. vic \in Lrs /\ s.lr[c][vic].state # {}
        BY <1>0, <1>3, VictimIn
    <2>2. vgic_add_lr(s, c, k) = vgic_write_lr(vgic_spill_lr(s, c, vic), c, k, vic)
        BY <1>3 DEF vgic_add_lr
    <2> HIDE DEF vic
    <2>3. PICK u : u = vgic_spill_lr(s, c, vic)
        OBVIOUS
    <2>4. Sane(u)
        BY <1>0, <2>1, <2>3, SpillLr
    <2>5. u.spilt
        <3> DEFINE j == Key(c, s.lr[c][vic].id)
        <3>1. j \in Keys
            BY <1>0, <2>1, KeyType DEF Sane, LrInv
        <3> HIDE DEF j
        <3>2. Sane(vgic_remove_lr(s, c, j))
            BY <1>0, <3>1, RemoveLr
        <3>3. PICK a : a = vgic_add_spilled(vgic_remove_lr(s, c, j), c, j)
            OBVIOUS
        <3>4. Sane(a) /\ a.spilt
            BY <3>1, <3>2, <3>3, AddSpilled, SpillsAre
        <3>5. u = vgic_yield_ownership(a, c, j)
            BY <2>3, <3>3 DEF vgic_spill_lr, j
        <3> QED
            BY <3>1, <3>4, <3>5, YieldIs
    <2>6. Fit(u, k)
        BY <2>4, <2>5 DEF Fit
    <2>7. Fit(vgic_write_lr(u, c, k, vic), Nil)
        BY <2>1, <2>5, <2>6, FitWrite
    <2> QED
        BY <2>2, <2>3, <2>7
<1>4. CASE ~(~s.int[k].enabled \/ s.int[k].in_lr) /\ free = {} /\ vic = 0
    <2>1. vgic_add_lr(s, c, k) = vgic_add_spilled(s, c, k)
        BY <1>4 DEF vgic_add_lr
    <2> QED
        BY <1>0, <2>1, SpillsAre DEF Fit
<1> QED
    BY <1>1, <1>2, <1>3, <1>4

\* A shared interrupt may be in a list register of any core.
LEMMA SpisAre ==
    ASSUME NEW k \in Keys, k[2] \in SPIs
    PROVE  k[2] \notin SGIs /\ k[2] \notin Priv /\ \A c : Mine(c, k)
<1>1. \A i, j \in Nat : i < j => i # j
    OBVIOUS
<1>2. k[2] \notin SGIs /\ k[2] \notin PPIs
    BY <1>1, VgicAssumption
<1> QED
    BY <1>2 DEF Priv, Mine

\* vgic_route: what was excepted is in a list register now, has no target, or
\* its targets are asked.
LEMMA FitRoute ==
    ASSUME NUM_LRS \in LrCounts, NEW s, NEW c \in Cpus, NEW k \in Keys, Fit(s, k),
           s.int[k].owner = c, ~s.int[k].in_lr, ~s.spilt /\ V2 => Mine(c, k)
    PROVE  Fit(vgic_route(s, c, k), Nil)
<1> DEFINE onto == vgic_int_vcpu_is_target(s, c, k)
           m == [ev |-> "ROUTE", id |-> k[2]]
<1>0. Sane(s) /\ s.int[k] \in IntTypes /\ m \in Msgs
    BY KeysAre DEF Fit, Sane, Vgics, Msgs
<1>1. PICK s1 : s1 = IF onto THEN vgic_add_lr(s, c, k) ELSE s
    OBVIOUS
<1>2. onto => Fit(s1, Nil)
    <2>1. onto /\ ~s.spilt => Mine(c, k)
        BY DEF vgic_int_vcpu_is_target, Mine
    <2> QED
        BY <1>1, <2>1, FitAdd
<1>3. ASSUME Fit(s1, Nil)
      PROVE  Fit(vgic_route(s, c, k), Nil)
    <2>1. PICK u : u = vgic_yield_ownership(s1, c, k)
        OBVIOUS
    <2>2. Fit(u, Nil)
        BY <1>3, <2>1, FitYield
    <2>3. \A T : Fit(vgic_send_sgi_msg(u, T, m), Nil)
        BY <1>0, <2>2, FitSend
    <2>4. CASE s.int[k].state = {} \/ ~s.int[k].enabled
        <3>1. vgic_route(s, c, k) = s
            BY <2>4 DEF vgic_route
        <3>2. Waits(s, k)
            BY <2>4 DEF Waits
        <3> QED
            BY <3>1, <3>2, FitNil
    <2>5. CASE ~(s.int[k].state = {} \/ ~s.int[k].enabled)
        <3>1. \/ vgic_route(s, c, k) = s1
              \/ \E T : vgic_route(s, c, k) = vgic_send_sgi_msg(u, T, m)
            BY <1>1, <2>1, <2>5 DEF vgic_route
        <3> QED
            BY <1>3, <2>3, <3>1
    <2> QED
        BY <2>4, <2>5
<1>4. CASE ~onto /\ Waits(s, k)
    BY <1>1, <1>3, <1>4, FitNil
<1>5. CASE ~onto /\ ~Waits(s, k)
    <2>1. /\ k[2] \in SPIs /\ s.int[k].state = {"P"} /\ s.int[k].enabled /\ s.int[k].tgt # {}
          /\ s1 = s
        BY <1>1, <1>5 DEF Waits
    <2>2. c \notin s.int[k].tgt /\ ~s.int[k].irm
        BY <1>5, <2>1, SpisAre DEF vgic_int_vcpu_is_target
    <2>3. PICK u : u = vgic_yield_ownership(s, c, k)
        OBVIOUS
    <2>4. PICK t : t = vgic_send_sgi_msg(u, s.int[k].tgt \ {c}, m)
        OBVIOUS
    <2>5. vgic_route(s, c, k) = t
        <3>1. s.int[k].tgt \ {c} # {} /\ s.int[k].tgt \notin {{c}, {}}
            BY <2>1, <2>2
        <3> QED
            BY <1>1, <2>1, <2>2, <2>3, <2>4, <3>1, SpisAre
            DEF vgic_route, HasOtherTargetV2, HasOtherTargetV3, PtargetMaskV3
    <2>6. Fit(u, k) /\ Sane(u)
        BY <2>3, FitYield DEF Fit
    <2>7. Fit(t, k)
        BY <1>0, <2>4, <2>6, FitSend
    <2>8. u.int[k] = [s.int[k] EXCEPT !.owner = None]
        <3>1. "A" \notin vgic_get_state(s, c, k)
            BY <2>1, SpisAre DEF vgic_get_state, gich_get_lr
        <3>2. u = [s EXCEPT !.int[k].owner = None]
            BY <2>1, <2>3, <3>1, SpisAre DEF vgic_yield_ownership, vgic_owns
        <3> QED
            BY <1>0, <3>2 DEF Sane, Vgics
    <2>9. u.int[k].owner = None /\ u.int[k].tgt = s.int[k].tgt
        BY <1>0, <2>8 DEF IntTypes
    <2>10. PICK d \in s.int[k].tgt : d \in Cpus /\ d \in s.int[k].tgt \ {c}
        BY <1>0, <2>1, <2>2 DEF IntTypes
    <2>11. t.int = u.int /\ \E n \in DOMAIN t.msg[d] : t.msg[d][n] = m
        BY <1>0, <2>4, <2>6, <2>10, SendIs
    <2>12. Waits(t, k)
        BY <2>9, <2>10, <2>11 DEF Waits
    <2> QED
        BY <2>5, <2>7, <2>12, FitNil
<1> QED
    BY <1>2, <1>3, <1>4, <1>5

\* The registers that change the state of an interrupt.
StateRegs == {"ISPENDR", "ICPENDR", "ISACTIVER", "ICACTIVER"}

\* What a register write leaves alone of an interrupt.
LEMMA FieldIs ==
    ASSUME NEW s, Sane(s), NEW c \in Cpus, NEW k \in Keys, NEW w, SomeWrite(w),
           NEW r, r = UpdateField(s, c, k, w[1], w[3])
    PROVE  /\ V2 => r.irm = s.int[k].irm
           /\ w[1] \notin StateRegs => r.state = s.int[k].state
           /\ w[1] \in {"ITARGETSR", "IROUTER"} /\ k[2] \in Priv => r = s.int[k]
<1>0. s.int[k] \in IntTypes
    BY DEF Sane, Vgics
<1>1. CASE w[1] \in {"ISENABLER", "ICENABLER", "IPRIORITYR"}
    BY <1>0, <1>1 DEF UpdateField, IntTypes
<1>2. CASE w[1] \in StateRegs
    BY <1>0, <1>2 DEF UpdateField, IntTypes, StateRegs
<1>3. CASE w[1] \in {"ITARGETSR", "IROUTER"}
    <2>1. k[2] \in SPIs => k[2] \notin Priv
        BY SpisAre
    <2> QED
        BY <1>0, <1>3, <2>1
        DEF UpdateField, IntTypes, vgicd_set_trgt, vgic_int_set_route, StateRegs
<1> QED
    BY <1>1, <1>2, <1>3 DEF SomeWrite, Registers, StateRegs

\* What a register write may do to the physical interrupt.
HwStep(s, t, k, reg) ==
    /\ t.int = s.int /\ t.lr = s.lr /\ t.msg = s.msg /\ t.list = s.list
    /\ t.spilt = s.spilt
    /\ \A j \in HwKeys \ {k} : t.phys[j] = s.phys[j]
    /\ reg \notin {"ITARGETSR", "IROUTER"} => t.phys[k].tgt = s.phys[k].tgt
    /\ reg \notin StateRegs => t.phys[k].state = s.phys[k].state
    /\ reg \in StateRegs /\ s.int[k].state # {} => "A" \in t.phys[k].state

\* What it may do to the physical interrupt: a pending one with state is made
\* active.
LEMMA HwIs ==
    ASSUME NEW s, Sane(s), NEW k \in HwKeys, NEW reg \in Registers
    PROVE  HwStep(s, UpdateHw(s, k, reg), k, reg)
<1> SUFFICES ASSUME NEW t, t = UpdateHw(s, k, reg) PROVE HwStep(s, t, k, reg)
    OBVIOUS
<1> DEFINE st == IF s.int[k].state = {"P"} THEN {"A"} ELSE s.int[k].state
           p1 == [s.phys[k] EXCEPT !.state = st]
           p2 == [s.phys[k] EXCEPT !.enabled = s.int[k].enabled]
           p3 == [s.phys[k] EXCEPT !.tgt = s.int[k].tgt]
<1>0. s.int[k].state \in States /\ s.phys[k] \in PhysTypes
    BY DEF Sane, Vgics, IntTypes, HwKeys
<1>1. s.int[k].state # {} => "A" \in st
    BY <1>0 DEF States
<1> HIDE DEF st
<1>2. CASE reg \in StateRegs
    <2>1. t = [s EXCEPT !.phys[k] = p1]
        BY <1>2 DEF UpdateHw, StateRegs, vgic_int_state_hw, PhysSetState, st
    <2>2. p1.state = st /\ p1.tgt = s.phys[k].tgt
        BY <1>0 DEF PhysTypes
    <2> HIDE DEF p1
    <2>3. /\ t.int = s.int /\ t.lr = s.lr /\ t.msg = s.msg /\ t.list = s.list
          /\ t.spilt = s.spilt
          /\ t.phys[k] = p1 /\ \A j \in HwKeys \ {k} : t.phys[j] = s.phys[j]
        BY <2>1 DEF Sane, Vgics
    <2> QED
        BY <1>1, <1>2, <2>2, <2>3 DEF HwStep, StateRegs
<1>3. CASE reg \in {"ISENABLER", "ICENABLER"}
    <2>1. t = [s EXCEPT !.phys[k] = p2]
        BY <1>3 DEF UpdateHw, gic_set_enable
    <2>2. p2.state = s.phys[k].state /\ p2.tgt = s.phys[k].tgt
        BY <1>0 DEF PhysTypes
    <2> HIDE DEF p2
    <2>3. /\ t.int = s.int /\ t.lr = s.lr /\ t.msg = s.msg /\ t.list = s.list
          /\ t.spilt = s.spilt
          /\ t.phys[k] = p2 /\ \A j \in HwKeys \ {k} : t.phys[j] = s.phys[j]
        BY <2>1 DEF Sane, Vgics
    <2> QED
        BY <1>3, <2>2, <2>3 DEF HwStep, StateRegs
<1>4. CASE reg \in {"ITARGETSR", "IROUTER"}
    <2>1. t = [s EXCEPT !.phys[k] = p3]
        BY <1>4 DEF UpdateHw, PhysSetTarget
    <2>2. p3.state = s.phys[k].state
        BY <1>0 DEF PhysTypes
    <2> HIDE DEF p3
    <2>3. /\ t.int = s.int /\ t.lr = s.lr /\ t.msg = s.msg /\ t.list = s.list
          /\ t.spilt = s.spilt
          /\ t.phys[k] = p3 /\ \A j \in HwKeys \ {k} : t.phys[j] = s.phys[j]
        BY <2>1 DEF Sane, Vgics
    <2> QED
        BY <1>4, <2>2, <2>3 DEF HwStep, StateRegs
<1>5. CASE reg = "IPRIORITYR"
    BY <1>5 DEF UpdateHw, StateRegs, HwStep
<1> QED
    BY <1>2, <1>3, <1>4, <1>5 DEF Registers, StateRegs

\* The field of an interrupt that is in no list register, and the physical GIC.
FieldSet(s, c, k, w) ==
    LET r  == UpdateField(s, c, k, w[1], w[3])
        s1 == [s EXCEPT !.int[k] = r]
    IN IF r # s.int[k] /\ vgic_int_is_hw(k) THEN UpdateHw(s1, k, w[1]) ELSE s1

\* A register write to an interrupt in no list register.
LEMMA FitField ==
    ASSUME NEW s, NEW c \in Cpus, NEW k \in Keys, Fit(s, k), NEW w, SomeWrite(w),
           s.int[k].owner = c, ~s.int[k].in_lr, NEW t, t = FieldSet(s, c, k, w)
    PROVE  Fit(t, k) /\ t.int[k].owner = c /\ ~t.int[k].in_lr /\ t.spilt = s.spilt
<1> PICK r : r = UpdateField(s, c, k, w[1], w[3])
    OBVIOUS
<1> PICK s1 : s1 = [s EXCEPT !.int[k] = r]
    OBVIOUS
<1>a. t = IF r # s.int[k] /\ vgic_int_is_hw(k) THEN UpdateHw(s1, k, w[1]) ELSE s1
    BY DEF FieldSet
<1>0. Sane(s) /\ w[1] \in Registers
    BY DEF Fit, SomeWrite
<1>1. r \in IntTypes /\ r.owner = c /\ ~r.in_lr
    BY <1>0, FieldsUpdated
<1>2. /\ V2 => r.irm = s.int[k].irm
      /\ w[1] \notin StateRegs => r.state = s.int[k].state
      /\ w[1] \in {"ITARGETSR", "IROUTER"} /\ k[2] \in Priv => r = s.int[k]
    BY <1>0, FieldIs
<1>3. Sane(s1)
    BY <1>0, <1>1, CpusAre, SetInt DEF IntInv
<1>4. /\ s1.int[k] = r /\ \A j \in Keys \ {k} : s1.int[j] = s.int[j]
      /\ s1.lr = s.lr /\ s1.phys = s.phys /\ s1.msg = s.msg /\ s1.list = s.list
      /\ s1.spilt = s.spilt
    BY <1>0 DEF Sane, Vgics
<1>5. CASE r # s.int[k] /\ k \in HwKeys
    <2>1. /\ t = UpdateHw(s1, k, w[1]) /\ Sane(t) /\ Sane(s1)
          /\ k \in HwKeys /\ w[1] \in Registers
        BY <1>a, <1>0, <1>3, <1>5, HwUpdated DEF HwKeys
    <2>2. /\ t.int = s1.int /\ t.lr = s1.lr /\ t.msg = s1.msg /\ t.list = s1.list
          /\ t.spilt = s1.spilt
          /\ \A j \in HwKeys \ {k} : t.phys[j] = s1.phys[j]
          /\ w[1] \notin {"ITARGETSR", "IROUTER"} => t.phys[k].tgt = s1.phys[k].tgt
          /\ w[1] \notin StateRegs => t.phys[k].state = s1.phys[k].state
          /\ w[1] \in StateRegs /\ s1.int[k].state # {} => "A" \in t.phys[k].state
        <3>1. HwStep(s1, t, k, w[1])
            BY <2>1, HwIs
        <3> QED
            BY <3>1 DEF HwStep
    <2>3. ASSUME Quiet(s)
          PROVE  /\ Kept(t, k)
                 /\ \A d \in Cpus, n \in Lrs : LrFor(s, t, d, n, k)
                 /\ \A d \in Cpus, n \in Lrs :
                        k \in HwKeys /\ Holds(t, d, n, k) => Named(t, d, n, k)
        <3>1. Kept(s, k) /\ \A d \in Cpus, n \in Lrs :
                                k \in HwKeys /\ Holds(s, d, n, k) => Named(s, d, n, k)
            BY <2>3 DEF Quiet
        <3>2. t.int[k].state # {} => "A" \in t.phys[k].state
            BY <1>2, <1>4, <1>5, <2>2, <3>1 DEF Kept
        <3>3. k[2] \in Priv => t.phys[k].tgt = s.phys[k].tgt
            BY <1>2, <1>4, <1>5, <2>2
        <3>4. Kept(t, k)
            BY <1>1, <1>2, <1>4, <2>2, <3>1, <3>2, <3>3 DEF Kept
        <3>5. \A d \in Cpus, n \in Lrs : LrFor(s, t, d, n, k)
            BY <1>4, <2>2 DEF LrFor
        <3>6. ASSUME NEW d \in Cpus, NEW n \in Lrs, k \in HwKeys, Holds(t, d, n, k) PROVE FALSE
            <4>1. Holds(s, d, n, k)
                BY <1>4, <2>2, <3>6 DEF Holds
            <4> QED
                BY <3>1, <3>6, <4>1 DEF Named
        <3> QED
            BY <3>4, <3>5, <3>6
    <2>4. /\ t.list = s.list /\ t.msg = s.msg /\ t.spilt = s.spilt
          /\ \A j \in Keys \ {k} : t.int[j] = s.int[j] /\ (j \in HwKeys => t.phys[j] = s.phys[j])
        BY <1>4, <2>2
    <2>5. Fit(t, k)
        BY <2>1, <2>3, <2>4, FitAt
    <2> QED
        BY <1>1, <1>4, <2>2, <2>5
<1>6. CASE ~(r # s.int[k] /\ k \in HwKeys)
    <2>1. t = s1 /\ Sane(t)
        BY <1>a, <1>3, <1>6 DEF HwKeys
    <2>2. ASSUME Quiet(s)
          PROVE  /\ Kept(t, k)
                 /\ \A d \in Cpus, n \in Lrs : LrFor(s, t, d, n, k)
                 /\ \A d \in Cpus, n \in Lrs :
                        k \in HwKeys /\ Holds(t, d, n, k) => Named(t, d, n, k)
        <3>1. Kept(s, k) /\ \A d \in Cpus, n \in Lrs :
                                k \in HwKeys /\ Holds(s, d, n, k) => Named(s, d, n, k)
            BY <2>2 DEF Quiet
        <3>2. Kept(t, k)
            BY <1>1, <1>2, <1>4, <1>6, <2>1, <3>1 DEF Kept
        <3>3. \A d \in Cpus, n \in Lrs : LrFor(s, t, d, n, k)
            BY <1>4, <2>1 DEF LrFor
        <3>4. ASSUME NEW d \in Cpus, NEW n \in Lrs, k \in HwKeys, Holds(t, d, n, k) PROVE FALSE
            <4>1. Holds(s, d, n, k)
                BY <1>4, <2>1, <3>4 DEF Holds
            <4> QED
                BY <3>1, <3>4, <4>1 DEF Named
        <3> QED
            BY <3>2, <3>3, <3>4
    <2>3. Fit(t, k)
        <3>1. /\ t.list = s.list /\ t.msg = s.msg /\ t.spilt = s.spilt
              /\ \A j \in Keys \ {k} : t.int[j] = s.int[j] /\ t.phys[j] = s.phys[j]
            BY <1>4, <2>1
        <3> QED
            BY <2>1, <2>2, <3>1, FitAt
    <2> QED
        BY <1>1, <1>4, <2>1, <2>3
<1> QED
    BY <1>5, <1>6

\* vgic_int_set_field: the interrupt is owned and in no list register when its
\* field is changed, or the write is sent to its owner.
LEMMA FitSetField ==
    ASSUME NUM_LRS \in LrCounts, NEW s0, NEW c \in Cpus, NEW k \in Keys, Fit(s0, Nil),
           NEW w, SomeWrite(w), w \in Writes \cup {<<"ISPENDR", i, 1>> : i \in Ids},
           ~s0.spilt /\ V2 => Mine(c, k)
    PROVE  Fit(vgic_int_set_field(s0, c, k, w), Nil)
<1>0. Sane(s0)
    BY DEF Fit
<1>1. CASE s0.int[k].owner \in {None, c}
    <2>1. PICK o : o = vgic_get_ownership(s0, c, k)
        OBVIOUS
    <2>2. Fit(o, k) /\ Sane(o) /\ o.int[k].owner = c
        BY <1>0, <1>1, <2>1, FitFor, FitGet, GetOwnership
    <2>5. o.spilt = s0.spilt
        BY <1>0, <2>1 DEF vgic_get_ownership, Sane, Vgics
    <2>3. PICK s : s = vgic_remove_lr(o, c, k)
        OBVIOUS
    <2>4. Fit(s, k) /\ s.int[k].owner = c /\ ~s.int[k].in_lr
        BY <2>2, <2>3, FitRemove, RemoveLr
    <2>6. s.spilt = s0.spilt
        BY <2>2, <2>3, <2>5, RemoveIs
    <2>7. PICK s2 : s2 = FieldSet(s, c, k, w)
        OBVIOUS
    <2>8. Fit(s2, k) /\ s2.int[k].owner = c /\ ~s2.int[k].in_lr /\ s2.spilt = s.spilt
        BY <2>4, <2>7, FitField
    <2>9. Fit(vgic_route(s2, c, k), Nil)
        BY <2>6, <2>8, FitRoute
    <2>10. Fit(vgic_yield_ownership(vgic_route(s2, c, k), c, k), Nil)
        BY <2>9, FitYield
    <2> QED
        BY <1>1, <2>1, <2>3, <2>7, <2>10 DEF vgic_int_set_field, FieldSet
<1>2. CASE s0.int[k].owner \notin {None, c}
    <2> DEFINE m == [ev |-> "SET_REG", id |-> k[2], w |-> w]
    <2>1. m \in Msgs
        BY KeysAre DEF Msgs
    <2>2. ~s0.spilt /\ Quiet(s0) /\ V2 => m.id \in SPIs
        <3> SUFFICES ASSUME ~s0.spilt, Quiet(s0), V2, k[2] \notin SPIs PROVE FALSE
            OBVIOUS
        <3>1. k[2] \in Priv
            BY KeysAre DEF Ids, Priv
        <3>2. Kept(s0, k)
            BY DEF Quiet
        <3> QED
            BY <1>2, <3>1, <3>2 DEF Kept, Mine
    <2> HIDE DEF m
    <2>3. Fit(vgic_send_sgi_msg(s0, {s0.int[k].owner}, m), Nil)
        BY <2>1, <2>2, FitSend
    <2> QED
        BY <1>2, <2>3 DEF vgic_int_set_field, m
<1> QED
    BY <1>1, <1>2

-----------------------------------------------------------------------------
\* A device's interrupt that is taken: no list register presents it, for until
\* then the device did not wait.
LEMMA FitHandle ==
    ASSUME NUM_LRS \in LrCounts, NEW s, NEW c \in Cpus, NEW k \in HwKeys, Fit(s, Nil),
           s.phys[k].state = {"P"}, c \in s.phys[k].tgt
    PROVE  Fit(vgic_inject_hw([s EXCEPT !.phys[k].state = {"A"}], c, k), Nil)
<1> DEFINE p == [s.phys[k] EXCEPT !.state = {"A"}]
           r == [s.int[k] EXCEPT !.owner = c, !.state = {"P"}, !.in_lr = FALSE]
<1>a. PICK u : u = [s EXCEPT !.phys[k].state = {"A"}]
    OBVIOUS
<1>b. PICK t : t = [u EXCEPT !.int[k].owner = c, !.int[k].state = {"P"}, !.int[k].in_lr = FALSE]
    OBVIOUS
<1>0. k \in Keys /\ Sane(s) /\ s.phys[k] \in PhysTypes /\ s.int[k] \in IntTypes
    BY DEF HwKeys, Fit, Sane, Vgics
<1>1. p \in PhysTypes /\ p.state = {"A"} /\ p.tgt = s.phys[k].tgt
    BY <1>0 DEF PhysTypes, States
<1>2. u = [s EXCEPT !.phys[k] = p]
    BY <1>a
<1> HIDE DEF p
<1>3. Sane(u)
    BY <1>0, <1>1, <1>2, SetPhys
<1>4. /\ u.int = s.int /\ u.lr = s.lr /\ u.msg = s.msg /\ u.list = s.list /\ u.spilt = s.spilt
      /\ u.phys[k] = p /\ \A j \in HwKeys \ {k} : u.phys[j] = s.phys[j]
    BY <1>0, <1>2 DEF Sane, Vgics
<1>5. /\ r \in IntTypes /\ IntInv(r) /\ r.owner = c /\ ~r.in_lr /\ r.irm = s.int[k].irm
      /\ r.state = {"P"}
    BY <1>0 DEF IntTypes, IntInv, States
<1>6. t = [u EXCEPT !.int[k] = r]
    <2>1. u.int = s.int /\ s.int[k] \in IntTypes
        BY <1>0, <1>4
    <2> QED
        BY <1>0, <1>b, <1>3, <2>1 DEF Sane, Vgics, IntTypes
<1> HIDE DEF r
<1>7. Sane(t)
    BY <1>0, <1>3, <1>5, <1>6, SetInt
<1>8. /\ t.int[k] = r /\ \A j \in Keys \ {k} : t.int[j] = s.int[j]
      /\ t.lr = u.lr /\ t.phys = u.phys /\ t.msg = u.msg /\ t.list = u.list
      /\ t.spilt = u.spilt
    BY <1>0, <1>3, <1>4, <1>6 DEF Sane, Vgics
<1>9. ASSUME Quiet(s)
      PROVE  /\ Kept(t, k) /\ Mine(c, k)
             /\ \A d \in Cpus, n \in Lrs : LrFor(s, t, d, n, k)
             /\ \A d \in Cpus, n \in Lrs :
                    k \in HwKeys /\ Holds(t, d, n, k) => Named(t, d, n, k)
    <2>1. Kept(s, k) /\ \A d \in Cpus, n \in Lrs :
                            k \in HwKeys /\ Holds(s, d, n, k) => Named(s, d, n, k)
        BY <1>0, <1>9 DEF Quiet
    <2>2. Mine(c, k)
        BY <2>1 DEF Kept, Mine
    <2>3. Kept(t, k)
        BY <1>1, <1>4, <1>5, <1>8, <2>1, <2>2 DEF Kept, Mine
    <2>4. \A d \in Cpus, n \in Lrs : LrFor(s, t, d, n, k)
        BY <1>4, <1>8 DEF LrFor
    <2>5. ASSUME NEW d \in Cpus, NEW n \in Lrs, Holds(t, d, n, k) PROVE FALSE
        <3>1. Holds(s, d, n, k)
            BY <1>4, <1>8, <2>5 DEF Holds
        <3> QED
            BY <2>1, <3>1 DEF Named
    <2> QED
        BY <2>2, <2>3, <2>4, <2>5
<1>10. /\ t.list = s.list /\ t.msg = s.msg /\ t.spilt = s.spilt
       /\ \A j \in Keys \ {k} : t.int[j] = s.int[j] /\ (j \in HwKeys => t.phys[j] = s.phys[j])
    BY <1>4, <1>8
<1>11. Fit(t, k)
    <2>1. Fit(s, k)
        BY FitFor
    <2> QED
        BY <1>0, <1>7, <1>9, <1>10, <2>1, FitAt
<1>12. ~t.spilt /\ Quiet(t) => Mine(c, k) /\ (k[2] \notin SGIs => t.int[k].owner = c)
    BY <1>5, <1>8, <1>9, <1>10 DEF Fit
<1>13. Fit(vgic_add_lr(t, c, k), Nil)
    BY <1>0, <1>11, <1>12, FitAdd
<1> QED
    BY <1>a, <1>b, <1>13 DEF vgic_inject_hw

\* vgic_inject_sgi: another source of the SGI is pending.
LEMMA FitInjectSgi ==
    ASSUME NUM_LRS \in LrCounts, NEW s0, NEW c \in Cpus, NEW k \in Keys, Fit(s0, Nil),
           NEW source \in Cpus, k[2] \in SGIs, Mine(c, k)
    PROVE  Fit(vgic_inject_sgi(s0, c, k, source), Nil)
<1>1. PICK s : s = vgic_remove_lr(s0, c, k)
    OBVIOUS
<1>2. Fit(s, k)
    BY <1>1, FitFor, FitRemove
<1>3. k[2] \notin SPIs /\ k \notin HwKeys
    BY SpisAre DEF HwKeys, vgic_int_is_hw
<1>4. Fit(s, Nil)
    BY <1>2, <1>3, FitNil DEF Waits
<1> DEFINE r == [s.int[k] EXCEPT !.sgiPend = @ \cup {source}, !.state = @ \cup {"P"}]
<1>5. PICK t : t = [s EXCEPT !.int[k].sgiPend = @ \cup {source}, !.int[k].state = @ \cup {"P"}]
    OBVIOUS
<1>6. Sane(s) /\ s.int[k] \in IntTypes /\ IntInv(s.int[k])
    BY <1>2 DEF Fit, Sane, Vgics
<1>7. /\ r \in IntTypes /\ IntInv(r) /\ r.irm = s.int[k].irm /\ r.owner = s.int[k].owner
    BY <1>6 DEF IntTypes, IntInv, States
<1>8. t = [s EXCEPT !.int[k] = r]
    BY <1>5, <1>6 DEF Sane, Vgics, IntTypes
<1> HIDE DEF r
<1>9. Sane(t)
    BY <1>6, <1>7, <1>8, SetInt
<1>10. /\ t.int[k] = r /\ \A j \in Keys \ {k} : t.int[j] = s.int[j]
       /\ t.lr = s.lr /\ t.phys = s.phys /\ t.msg = s.msg /\ t.list = s.list
       /\ t.spilt = s.spilt
    BY <1>6, <1>8 DEF Sane, Vgics
<1>11. ASSUME Quiet(s)
       PROVE  /\ Kept(t, k)
              /\ \A d \in Cpus, n \in Lrs : LrFor(s, t, d, n, k)
              /\ \A d \in Cpus, n \in Lrs :
                     k \in HwKeys /\ Holds(t, d, n, k) => Named(t, d, n, k)
    <2>1. Kept(s, k)
        BY <1>11 DEF Quiet
    <2>2. Kept(t, k)
        BY <1>3, <1>7, <1>10, <2>1 DEF Kept
    <2> QED
        BY <1>3, <1>10, <2>2 DEF LrFor
<1>12. /\ t.list = s.list /\ t.msg = s.msg /\ t.spilt = s.spilt
       /\ \A j \in Keys \ {k} : t.int[j] = s.int[j] /\ (j \in HwKeys => t.phys[j] = s.phys[j])
    BY <1>10
<1>13. Fit(t, k)
    BY <1>2, <1>9, <1>11, <1>12, FitAt
<1>14. Fit(vgic_add_lr(t, c, k), Nil)
    BY <1>13, FitAdd
<1> QED
    BY <1>1, <1>4, <1>5, <1>14 DEF vgic_inject_sgi

\* vgic_inject of an interrupt without a device.
LEMMA FitInject ==
    ASSUME NUM_LRS \in LrCounts, NEW s, NEW c \in Cpus, NEW i \in Ids, Fit(s, Nil),
           NEW source \in Cpus, i \notin Hw \ SGIs
    PROVE  Fit(vgic_inject(s, c, Key(c, i), source), Nil)
<1> DEFINE w == <<"ISPENDR", i, 1>>
<1>1. PICK k \in Keys : k = Key(c, i) /\ k[2] = i
    BY KeyType
<1>2. Mine(c, k)
    BY <1>1 DEF Key, Mine
<1>3. SomeWrite(w) /\ w \in Writes \cup {<<"ISPENDR", j, 1>> : j \in Ids}
    BY WritesAre
<1> HIDE DEF w
<1>4. Fit(vgic_int_set_field(s, c, k, w), Nil)
    BY <1>2, <1>3, FitSetField
<1>5. k[2] \in SGIs => Fit(vgic_inject_sgi(s, c, k, source), Nil)
    BY <1>2, FitInjectSgi
<1>6. ~vgic_int_is_hw(k)
    BY <1>1 DEF vgic_int_is_hw
<1> QED
    BY <1>1, <1>4, <1>5, <1>6 DEF vgic_inject, w

-----------------------------------------------------------------------------
(* Messages. *)

\* From s to t, core c has taken its next message and not handled it yet.
Taken(s, t, c) ==
    /\ t.int = s.int /\ t.lr = s.lr /\ t.phys = s.phys /\ t.list = s.list
    /\ t.spilt = s.spilt
    /\ Head(s.msg[c]) \in Msgs /\ \E n \in DOMAIN s.msg[c] : s.msg[c][n] = Head(s.msg[c])
    /\ \A d \in Cpus \ {c} : t.msg[d] = s.msg[d]
    /\ \A n \in DOMAIN t.msg[c] : n + 1 \in DOMAIN s.msg[c] /\ t.msg[c][n] = s.msg[c][n + 1]
    /\ \A n \in DOMAIN s.msg[c] :
          s.msg[c][n] = Head(s.msg[c]) \/ \E l \in DOMAIN t.msg[c] : t.msg[c][l] = s.msg[c][n]

\* The first message of a queue is taken from it.
LEMMA TailIs ==
    ASSUME NEW s, Sane(s), NEW c \in Cpus, s.msg[c] # <<>>
    PROVE  /\ Sane([s EXCEPT !.msg[c] = Tail(@)])
           /\ Taken(s, [s EXCEPT !.msg[c] = Tail(@)], c)
<1>t. PICK t : t = [s EXCEPT !.msg[c] = Tail(@)]
    OBVIOUS
<1>0. s.msg \in [Cpus -> Seq(Msgs)]
    BY DEF Sane, Vgics
<1>1. PICK q \in Seq(Msgs) : q = s.msg[c] /\ q # <<>>
    BY <1>0
<1>2. /\ t.int = s.int /\ t.lr = s.lr /\ t.phys = s.phys /\ t.list = s.list
      /\ t.spilt = s.spilt /\ t.curr = s.curr
      /\ t.msg = [s.msg EXCEPT ![c] = Tail(q)]
    BY <1>t, <1>0, <1>1 DEF Sane, Vgics
<1>3. Tail(q) \in Seq(Msgs) /\ Head(q) \in Msgs
    BY <1>1
<1>4. t \in Vgics
    BY <1>t, <1>0, <1>1, <1>3 DEF Sane, Vgics
<1>5. Sane(t)
    BY <1>0, <1>2, <1>4, SameInside
<1>6. t.msg[c] = Tail(q) /\ \A d \in Cpus \ {c} : t.msg[d] = s.msg[d]
    BY <1>0, <1>2
<1>7. /\ \A n \in DOMAIN Tail(q) : n + 1 \in DOMAIN q /\ Tail(q)[n] = q[n + 1]
      /\ \A n \in DOMAIN q : q[n] = Head(q) \/ \E l \in DOMAIN Tail(q) : Tail(q)[l] = q[n]
    <2>1. /\ Len(q) \in Nat \ {0} /\ DOMAIN q = 1..Len(q) /\ Head(q) = q[1]
          /\ DOMAIN Tail(q) = 1..(Len(q) - 1)
          /\ \A n \in 1..(Len(q) - 1) : Tail(q)[n] = q[n + 1]
        BY <1>1
    <2>2. ASSUME NEW n \in DOMAIN q, n # 1
          PROVE  \E l \in DOMAIN Tail(q) : Tail(q)[l] = q[n]
        <3>1. n - 1 \in DOMAIN Tail(q) /\ Tail(q)[n - 1] = q[(n - 1) + 1] /\ (n - 1) + 1 = n
            BY <2>1, <2>2
        <3> QED
            BY <3>1
    <2>3. \A n \in DOMAIN Tail(q) : n + 1 \in DOMAIN q /\ Tail(q)[n] = q[n + 1]
        BY <2>1
    <2> QED
        BY <2>1, <2>2, <2>3
<1>8. /\ \A n \in DOMAIN t.msg[c] : n + 1 \in DOMAIN s.msg[c] /\ t.msg[c][n] = s.msg[c][n + 1]
      /\ \A n \in DOMAIN s.msg[c] :
            s.msg[c][n] = Head(s.msg[c]) \/ \E l \in DOMAIN t.msg[c] : t.msg[c][l] = s.msg[c][n]
    <2>1. s.msg[c] = q /\ t.msg[c] = Tail(q)
        BY <1>1, <1>6
    <2> QED
        BY <1>7, <2>1
<1>9. Head(s.msg[c]) \in Msgs
    BY <1>1, <1>3
<1>10. \E n \in DOMAIN s.msg[c] : s.msg[c][n] = Head(s.msg[c])
    <2>1. 1 \in DOMAIN q /\ Head(q) = q[1]
        BY <1>1
    <2> QED
        BY <1>1, <2>1
<1>11. Taken(s, t, c)
    BY <1>2, <1>6, <1>8, <1>9, <1>10 DEF Taken
<1> QED
    BY <1>t, <1>5, <1>11

\* Until it is handled, only the interrupt that a ROUTE message is about may be
\* waiting for nobody.
LEMMA FitTail ==
    ASSUME NEW s, Fit(s, Nil), NEW c \in Cpus, s.msg[c] # <<>>, NEW x,
           Head(s.msg[c]).ev = "ROUTE" => x = Key(c, Head(s.msg[c]).id),
           NEW t, t = [s EXCEPT !.msg[c] = Tail(@)]
    PROVE  Fit(t, x)
<1>0. Sane(t) /\ Taken(s, t, c)
    BY TailIs DEF Fit
<1>1. /\ Sane(t)
      /\ t.int = s.int /\ t.lr = s.lr /\ t.phys = s.phys /\ t.list = s.list
      /\ t.spilt = s.spilt
      /\ \A d \in Cpus \ {c} : t.msg[d] = s.msg[d]
      /\ \A n \in DOMAIN t.msg[c] : n + 1 \in DOMAIN s.msg[c] /\ t.msg[c][n] = s.msg[c][n + 1]
      /\ \A n \in DOMAIN s.msg[c] :
            s.msg[c][n] = Head(s.msg[c]) \/ \E l \in DOMAIN t.msg[c] : t.msg[c][l] = s.msg[c][n]
    BY <1>0 DEF Taken
<1>2. SUFFICES ASSUME ~s.spilt, Quiet(s), \A k \in Keys \ {Nil} : Waits(s, k)
               PROVE  Quiet(t) /\ \A k \in Keys \ {x} : Waits(t, k)
    BY <1>1 DEF Fit
<1>3. /\ \A l \in Cpus \cup {VM} : t.list[l].head = Nil
      /\ \A d \in Cpus, n \in Lrs : Tied(t.lr[d][n])
      /\ \A k \in Keys : Kept(t, k)
      /\ \A d \in Cpus, n \in Lrs, k \in HwKeys : Holds(t, d, n, k) => Named(t, d, n, k)
    BY <1>1, <1>2 DEF Quiet, Kept, Holds, Named
<1>4. ASSUME NEW d \in Cpus, NEW n \in DOMAIN t.msg[d], V2, t.msg[d][n].ev = "SET_REG"
      PROVE  t.msg[d][n].id \in SPIs
    BY <1>1, <1>2, <1>4 DEF Quiet
<1>5. ASSUME NEW k \in Keys \ {x} PROVE Waits(t, k)
    <2> SUFFICES ASSUME k[2] \in SPIs, s.int[k].state = {"P"}, s.int[k].enabled,
                        s.int[k].tgt # {}
                 PROVE  /\ s.int[k].owner = None
                        /\ \E d \in s.int[k].tgt : \E n \in DOMAIN t.msg[d] :
                              t.msg[d][n].ev = "ROUTE" /\ t.msg[d][n].id = k[2]
        BY <1>1 DEF Waits
    <2>1. k # Nil
        BY KeysAre, CpusAre, VgicAssumption DEF Nil, None, Ids
    <2>2. Waits(s, k)
        BY <1>2, <2>1
    <2>3. PICK d \in s.int[k].tgt : \E n \in DOMAIN s.msg[d] :
                  s.msg[d][n].ev = "ROUTE" /\ s.msg[d][n].id = k[2]
        BY <2>2 DEF Waits
    <2>4. PICK n \in DOMAIN s.msg[d] : s.msg[d][n].ev = "ROUTE" /\ s.msg[d][n].id = k[2]
        BY <2>3
    <2>5. d \in Cpus
        BY <1>1, <2>3 DEF Sane, Vgics, IntTypes
    <2>6. \E l \in DOMAIN t.msg[d] : t.msg[d][l] = s.msg[d][n]
        <3>1. CASE d # c
            BY <1>1, <2>5, <3>1
        <3>2. CASE d = c
            <4>1. s.msg[c][n] # Head(s.msg[c])
                <5>1. SUFFICES ASSUME s.msg[c][n] = Head(s.msg[c]) PROVE k = x
                    OBVIOUS
                <5>2. x = Key(c, k[2])
                    BY <2>4, <3>2, <5>1
                <5> QED
                    BY <5>2, KeysAre, SpisAre DEF Key
            <4> QED
                BY <1>1, <3>2, <4>1
        <3> QED
            BY <3>1, <3>2
    <2> QED
        BY <2>2, <2>4, <2>6 DEF Waits
<1> QED
    BY <1>3, <1>4, <1>5 DEF Quiet

\* A core that is asked to take an interrupt takes it, or is not its target any
\* more, and then another one is still asked.
LEMMA FitAsked ==
    ASSUME NUM_LRS \in LrCounts, NEW s, Fit(s, Nil), NEW c \in Cpus, NEW k \in Keys,
           Mine(c, k), NEW t, Fit(t, k), Taken(s, t, c), t.int[k].owner \in {None, c},
           NEW o, o = vgic_get_ownership(t, c, k)
    PROVE  Fit(vgic_yield_ownership(IF vgic_int_vcpu_is_target(o, c, k)
                                    THEN vgic_add_lr(o, c, k) ELSE o, c, k), Nil)
<1>1. Sane(t) /\ Sane(o) /\ Fit(o, k) /\ o.int[k].owner = c
    BY FitGet, GetOwnership DEF Fit
<1>2. CASE vgic_int_vcpu_is_target(o, c, k)
    <2>1. Fit(vgic_add_lr(o, c, k), Nil)
        BY <1>1, FitAdd
    <2>2. Fit(vgic_yield_ownership(vgic_add_lr(o, c, k), c, k), Nil)
        BY <2>1, FitYield
    <2> QED
        BY <1>2, <2>2
<1>3. CASE ~vgic_int_vcpu_is_target(o, c, k)
    <2>1. PICK u : u = vgic_yield_ownership(o, c, k)
        OBVIOUS
    <2>2. Fit(u, k)
        BY <1>1, <2>1, FitYield
    <2>3. o.msg = t.msg /\ o.spilt = t.spilt /\ o.int = [t.int EXCEPT ![k] = [@ EXCEPT !.owner = c]]
        BY <1>1 DEF vgic_get_ownership, Sane, Vgics, IntTypes
    <2>4. /\ o.int[k].state = t.int[k].state /\ o.int[k].enabled = t.int[k].enabled
          /\ o.int[k].tgt = t.int[k].tgt /\ o.int[k].in_lr = t.int[k].in_lr
          /\ t.int[k].tgt \subseteq Cpus
        BY <1>1, <2>3 DEF Sane, Vgics, IntTypes
    <2>5. /\ u.msg = o.msg /\ u.spilt = o.spilt
          /\ u.int[k] \in {o.int[k], [o.int[k] EXCEPT !.owner = None]}
        BY <1>1, <2>1, YieldIs
    <2>6. /\ u.int[k].state = o.int[k].state /\ u.int[k].enabled = o.int[k].enabled
          /\ u.int[k].tgt = o.int[k].tgt
        <3>1. o.int[k] \in IntTypes
            BY <1>1 DEF Sane, Vgics
        <3> QED
            BY <2>5, <3>1 DEF IntTypes
    <2>7. ASSUME ~u.spilt, k[2] \in SPIs, u.int[k].state = {"P"}, u.int[k].enabled,
                 u.int[k].tgt # {}
          PROVE  /\ u.int[k].owner = None
                 /\ \E d \in u.int[k].tgt : \E n \in DOMAIN u.msg[d] :
                       u.msg[d][n].ev = "ROUTE" /\ u.msg[d][n].id = k[2]
        <3>1. t.int = s.int /\ t.spilt = s.spilt /\ ~s.spilt
            BY <2>3, <2>5, <2>7 DEF Taken
        <3>2. Waits(s, k) /\ k \in Keys /\ Kept(t, k)
            <4>1. k # Nil
                BY KeysAre, CpusAre, VgicAssumption DEF Nil, None, Ids
            <4> QED
                BY <3>1, <4>1 DEF Fit, Quiet
        <3>3. PICK d \in s.int[k].tgt : \E n \in DOMAIN s.msg[d] :
                      s.msg[d][n].ev = "ROUTE" /\ s.msg[d][n].id = k[2]
            BY <2>4, <2>6, <2>7, <3>1, <3>2 DEF Waits
        <3>4. c \notin o.int[k].tgt
            BY <1>3, <2>7, SpisAre DEF vgic_int_vcpu_is_target
        <3>5. d # c /\ d \in Cpus /\ d \in u.int[k].tgt
            BY <2>4, <2>6, <3>1, <3>3, <3>4
        <3>6. u.msg[d] = s.msg[d]
            BY <2>3, <2>5, <3>5 DEF Taken
        <3>7. u.int[k].owner = None
            <4>1. ~o.int[k].in_lr
                BY <2>4, <2>6, <2>7, <3>2, SpisAre DEF Kept
            <4>2. "A" \notin vgic_get_state(o, c, k)
                BY <2>6, <2>7, <4>1, SpisAre DEF vgic_get_state, gich_get_lr
            <4>3. u = [o EXCEPT !.int[k].owner = None]
                BY <1>1, <2>1, <2>7, <4>1, <4>2, SpisAre DEF vgic_yield_ownership, vgic_owns
            <4> QED
                BY <1>1, <4>3 DEF Sane, Vgics, IntTypes
        <3> QED
            BY <3>3, <3>5, <3>6, <3>7
    <2>8. Fit(u, Nil)
        BY <2>2, <2>7, FitNil DEF Waits
    <2> QED
        BY <1>3, <2>1, <2>8
<1> QED
    BY <1>2, <1>3

\* A core handles what another one has sent it.
LEMMA FitIpi ==
    ASSUME NUM_LRS \in LrCounts, NEW s, Fit(s, Nil), NEW c \in Cpus, s.msg[c] # <<>>
    PROVE  Fit(vgic_ipi_handler([s EXCEPT !.msg[c] = Tail(@)], c, Head(s.msg[c])), Nil)
<1>1. PICK t : t = [s EXCEPT !.msg[c] = Tail(@)]
    OBVIOUS
<1>2. PICK m : m = Head(s.msg[c])
    OBVIOUS
<1>3. Sane(s) /\ Sane(t) /\ Taken(s, t, c) /\ m \in Msgs
    BY <1>1, <1>2, TailIs DEF Fit, Taken
<1>4. m.ev # "ROUTE" => Fit(t, Nil)
    BY <1>1, <1>2, FitTail
<1>5. CASE m.ev = "ENABLE"
    <2> DEFINE u == vgic_update_enable(t, c)
               h == [t.hcr[c] EXCEPT !.en = t.ctlr]
    <2>1. Sane(u)
        <3>0. t.hcr[c] \in HcrTypes /\ t.ctlr \in BOOLEAN
            BY <1>3 DEF Sane, Vgics
        <3>1. h \in HcrTypes
            BY <3>0 DEF HcrTypes
        <3>2. u = [t EXCEPT !.hcr[c] = h]
            BY DEF vgic_update_enable
        <3> HIDE DEF u, h
        <3> QED
            BY <1>3, <3>1, <3>2, SetHcr
    <2>2. /\ u.spilt = t.spilt /\ u.list = t.list /\ u.msg = t.msg /\ u.int = t.int
          /\ u.lr = t.lr /\ u.phys = t.phys
        BY <1>3 DEF vgic_update_enable, Sane, Vgics
    <2> HIDE DEF u
    <2>3. Fit(u, Nil)
        BY <1>4, <1>5, <2>1, <2>2, FitSame
    <2> QED
        BY <1>1, <1>2, <1>5, <2>3 DEF vgic_ipi_handler, u
<1>6. CASE m.ev = "ROUTE"
    <2>1. PICK k \in Keys : k = Key(c, m.id)
        BY <1>3, <1>6, KeyType DEF Msgs
    <2>2. Fit(t, k)
        BY <1>1, <1>2, <2>1, FitTail
    <2>3. PICK o : o = vgic_get_ownership(t, c, k)
        OBVIOUS
    <2>4. CASE t.int[k].owner \in {None, c}
        <3>1. o.int[k].owner = c
            BY <1>3, <2>3, <2>4, GetOwnership
        <3>2. PICK u : u = vgic_yield_ownership(IF vgic_int_vcpu_is_target(o, c, k)
                                                THEN vgic_add_lr(o, c, k) ELSE o, c, k)
            OBVIOUS
        <3>3. Mine(c, k)
            BY <2>1 DEF Key, Mine
        <3>4. Fit(u, Nil)
            BY <1>3, <2>2, <2>3, <2>4, <3>2, <3>3, FitAsked
        <3>5. vgic_ipi_handler(t, c, m) = u
            BY <1>6, <2>1, <2>3, <3>1, <3>2 DEF vgic_ipi_handler, vgic_owns
        <3> QED
            BY <1>1, <1>2, <3>4, <3>5
    <2>5. CASE t.int[k].owner \notin {None, c}
        <3>1. vgic_ipi_handler(t, c, m) = t
            BY <1>6, <2>1, <2>5 DEF vgic_ipi_handler, vgic_owns, vgic_get_ownership
        <3>2. ASSUME ~t.spilt PROVE Waits(t, k)
            <4>1. k # Nil
                BY KeysAre, CpusAre, VgicAssumption DEF Nil, None, Ids
            <4>2. Waits(s, k) /\ t.int = s.int
                BY <1>3, <3>2, <4>1 DEF Fit, Taken
            <4> QED
                BY <2>5, <4>2 DEF Waits
        <3>3. Fit(t, Nil)
            BY <2>2, <3>2, FitNil
        <3> QED
            BY <1>1, <1>2, <3>1, <3>3
    <2> QED
        BY <2>4, <2>5
<1>7. CASE m.ev = "INJECT"
    <2>1. m.id \in SGIs /\ m.id \in Ids /\ m.val \in Cpus
        BY <1>3, <1>7 DEF Msgs, Ids
    <2>2. Fit(vgic_inject(t, c, Key(c, m.id), m.val), Nil)
        BY <1>4, <1>7, <2>1, FitInject
    <2> QED
        BY <1>1, <1>2, <1>7, <2>2 DEF vgic_ipi_handler
<1>8. CASE m.ev = "SET_REG"
    <2>1. m.id \in Ids /\ m.w \in Writes \cup {<<"ISPENDR", i, 1>> : i \in Ids}
        BY <1>3, <1>8 DEF Msgs
    <2>2. SomeWrite(m.w)
        BY <2>1, WritesAre
    <2>3. PICK k \in Keys : k = Key(0, m.id) /\ k[2] = m.id
        BY <2>1, CpusAre, KeyType
    <2>4. ~t.spilt /\ V2 => Mine(c, k)
        <3>1. ~t.spilt /\ V2 => m.id \in SPIs
            <4>1. t.spilt = s.spilt /\ \E n \in DOMAIN s.msg[c] : s.msg[c][n] = m
                BY <1>2, <1>3 DEF Taken
            <4> QED
                BY <1>8, <4>1 DEF Fit, Quiet
        <3> QED
            BY <2>3, <3>1, SpisAre
    <2>5. Fit(vgic_int_set_field(t, c, k, m.w), Nil)
        BY <1>4, <1>8, <2>1, <2>2, <2>4, FitSetField
    <2> QED
        BY <1>1, <1>2, <1>8, <2>3, <2>5 DEF vgic_ipi_handler
<1> QED
    BY <1>3, <1>5, <1>6, <1>7, <1>8 DEF Msgs

-----------------------------------------------------------------------------
(* The maintenance interrupt: without spilled interrupts nothing is refilled. *)

\* One round of vgic_handle_trapped_eoir: what traps is an interrupt without a
\* device.
LEMMA FitOneEoir ==
    ASSUME NUM_LRS \in LrCounts, NEW t, Fit(t, Nil), NEW c \in Cpus, Eisr(t, c) # {}
    PROVE  LET n  == Lowest1(Eisr(t, c))
               k  == Key(c, t.lr[c][n].id)
               t1 == [t EXCEPT !.lr[c][n] = EmptyLr, !.int[k].in_lr = FALSE]
           IN  /\ k[2] \in SGIs => Fit(vgic_add_lr(t1, c, k), Nil)
               /\ Fit(vgic_yield_ownership(t1, c, k), Nil)
<1>a. PICK n : n = Lowest1(Eisr(t, c))
    OBVIOUS
<1>b. PICK k : k = Key(c, t.lr[c][n].id)
    OBVIOUS
<1>c. PICK t1 : t1 = [t EXCEPT !.lr[c][n] = EmptyLr, !.int[k].in_lr = FALSE]
    OBVIOUS
<1>0. Sane(t)
    BY DEF Fit
<1>1. n \in Eisr(t, c)
    BY <1>a, LowestIn DEF Eisr
<1>2. n \in Lrs /\ t.lr[c][n].eoi /\ ~t.lr[c][n].hw
    BY <1>1 DEF Eisr
<1>3. k \in Keys /\ k[2] = t.lr[c][n].id /\ Mine(c, k)
    <2>1. t.lr[c][n].id \in Ids
        BY <1>0, <1>2 DEF Sane, LrInv
    <2> QED
        BY <1>b, <2>1, KeyType DEF Key, Mine
<1>4. EmptyLr \in LrTypes /\ LrInv(EmptyLr, t.curr[c][n]) /\ EmptyLr.state = {} /\ ~EmptyLr.eoi
    BY VgicAssumption DEF EmptyLr, LrTypes, LrInv, States, Ids
<1>5. PICK t0 : t0 = [t EXCEPT !.lr[c][n] = EmptyLr]
    OBVIOUS
<1>6. /\ Sane(t0) /\ t0.int = t.int /\ t0.phys = t.phys /\ t0.msg = t.msg /\ t0.list = t.list
      /\ t0.spilt = t.spilt /\ t0.lr = [t.lr EXCEPT ![c] = [t.lr[c] EXCEPT ![n] = EmptyLr]]
    <2>1. Sane(t0)
        BY <1>0, <1>2, <1>4, <1>5, SetLr
    <2> QED
        BY <1>0, <1>5, <2>1 DEF Sane, Vgics
<1>7. t0.lr[c][n] = EmptyLr
      /\ \A d \in Cpus, m \in Lrs : ~(d = c /\ m = n) => t0.lr[d][m] = t.lr[d][m]
    <2>1. t.lr \in [Cpus -> [Lrs -> LrTypes]]
        BY <1>0 DEF Sane, Vgics
    <2> QED
        BY <1>2, <1>6, <2>1
<1> DEFINE r == [t.int[k] EXCEPT !.in_lr = FALSE]
<1>8. /\ r \in IntTypes /\ IntInv(r) /\ ~r.in_lr /\ r.owner = t.int[k].owner
      /\ r.irm = t.int[k].irm /\ r.state = t.int[k].state /\ r.tgt = t.int[k].tgt
      /\ r.enabled = t.int[k].enabled
    <2>1. t.int[k] \in IntTypes /\ IntInv(t.int[k])
        BY <1>0, <1>3 DEF Sane, Vgics
    <2> QED
        BY <2>1 DEF IntTypes, IntInv
<1>9. t1 = [t0 EXCEPT !.int[k] = r]
    BY <1>c, <1>5, <1>6
<1> HIDE DEF r
<1>10. Sane(t1)
    BY <1>3, <1>6, <1>8, <1>9, SetInt
<1>11. /\ t1.int[k] = r /\ \A j \in Keys \ {k} : t1.int[j] = t.int[j]
       /\ t1.phys = t.phys /\ t1.msg = t.msg /\ t1.list = t.list /\ t1.spilt = t.spilt
       /\ t1.lr = t0.lr
    BY <1>3, <1>6, <1>9 DEF Sane, Vgics
<1>12. ASSUME Quiet(t)
       PROVE  /\ Kept(t1, k)
              /\ \A d \in Cpus, m \in Lrs : LrFor(t, t1, d, m, k)
              /\ \A d \in Cpus, m \in Lrs :
                     k \in HwKeys /\ Holds(t1, d, m, k) => Named(t1, d, m, k)
    <2>1. k \notin HwKeys
        <3>1. Tied(t.lr[c][n])
            BY <1>2, <1>12 DEF Quiet
        <3> QED
            BY <1>2, <1>3, <3>1 DEF Tied, HwKeys, vgic_int_is_hw
    <2>2. Kept(t, k)
        BY <1>3, <1>12 DEF Quiet
    <2>3. Kept(t1, k)
        BY <1>8, <1>11, <2>1, <2>2 DEF Kept
    <2>4. \A d \in Cpus, m \in Lrs : LrFor(t, t1, d, m, k)
        BY <1>4, <1>7, <1>11 DEF LrFor, Tied, Holds
    <2> QED
        BY <2>1, <2>3, <2>4
<1>13. /\ t1.list = t.list /\ t1.msg = t.msg /\ t1.spilt = t.spilt
       /\ \A j \in Keys \ {k} : t1.int[j] = t.int[j] /\ (j \in HwKeys => t1.phys[j] = t.phys[j])
    BY <1>11
<1>14. Fit(t1, k)
    <2>1. Fit(t, k)
        BY FitFor
    <2> QED
        BY <1>3, <1>10, <1>12, <1>13, <2>1, FitAt
<1>15. ~t1.spilt => Waits(t1, k)
    <2>1. k # Nil
        BY <1>3, KeysAre, CpusAre, VgicAssumption DEF Nil, None, Ids
    <2>2. ~t.spilt => Waits(t, k)
        BY <1>3, <2>1 DEF Fit
    <2> QED
        BY <1>8, <1>11, <2>2 DEF Waits
<1>16. Fit(t1, Nil)
    BY <1>14, <1>15, FitNil
<1>17. Fit(vgic_yield_ownership(t1, c, k), Nil)
    BY <1>3, <1>16, FitYield
<1>18. k[2] \in SGIs => Fit(vgic_add_lr(t1, c, k), Nil)
    BY <1>3, <1>14, FitAdd
<1> QED
    BY <1>a, <1>b, <1>c, <1>17, <1>18

\* All of them.
LEMMA FitTrappedEoir ==
    ASSUME NUM_LRS \in LrCounts, NEW s, Fit(s, Nil), NEW c \in Cpus
    PROVE  Fit(vgic_handle_trapped_eoir(s, c), Nil)
<1> DEFINE Fits == {t \in Vgics : Fit(t, Nil)}
<1>1. \A t : t \in Fits <=> Fit(t, Nil)
    BY DEF Fit, Sane
<1>2. ASSUME NEW t \in Fits, Eisr(t, c) # {}
      PROVE  LET n  == Lowest1(Eisr(t, c))
                 k  == Key(c, t.lr[c][n].id)
                 t1 == [t EXCEPT !.lr[c][n] = EmptyLr, !.int[k].in_lr = FALSE]
             IN (k[2] \in SGIs => vgic_add_lr(t1, c, k) \in Fits)
                /\ vgic_yield_ownership(t1, c, k) \in Fits
    <2> HIDE DEF Fits
    <2>1. Fit(t, Nil)
        BY <1>1, <1>2
    <2> QED
        BY <1>1, <1>2, <2>1, FitOneEoir
<1> HIDE DEF Fits
<1>3. s \in Fits /\ EoirStays(Fits, c)
    BY <1>1, <1>2 DEF EoirStays
<1>4. vgic_handle_trapped_eoir(s, c) \in Fits
    BY <1>3, TrappedEoirLoop
<1> QED
    BY <1>1, <1>4

\* With empty lists there is no spilled interrupt to find.
LEMMA NoneSpilled ==
    ASSUME NEW s, Quiet(s), NEW c \in Cpus, NEW flags
    PROVE  vgic_highest_prio_spilled(s, c, flags) = Nil
<1>1. ASSUME NEW l \in Cpus \cup {VM} PROVE Spilled(s, l) = {}
    <2>1. {s.list[l].head} \ {Nil} \in {{}}
        BY DEF Quiet
    <2>2. LinksStay(s, {{}})
        BY DEF LinksStay
    <2>3. Spilled(s, l) \in {{}}
        BY <2>1, <2>2, SpilledLoop
    <2> QED
        BY <2>3
<1>2. Spilled(s, c) = {} /\ Spilled(s, VM) = {}
    BY <1>1
<1> QED
    BY <1>2 DEF vgic_highest_prio_spilled

\* list_rm does not forget that something was spilled.
LEMMA ListRmSpilt ==
    ASSUME NEW s, Sane(s), NEW l \in Cpus \cup {VM}, NEW k \in Keys, s.spilt
    PROVE  list_rm(s, l, k).spilt
<1> DEFINE j  == s.int[k].next
           f  == [p \in Keys |-> IF p \in {q \in Spilled(s, l) : s.int[q].next = k}
                                 THEN [s.int[p] EXCEPT !.next = j] ELSE s.int[p]]
           sh == [s EXCEPT !.list[l].head = j]
           sf == [s EXCEPT !.int = f]
           s1 == IF s.list[l].head = k THEN sh ELSE sf
           s2 == [s1 EXCEPT !.list[l].tail = Nil]
<1>1. list_rm(s, l, k) \in {s1, s2}
    BY DEF list_rm
<1> HIDE DEF f, j
<1>2. sh.spilt /\ DOMAIN sh = DOMAIN s /\ sf.spilt /\ DOMAIN sf = DOMAIN s /\ "spilt" \in DOMAIN s
    BY DEF Sane, Vgics
<1> HIDE DEF sh, sf
<1>3. s1.spilt /\ "spilt" \in DOMAIN s1
    BY <1>2
<1> HIDE DEF s1
<1>4. s2.spilt
    BY <1>3
<1> HIDE DEF s2
<1> QED
    BY <1>1, <1>3, <1>4

\* What vgic_refill_lrs goes through.
RefilledFit == [s : {t \in Vgics : Fit(t, Nil)}, flags : SUBSET {"A", "P"}, done : BOOLEAN,
                blocked : BOOLEAN]

\* One round of vgic_refill_lrs: nothing is left to do, or something was
\* spilled.
LEMMA FitOneRefilled ==
    ASSUME NUM_LRS \in LrCounts, NEW p \in RefilledFit, NEW c \in Cpus
    PROVE  LET k == vgic_highest_prio_spilled(p.s, c, p.flags)
               o == vgic_get_ownership(p.s, c, k)
               l == IF k[2] \in Priv THEN c ELSE VM
           IN  /\ [p EXCEPT !.done = TRUE] \in RefilledFit
               /\ [p EXCEPT !.done = TRUE, !.blocked = TRUE] \in RefilledFit
               /\ [p EXCEPT !.done = TRUE,
                            !.s.hcr[c] = [p.s.hcr[c] EXCEPT !.np = FALSE, !.u = FALSE]]
                    \in RefilledFit
               /\ k # Nil /\ Elrsr(p.s, c) # {} =>
                    [p EXCEPT !.s = vgic_write_lr(list_rm(o, l, k), c, k, Lowest1(Elrsr(p.s, c))),
                              !.flags = {"A", "P"}] \in RefilledFit
<1> DEFINE k == vgic_highest_prio_spilled(p.s, c, p.flags)
           o == vgic_get_ownership(p.s, c, k)
           l == IF k[2] \in Priv THEN c ELSE VM
           n == Lowest1(Elrsr(p.s, c))
           h == [p.s.hcr[c] EXCEPT !.np = FALSE, !.u = FALSE]
           t == [p.s EXCEPT !.hcr[c] = h]
           v == vgic_write_lr(list_rm(o, l, k), c, k, n)
<1>1. Fit(p.s, Nil) /\ Sane(p.s)
    BY DEF RefilledFit, Fit
<1>2. /\ [p EXCEPT !.done = TRUE] \in RefilledFit
      /\ [p EXCEPT !.done = TRUE, !.blocked = TRUE] \in RefilledFit
    BY DEF RefilledFit
<1>3. [p EXCEPT !.done = TRUE,
                !.s.hcr[c] = [p.s.hcr[c] EXCEPT !.np = FALSE, !.u = FALSE]] \in RefilledFit
    <2>1. p.s.hcr \in [Cpus -> HcrTypes]
        BY <1>1 DEF Sane, Vgics
    <2>2. h \in HcrTypes
        BY <2>1 DEF HcrTypes
    <2>3. [p EXCEPT !.done = TRUE, !.s.hcr[c] = [p.s.hcr[c] EXCEPT !.np = FALSE, !.u = FALSE]]
            = [p EXCEPT !.done = TRUE, !.s = t]
        OBVIOUS
    <2> HIDE DEF h
    <2>4. Sane(t) /\ t \in Vgics
        BY <1>1, <2>2, SetHcr DEF Sane
    <2>5. /\ t.spilt = p.s.spilt /\ t.list = p.s.list /\ t.msg = p.s.msg /\ t.int = p.s.int
          /\ t.lr = p.s.lr /\ t.phys = p.s.phys
        BY <1>1 DEF Sane, Vgics
    <2> HIDE DEF t
    <2>6. Fit(t, Nil)
        BY <1>1, <2>4, <2>5, FitSame
    <2>7. [p EXCEPT !.done = TRUE, !.s = t] \in RefilledFit
        BY <2>4, <2>6 DEF RefilledFit
    <2> QED
        BY <2>3, <2>7
<1>4. ASSUME k # Nil, Elrsr(p.s, c) # {}
      PROVE  [p EXCEPT !.s = v, !.flags = {"A", "P"}] \in RefilledFit
    <2>1. k \in Keys
        BY <1>1, <1>4, HighestPrioSpilled
    <2>2. n \in Lrs
        BY <1>4, LowestIn DEF Elrsr
    <2>3. p.s.spilt
        BY <1>1, <1>4, NoneSpilled DEF Fit
    <2> HIDE DEF k, n
    <2>4. Sane(o) /\ o.spilt
        <3>1. o.spilt
            BY <1>1, <2>3 DEF vgic_get_ownership, Sane, Vgics
        <3> QED
            BY <1>1, <2>1, <3>1, GetOwnership
    <2> HIDE DEF o
    <2>5. l \in Cpus \cup {VM}
        OBVIOUS
    <2> HIDE DEF l
    <2>6. PICK u : u = list_rm(o, l, k)
        OBVIOUS
    <2>7. Sane(u) /\ u.spilt
        BY <2>1, <2>4, <2>5, <2>6, ListRm, ListRmSpilt
    <2>8. Fit(u, k)
        BY <2>7 DEF Fit
    <2>9. Fit(vgic_write_lr(u, c, k, n), Nil)
        BY <2>1, <2>2, <2>7, <2>8, FitWrite
    <2>10. Fit(v, Nil) /\ v \in Vgics
        BY <2>6, <2>9 DEF Fit, Sane
    <2> HIDE DEF v
    <2> QED
        BY <2>10 DEF RefilledFit
<1> QED
    BY <1>2, <1>3, <1>4

\* vgic_refill_lrs.
LEMMA FitRefillLrs ==
    ASSUME NUM_LRS \in LrCounts, NEW s, Fit(s, Nil), NEW c \in Cpus, NEW np
    PROVE  Fit(vgic_refill_lrs(s, c, np).s, Nil)
<1>1. RefillStart(s, np) \in RefilledFit
    BY DEF RefilledFit, RefillStart, Fit, Sane
<1>2. RefillStays(RefilledFit, c)
    BY FitOneRefilled DEF RefillStays
<1>3. vgic_refill_lrs(s, c, np) \in RefilledFit
    BY <1>1, <1>2, RefillLoop
<1> QED
    BY <1>3 DEF RefilledFit

\* vgic_eoir_highest_spilled_active.
LEMMA FitEoirSpilled ==
    ASSUME NUM_LRS \in LrCounts, NEW s, Fit(s, Nil), NEW c \in Cpus
    PROVE  Fit(vgic_eoir_highest_spilled_active(s, c), Nil)
<1> DEFINE k == vgic_highest_prio_spilled(s, c, {"A"})
           s1 == vgic_get_ownership(s, c, k)
           r == [s1.int[k] EXCEPT !.state = @ \ {"A"}]
           s2 == [s1 EXCEPT !.int[k].state = @ \ {"A"}]
           s3 == PhysSetState(s2, k, s2.phys[k].state \ {"A"})
<1>0. Sane(s) /\ Sane(vgic_eoir_highest_spilled_active(s, c))
    BY EoirSpilled DEF Fit
<1>1. CASE k = Nil
    BY <1>1 DEF vgic_eoir_highest_spilled_active
<1>2. CASE k # Nil
    <2>1. k \in Keys
        BY <1>0, <1>2, HighestPrioSpilled
    <2>2. s.spilt
        BY <1>2, NoneSpilled DEF Fit
    <2> HIDE DEF k
    <2>3. Sane(s1) /\ s1.spilt
        <3>1. s1.spilt
            BY <1>0, <2>2 DEF vgic_get_ownership, Sane, Vgics
        <3> QED
            BY <1>0, <2>1, <3>1, GetOwnership
    <2> HIDE DEF s1
    <2>4. r \in IntTypes /\ IntInv(r)
        <3>1. s1.int[k] \in IntTypes
            BY <2>1, <2>3 DEF Sane, Vgics
        <3> QED
            BY <3>1 DEF IntTypes, IntInv, States
    <2>5. s2 = [s1 EXCEPT !.int[k] = r]
        OBVIOUS
    <2> HIDE DEF r
    <2>6. Sane(s2) /\ s2.spilt
        <3>1. Sane(s2)
            BY <2>1, <2>3, <2>4, <2>5, SetInt
        <3> QED
            BY <2>3, <3>1 DEF Sane, Vgics
    <2> HIDE DEF s2
    <2>7. Fit(vgic_add_lr(s2, c, k), Nil)
        <3>1. Fit(s2, k)
            BY <2>6 DEF Fit
        <3> QED
            BY <2>1, <2>6, <3>1, FitAdd
    <2>8. s3.spilt
        BY <2>6 DEF PhysSetState, Sane, Vgics
    <2> HIDE DEF s3
    <2>9. vgic_eoir_highest_spilled_active(s, c) \in {s, s2, s3, vgic_add_lr(s2, c, k)}
        BY DEF vgic_eoir_highest_spilled_active, k, s1, s2, s3
    <2> QED
        BY <1>0, <2>2, <2>6, <2>7, <2>8, <2>9 DEF Fit
<1> QED
    BY <1>1, <1>2

\* Several of them.
LEMMA FitEois ==
    ASSUME NUM_LRS \in LrCounts, NEW s, Fit(s, Nil), NEW c \in Cpus, NEW NUM \in Nat
    PROVE  LET f[n \in 0..NUM] == IF n = 0 THEN s
                                  ELSE vgic_eoir_highest_spilled_active(f[n - 1], c)
           IN  Fit(f[NUM], Nil)
<1> DEFINE S == {t \in Vgics : Fit(t, Nil)}
           f[n \in 0..NUM] == IF n = 0 THEN s ELSE vgic_eoir_highest_spilled_active(f[n - 1], c)
<1>1. \A t : t \in S <=> Fit(t, Nil)
    BY DEF Fit, Sane
<1> HIDE DEF S
<1>2. s \in S /\ EoisStay(S, c)
    BY <1>1, FitEoirSpilled DEF EoisStay
<1>3. f[NUM] \in S
    BY <1>2, EoiLoop
<1> HIDE DEF f
<1>4. Fit(f[NUM], Nil)
    BY <1>1, <1>3
<1> QED
    BY <1>4 DEF f

-----------------------------------------------------------------------------
(* The invariant and the steps. *)

\* The inductive invariant.
GicInv ==
    /\ build \in Versions /\ NUM_LRS \in LrCounts /\ inputs \in 0..MaxInputs[NUM_LRS]
    /\ serving \in [Cpus -> SUBSET Ids]
    /\ Fit(g, Nil)

\* The invariant implies the property of the run.
LEMMA InvIsEnough == GicInv => ActiveKeepsOwner
<1> SUFFICES ASSUME GicInv PROVE ActiveKeepsOwner
    OBVIOUS
<1>0. Sane(g)
    BY DEF GicInv, Fit
<1>1. g \in Vgics
    BY <1>0 DEF Sane
<1>2. TypeOK
    <2>1. /\ g.int \in [Keys -> IntTypes] /\ g.curr \in [Cpus -> [Lrs -> Ids \cup {0}]]
          /\ g.lr \in [Cpus -> [Lrs -> LrTypes]]
          /\ g.list \in [Cpus \cup {VM} -> [head : Keys \cup {Nil}, tail : Keys \cup {Nil}]]
        BY <1>1 DEF Vgics, ListTypes
    <2>2. \A c \in Cpus, n \in Lrs : g.lr[c][n].hw => g.lr[c][n].state # {"P", "A"}
        BY <1>0 DEF Sane, LrInv
    <2>3. \A c \in Cpus : g.hcr[c] \in [en : BOOLEAN, np : BOOLEAN, u : BOOLEAN, eoicount : Nat]
        BY <1>1 DEF Vgics, HcrTypes
    <2>4. \A c \in Cpus : \A n \in DOMAIN g.msg[c] : g.msg[c][n] \in Msgs
        <3>1. \A c \in Cpus : g.msg[c] \in Seq(Msgs)
            BY <1>1 DEF Vgics
        <3> QED
            BY <3>1
    <2>5. g.spilt \in BOOLEAN
          /\ \A k \in DOMAIN g.phys :
                g.phys[k] \in [state : States, enabled : BOOLEAN, tgt : SUBSET Cpus]
        BY <1>1 DEF Vgics, PhysTypes
    <2> QED
        BY <2>1, <2>2, <2>3, <2>4, <2>5 DEF GicInv, TypeOK
<1>3. CurrLrsIsTrue
    BY <1>0 DEF Sane, LrInv, CurrLrsIsTrue
<1>4. \A k \in Keys : "A" \in g.int[k].state => g.int[k].owner # None
    BY <1>0 DEF Sane, IntInv
<1> QED
    BY <1>2, <1>3, <1>4 DEF ActiveKeepsOwner

\* What vgic_init leaves satisfies the invariant.
LEMMA InvInit == Init => GicInv
<1> SUFFICES ASSUME Init PROVE GicInv
    OBVIOUS
<1>0. NUM_LRS \in LrCounts /\ NUM_LRS \in Nat \ {0} /\ build \in Versions
    BY VgicAssumption DEF Init
<1>1. inputs \in 0..MaxInputs[NUM_LRS]
    BY <1>0, VgicAssumption DEF Init
<1>2. serving \in [Cpus -> SUBSET Ids]
    BY DEF Init
<1>3. EmptyLr \in LrTypes /\ LrInv(EmptyLr, 0)
    BY VgicAssumption DEF EmptyLr, LrTypes, LrInv, States, Ids
<1>4. \A k \in Keys : IntInit(k) \in IntTypes /\ IntInv(IntInit(k))
    <2> SUFFICES ASSUME NEW k \in Keys PROVE IntInit(k) \in IntTypes /\ IntInv(IntInit(k))
        OBVIOUS
    <2>1. Lowest \in Prios
        BY VgicAssumption DEF Lowest
    <2>2. 1 \in Lrs
        BY <1>0 DEF Lrs
    <2>3. IntInit(k).owner \in Cpus \cup {None} /\ IntInit(k).tgt \in SUBSET Cpus
        BY KeysAre, CpusAre DEF IntInit
    <2> QED
        BY <2>1, <2>2, <2>3 DEF IntInit, IntTypes, IntInv, States
<1>5. \A k \in HwKeys : PhysInit(k) \in PhysTypes
    <2> SUFFICES ASSUME NEW k \in HwKeys PROVE PhysInit(k) \in PhysTypes
        OBVIOUS
    <2>1. PhysInit(k).tgt \in SUBSET Cpus
        BY KeysAre, CpusAre DEF PhysInit, HwKeys
    <2> QED
        BY <2>1 DEF PhysInit, PhysTypes, States
<1>6. g \in Vgics
    <2>1. g.int \in [Keys -> IntTypes]
        BY <1>4 DEF Init
    <2>2. g.lr \in [Cpus -> [Lrs -> LrTypes]] /\ g.curr \in [Cpus -> [Lrs -> Ids \cup {0}]]
        BY <1>3 DEF Init
    <2>3. g.hcr \in [Cpus -> HcrTypes]
        BY DEF Init, HcrTypes
    <2>4. g.list \in [Cpus \cup {VM} -> ListTypes]
        BY DEF Init, ListTypes
    <2>5. g.msg \in [Cpus -> Seq(Msgs)] /\ g.ctlr \in BOOLEAN /\ g.spilt \in BOOLEAN
        BY DEF Init
    <2>6. g.phys \in [HwKeys -> PhysTypes]
        BY <1>5 DEF Init, HwKeys
    <2>7. g = [int |-> g.int, lr |-> g.lr, curr |-> g.curr, hcr |-> g.hcr, list |-> g.list,
               msg |-> g.msg, ctlr |-> g.ctlr, spilt |-> g.spilt, phys |-> g.phys]
        BY DEF Init
    <2> QED
        BY <2>1, <2>2, <2>3, <2>4, <2>5, <2>6, <2>7 DEF Vgics
<1>7. \A c \in Cpus : \A n \in Lrs : LrInv(g.lr[c][n], g.curr[c][n])
    BY <1>3 DEF Init
<1>8. \A k \in Keys : IntInv(g.int[k])
    BY <1>4 DEF Init
<1>9. Sane(g)
    BY <1>6, <1>7, <1>8 DEF Sane
<1>10. Quiet(g)
    <2>1. \A l \in Cpus \cup {VM} : g.list[l].head = Nil
        BY DEF Init
    <2>2. \A c \in Cpus, n \in Lrs : g.lr[c][n] = EmptyLr
        BY DEF Init
    <2>3. \A c \in Cpus, n \in Lrs : Tied(g.lr[c][n])
        BY <2>2 DEF EmptyLr, Tied
    <2>4. \A c \in Cpus, n \in Lrs, k \in HwKeys : ~Holds(g, c, n, k)
        BY <2>2 DEF EmptyLr, Holds
    <2>5. ASSUME NEW k \in Keys PROVE Kept(g, k)
        <3>1. g.int[k] = IntInit(k) /\ (k \in HwKeys => g.phys[k] = PhysInit(k))
            BY DEF Init, HwKeys
        <3> QED
            BY <3>1, KeysAre DEF IntInit, PhysInit, Kept
    <2>6. \A c \in Cpus : DOMAIN g.msg[c] = {}
        BY DEF Init
    <2> QED
        BY <2>1, <2>3, <2>4, <2>5, <2>6 DEF Quiet
<1>11. \A k \in Keys : Waits(g, k)
    BY DEF Init, IntInit, Waits
<1> QED
    BY <1>0, <1>1, <1>2, <1>9, <1>10, <1>11 DEF GicInv, Fit

\* The inputs that are followed are bounded.
LEMMA InputCounted ==
    ASSUME GicInv, Input
    PROVE  inputs' \in 0..MaxInputs[NUM_LRS]
<1>1. MaxInputs[NUM_LRS] \in Nat
    BY VgicAssumption DEF GicInv
<1> QED
    BY <1>1 DEF GicInv, Input

\* The invariant holds after a step that leaves the vGIC as a handler does.
LEMMA InvKept ==
    ASSUME GicInv, UNCHANGED platform, Fit(g', Nil),
           inputs' \in 0..MaxInputs[NUM_LRS], serving' \in [Cpus -> SUBSET Ids]
    PROVE  GicInv'
BY DEF platform, GicInv, Sane, Vgics, Lrs, LrInv, V2, LrTypes, IntTypes, IntInv, HwKeys,
       vgic_int_is_hw, Fit, Quiet, Tied, Kept, Holds, Named

\* The guest writes a register with a field per interrupt.
LEMMA InvWrite ==
    ASSUME GicInv, NEW c \in Cpus, NEW d \in Cpus, NEW w \in Writes, vgicd_emul_handler(c, d, w)
    PROVE  GicInv'
<1>1. w[2] \in Ids /\ SomeWrite(w) /\ w \in Writes \cup {<<"ISPENDR", i, 1>> : i \in Ids}
    BY VgicAssumption, WritesAre DEF Ids
<1>2. Key(c, w[2]) \in Keys /\ Key(d, w[2]) \in Keys
    BY <1>1, KeyType
<1>3. Mine(c, Key(c, w[2])) /\ (V2 => Mine(c, Key(d, w[2])))
    BY <1>1, KeyType DEF Mine, Key, vgicd_emul_handler, PrivateFrame
<1>6. /\ Fit(vgic_int_set_field(g, c, Key(c, w[2]), w), Nil)
      /\ Fit(vgic_int_set_field(g, c, Key(d, w[2]), w), Nil)
    BY <1>1, <1>2, <1>3, FitSetField DEF GicInv
<1>4. Fit(g', Nil)
    BY <1>6 DEF vgicd_emul_handler, vgicd_emul_router_access, vgic_emul_generic_access
<1>5. UNCHANGED <<platform, serving>> /\ Input
    BY DEF vgicd_emul_handler
<1> QED
    BY <1>4, <1>5, InputCounted, InvKept DEF GicInv

\* The guest writes GICD_CTLR.
LEMMA InvCtlr ==
    ASSUME GicInv, NEW c \in Cpus, NEW on \in BOOLEAN, vgicd_emul_misc_access(c, on)
    PROVE  GicInv'
<1> DEFINE s == [g EXCEPT !.ctlr = on]
           h == [s.hcr[c] EXCEPT !.en = s.ctlr]
           m == [ev |-> "ENABLE"]
<1>0. Sane(g) /\ Fit(g, Nil)
    BY DEF GicInv, Fit
<1>1. /\ Sane(s) /\ s.int = g.int /\ s.lr = g.lr /\ s.phys = g.phys /\ s.list = g.list
      /\ s.msg = g.msg /\ s.spilt = g.spilt
    <2>2. /\ s \in Vgics /\ s.int = g.int /\ s.lr = g.lr /\ s.curr = g.curr /\ s.phys = g.phys
          /\ s.list = g.list /\ s.msg = g.msg /\ s.spilt = g.spilt
        BY <1>0 DEF Sane, Vgics
    <2> HIDE DEF s
    <2> QED
        BY <1>0, <2>2, SameInside
<1> HIDE DEF s
<1>2. h \in HcrTypes
    <2>1. s.hcr[c] \in HcrTypes /\ s.ctlr \in BOOLEAN
        BY <1>1 DEF Sane, Vgics
    <2> QED
        BY <2>1 DEF HcrTypes
<1>3. PICK t : t = vgic_update_enable(s, c)
    OBVIOUS
<1>4. t = [s EXCEPT !.hcr[c] = h]
    BY <1>3 DEF vgic_update_enable
<1> HIDE DEF h
<1>5. Sane(t)
    BY <1>1, <1>2, <1>4, SetHcr
<1>6. /\ t.int = g.int /\ t.lr = g.lr /\ t.phys = g.phys /\ t.list = g.list
      /\ t.msg = g.msg /\ t.spilt = g.spilt
    BY <1>1, <1>4 DEF Sane, Vgics
<1>7. Fit(t, Nil)
    BY <1>0, <1>5, <1>6, FitSame
<1>8. m \in Msgs /\ m.ev # "SET_REG"
    BY DEF Msgs
<1> HIDE DEF m
<1>9. Fit(vgic_send_sgi_msg(t, Cpus \ {c}, m), Nil)
    BY <1>7, <1>8, FitSend
<1>10. Fit(g', Nil) /\ UNCHANGED <<platform, serving>> /\ Input
    BY <1>3, <1>9 DEF vgicd_emul_misc_access, s, m
<1> QED
    BY <1>10, InputCounted, InvKept DEF GicInv

\* The guest writes the SGI register.
LEMMA InvSgi ==
    ASSUME GicInv, NEW c \in Cpus, NEW w \in SgiWrites, NEW i \in SGIs,
           vgicd_emul_sgiregs_access(c, w, i)
    PROVE  GicInv'
<1> DEFINE m == [ev |-> "INJECT", id |-> i, val |-> c]
           T == IF V2 THEN SgiTargetsV2(c, w[1], w[2]) ELSE SgiTargetsV3(c, w[1], w[2])
<1>1. m \in Msgs /\ m.ev # "SET_REG"
    BY DEF Msgs, Ids
<1> HIDE DEF m
<1> HIDE DEF T
<1>2. Fit(vgic_send_sgi_msg(g, T, m), Nil)
    BY <1>1, FitSend DEF GicInv
<1>3. Fit(g', Nil) /\ UNCHANGED <<platform, serving>> /\ Input
    BY <1>2 DEF vgicd_emul_sgiregs_access, m, T
<1> QED
    BY <1>3, InputCounted, InvKept DEF GicInv

\* The hypervisor injects an interrupt without a device.
LEMMA InvInject ==
    ASSUME GicInv, NEW c \in Cpus, NEW i \in SPIs \ Hw, InjectVirq(c, i)
    PROVE  GicInv'
<1>1. Fit(vgic_inject(g, c, Key(c, i), 0), Nil)
    BY FitInject, CpusAre DEF GicInv, Ids
<1>2. Fit(g', Nil) /\ UNCHANGED <<platform, serving>> /\ Input
    BY <1>1 DEF InjectVirq
<1> QED
    BY <1>2, InputCounted, InvKept DEF GicInv

\* A device raises its interrupt.
LEMMA InvDevice ==
    ASSUME GicInv, NEW k \in DOMAIN g.phys, Device(k)
    PROVE  GicInv'
<1> DEFINE st == g.phys[k].state \cup {"P"}
           p == [g.phys[k] EXCEPT !.state = st]
<1>0. Sane(g) /\ Fit(g, Nil)
    BY DEF GicInv, Fit
<1>1. k \in HwKeys /\ k \in Keys /\ g.phys[k] \in PhysTypes /\ st \in States
    BY <1>0 DEF Sane, Vgics, PhysTypes, States, HwKeys
<1>2. p.tgt = g.phys[k].tgt /\ ("A" \in g.phys[k].state => "A" \in p.state) /\ p \in PhysTypes
    BY <1>1 DEF PhysTypes
<1>3. g' = [g EXCEPT !.phys[k] = p]
    BY DEF Device
<1> HIDE DEF p
<1>4. Sane(g')
    BY <1>0, <1>1, <1>2, <1>3, SetPhys
<1>5. PICK t : t = g'
    OBVIOUS
<1>6. /\ t.int = g.int /\ t.lr = g.lr /\ t.msg = g.msg /\ t.list = g.list /\ t.spilt = g.spilt
      /\ t.phys[k] = p /\ \A j \in HwKeys \ {k} : t.phys[j] = g.phys[j]
    BY <1>0, <1>1, <1>3, <1>5 DEF Sane, Vgics
<1>7. ASSUME Quiet(g)
      PROVE  /\ Kept(t, k)
             /\ \A c \in Cpus, n \in Lrs : LrFor(g, t, c, n, k)
             /\ \A c \in Cpus, n \in Lrs : k \in HwKeys /\ Holds(t, c, n, k) => Named(t, c, n, k)
    BY <1>1, <1>2, <1>6, <1>7 DEF Quiet, Kept, LrFor, Holds, Named
<1>8. Fit(t, k)
    <2>1. Fit(g, k)
        BY <1>0, FitFor
    <2>2. Sane(t)
        BY <1>4, <1>5
    <2> QED
        BY <1>1, <1>6, <1>7, <2>1, <2>2, FitAt
<1>9. ~t.spilt => Waits(t, k)
    <2>1. k # Nil
        BY <1>1, KeysAre, CpusAre, VgicAssumption DEF Nil, None, Ids
    <2> QED
        BY <1>0, <1>1, <1>6, <2>1 DEF Fit, Waits
<1>10. Fit(t, Nil)
    BY <1>8, <1>9, FitNil
<1>11. UNCHANGED <<platform, serving, inputs>>
    BY DEF Device
<1> QED
    BY <1>5, <1>10, <1>11, InvKept DEF GicInv

\* A device's interrupt is taken and injected.
LEMMA InvHandle ==
    ASSUME GicInv, NEW c \in Cpus, NEW k \in DOMAIN g.phys, gic_handle(c, k)
    PROVE  GicInv'
<1>1. k \in HwKeys /\ Fit(g, Nil) /\ NUM_LRS \in LrCounts
    BY DEF GicInv, Fit, Sane, Vgics
<1>2. g.phys[k].state = {"P"} /\ c \in g.phys[k].tgt
    BY DEF gic_handle
<1>3. Fit(vgic_inject_hw([g EXCEPT !.phys[k].state = {"A"}], c, k), Nil)
    BY <1>1, <1>2, FitHandle
<1>4. Fit(g', Nil) /\ UNCHANGED <<platform, serving, inputs>>
    BY <1>3 DEF gic_handle
<1> QED
    BY <1>4, InvKept DEF GicInv

\* A core takes a message.
LEMMA InvMsg ==
    ASSUME GicInv, NEW c \in Cpus, HandleMsg(c)
    PROVE  GicInv'
<1>1. g.msg[c] # <<>> /\ Fit(g, Nil) /\ NUM_LRS \in LrCounts
    BY DEF GicInv, HandleMsg
<1>2. Fit(vgic_ipi_handler([g EXCEPT !.msg[c] = Tail(@)], c, Head(g.msg[c])), Nil)
    BY <1>1, FitIpi
<1>3. Fit(g', Nil) /\ UNCHANGED <<platform, serving, inputs>>
    BY <1>2 DEF HandleMsg
<1> QED
    BY <1>3, InvKept DEF GicInv

\* The maintenance interrupt: trapped ends, refilling, and ends of spilled
\* interrupts, in this order.
LEMMA InvMaintenance ==
    ASSUME GicInv, NEW c \in Cpus, gic_maintenance_handler(c)
    PROVE  GicInv'
<1> DEFINE misr == Misr(g, c)
           s1 == IF "EOI" \in misr THEN vgic_handle_trapped_eoir(g, c) ELSE g
           p == vgic_refill_lrs(s1, c, "NP" \in misr)
           s2 == IF misr \cap {"NP", "U"} # {} THEN p.s ELSE s1
           N == s2.hcr[c].eoicount
           f[n \in 0..N] == IF n = 0 THEN s2 ELSE vgic_eoir_highest_spilled_active(f[n - 1], c)
           h == [f[N].hcr[c] EXCEPT !.eoicount = 0]
           s3 == [f[N] EXCEPT !.hcr[c].eoicount = 0]
<1>1. Fit(s1, Nil) /\ NUM_LRS \in LrCounts
    BY FitTrappedEoir DEF GicInv
<1> HIDE DEF s1
<1>2. Fit(s2, Nil)
    <2>1. Fit(p.s, Nil)
        BY <1>1, FitRefillLrs
    <2> QED
        BY <1>1, <2>1
<1> HIDE DEF s2
<1>3. N \in Nat
    BY <1>2 DEF Fit, Sane, Vgics, HcrTypes
<1> HIDE DEF N
<1>4. Fit(f[N], Nil)
    BY <1>1, <1>2, <1>3, FitEois
<1> HIDE DEF f
<1>5. Fit(s3, Nil)
    <2> DEFINE u == f[N]
    <2>0. Sane(u) /\ u.hcr[c] \in HcrTypes
        BY <1>4 DEF Fit, Sane, Vgics
    <2>1. h \in HcrTypes
        BY <2>0 DEF HcrTypes
    <2>2. s3 = [u EXCEPT !.hcr[c] = h]
        OBVIOUS
    <2> HIDE DEF h, s3, u
    <2>3. Sane(s3)
        BY <2>0, <2>1, <2>2, SetHcr
    <2>4. /\ s3.int = u.int /\ s3.lr = u.lr /\ s3.phys = u.phys /\ s3.list = u.list
          /\ s3.msg = u.msg /\ s3.spilt = u.spilt
        BY <2>0, <2>2 DEF Sane, Vgics
    <2> QED
        BY <1>4, <2>3, <2>4, FitSame DEF u
<1> HIDE DEF s3
<1>6. g' = IF "LRENP" \in misr THEN s3 ELSE s2
    BY DEF gic_maintenance_handler, s3, f, N, s2, s1
<1>7. UNCHANGED <<platform, serving, inputs>>
    BY DEF gic_maintenance_handler
<1> QED
    BY <1>2, <1>5, <1>6, <1>7, InvKept DEF GicInv

LrSet(s, t, c, n, v) == t = [s EXCEPT !.lr[c][n] = v]

\* The guest changes the state of a list register it has an interrupt in.
LEMMA FitLr ==
    ASSUME NEW s, Fit(s, Nil), NEW c \in Cpus, NEW n \in Lrs, NEW v \in LrTypes,
           LrInv(v, s.curr[c][n]), s.lr[c][n].state # {}, v.id = s.lr[c][n].id,
           v.hw = s.lr[c][n].hw, v.eoi = s.lr[c][n].eoi,
           NEW t, LrSet(s, t, c, n, v)
    PROVE  Fit(t, Nil)
<1>0. Sane(s) /\ Sane(t)
    BY SetLr DEF Fit, LrSet
<1>1. PICK k \in Keys : k = Key(c, v.id)
    <2>1. v.id \in Ids
        BY <1>0 DEF Sane, LrInv
    <2> QED
        BY <2>1, KeyType
<1>2. /\ t.int = s.int /\ t.phys = s.phys /\ t.msg = s.msg /\ t.list = s.list
      /\ t.spilt = s.spilt /\ t.lr = [s.lr EXCEPT ![c] = [s.lr[c] EXCEPT ![n] = v]]
    BY <1>0 DEF Sane, Vgics, LrSet
<1>3. /\ t.lr[c][n] = v
      /\ \A d \in Cpus, m \in Lrs : ~(d = c /\ m = n) => t.lr[d][m] = s.lr[d][m]
    <2>1. s.lr \in [Cpus -> [Lrs -> LrTypes]]
        BY <1>0 DEF Sane, Vgics
    <2> QED
        BY <1>2, <2>1
<1>4. ASSUME Quiet(s)
      PROVE  /\ Kept(t, k)
             /\ \A d \in Cpus, m \in Lrs : LrFor(s, t, d, m, k)
             /\ \A d \in Cpus, m \in Lrs : k \in HwKeys /\ Holds(t, d, m, k) => Named(t, d, m, k)
    <2>1. Kept(t, k)
        BY <1>2, <1>4 DEF Quiet, Kept
    <2>2. Tied(v)
        BY <1>4 DEF Quiet, Tied
    <2>3. \A d \in Cpus, m \in Lrs : LrFor(s, t, d, m, k)
        BY <1>1, <1>3, <2>2 DEF LrFor, Holds
    <2>4. ASSUME NEW d \in Cpus, NEW m \in Lrs, k \in HwKeys, Holds(t, d, m, k)
          PROVE  Named(t, d, m, k)
        <3>1. Holds(s, d, m, k)
            BY <1>3, <2>4 DEF Holds
        <3>2. Named(s, d, m, k)
            BY <1>4, <2>4, <3>1 DEF Quiet
        <3> QED
            BY <1>2, <3>2 DEF Named
    <2> QED
        BY <2>1, <2>3, <2>4
<1>5. Fit(t, k)
    <2>1. Fit(s, k)
        BY FitFor
    <2>2. \A j \in Keys \ {k} : t.int[j] = s.int[j] /\ (j \in HwKeys => t.phys[j] = s.phys[j])
        BY <1>2
    <2>3. t.spilt = s.spilt /\ t.list = s.list /\ t.msg = s.msg
        BY <1>2
    <2>4. Sane(t)
        BY <1>0
    <2>5. ~s.spilt /\ Quiet(s) =>
              /\ Kept(t, k)
              /\ \A d \in Cpus, m \in Lrs : LrFor(s, t, d, m, k)
              /\ \A d \in Cpus, m \in Lrs : k \in HwKeys /\ Holds(t, d, m, k) => Named(t, d, m, k)
        BY <1>4
    <2> QED
        BY <2>1, <2>2, <2>3, <2>4, <2>5, FitAt
<1>6. ~t.spilt => Waits(t, k)
    <2>1. k # Nil
        BY <1>1, KeysAre, CpusAre, VgicAssumption DEF Nil, None, Ids
    <2> QED
        BY <1>2, <2>1 DEF Fit, Waits
<1> QED
    BY <1>5, <1>6, FitNil

\* The state of a device's interrupt may change once no vCPU has it.
LEMMA FitEnd ==
    ASSUME NEW s, Fit(s, Nil), NEW k \in HwKeys, NEW st \in States,
           ~s.spilt /\ Quiet(s) => /\ s.int[k].state = {}
                                   /\ \A d \in Cpus, m \in Lrs : ~Holds(s, d, m, k)
    PROVE  Fit(PhysSetState(s, k, st), Nil)
<1> DEFINE p == [s.phys[k] EXCEPT !.state = st]
<1>0. Sane(s) /\ k \in Keys /\ s.phys[k] \in PhysTypes
    BY DEF Fit, Sane, Vgics, HwKeys
<1>1. p \in PhysTypes /\ p.tgt = s.phys[k].tgt
    BY <1>0 DEF PhysTypes
<1>2. PICK t : t = [s EXCEPT !.phys[k] = p]
    OBVIOUS
<1> HIDE DEF p
<1>3. Sane(t)
    BY <1>0, <1>1, <1>2, SetPhys
<1>4. /\ t.int = s.int /\ t.lr = s.lr /\ t.msg = s.msg /\ t.list = s.list /\ t.spilt = s.spilt
      /\ t.phys[k] = p /\ \A j \in HwKeys \ {k} : t.phys[j] = s.phys[j]
    BY <1>0, <1>2 DEF Sane, Vgics
<1>5. ASSUME ~s.spilt, Quiet(s)
      PROVE  /\ Kept(t, k)
             /\ \A d \in Cpus, m \in Lrs : LrFor(s, t, d, m, k)
             /\ \A d \in Cpus, m \in Lrs : k \in HwKeys /\ Holds(t, d, m, k) => Named(t, d, m, k)
    <2>1. Kept(s, k)
        BY <1>0, <1>5 DEF Quiet
    <2> QED
        BY <1>1, <1>4, <1>5, <2>1 DEF Kept, LrFor, Holds
<1>6. Fit(t, k)
    <2>1. Fit(s, k)
        BY FitFor
    <2> QED
        BY <1>0, <1>3, <1>4, <1>5, <2>1, FitAt
<1>7. ~t.spilt => Waits(t, k)
    <2>1. k # Nil
        BY <1>0, KeysAre, CpusAre, VgicAssumption DEF Nil, None, Ids
    <2> QED
        BY <1>0, <1>4, <2>1 DEF Fit, Waits
<1>8. Fit(t, Nil)
    BY <1>6, <1>7, FitNil
<1> QED
    BY <1>2, <1>8 DEF PhysSetState, p

\* The guest acknowledges an interrupt.
LEMMA InvAcknowledge ==
    ASSUME GicInv, NEW c \in Cpus, NEW n \in Lrs, Acknowledge(c, n)
    PROVE  GicInv'
<1> DEFINE v == [g.lr[c][n] EXCEPT !.state = {"A"}]
<1>1. Fit(g, Nil) /\ Sane(g) /\ serving \in [Cpus -> SUBSET Ids]
    BY DEF GicInv, Fit
<1>2. g.lr[c][n] \in LrTypes /\ LrInv(g.lr[c][n], g.curr[c][n])
    BY <1>1 DEF Sane, Vgics
<1>3. g.lr[c][n].state = {"P"}
    BY DEF Acknowledge
<1>4. /\ v \in LrTypes /\ LrInv(v, g.curr[c][n]) /\ g.lr[c][n].id \in Ids
      /\ v.id = g.lr[c][n].id /\ v.hw = g.lr[c][n].hw /\ v.eoi = g.lr[c][n].eoi
    BY <1>2, <1>3 DEF LrTypes, LrInv, States
<1>5. g' = [g EXCEPT !.lr[c][n] = v]
    BY DEF Acknowledge
<1> HIDE DEF v
<1>9. PICK t : t = g'
    OBVIOUS
<1>6. Fit(t, Nil)
    BY <1>1, <1>3, <1>4, <1>5, <1>9, FitLr DEF LrSet
<1>7. serving' \in [Cpus -> SUBSET Ids]
    BY <1>1, <1>4 DEF Acknowledge
<1>8. UNCHANGED <<platform, inputs>>
    BY DEF Acknowledge
<1> QED
    BY <1>6, <1>7, <1>8, <1>9, InvKept DEF GicInv

\* The guest ends an interrupt, in a list register or not.
LEMMA InvEoi ==
    ASSUME GicInv, NEW c \in Cpus, NEW i \in Ids, Eoi(c, i)
    PROVE  GicInv'
<1> DEFINE held == {n \in Lrs : g.lr[c][n].id = i /\ "A" \in g.lr[c][n].state}
           k == Key(c, i)
           h == [g.hcr[c] EXCEPT !.eoicount = @ + 1]
           v(n) == [g.lr[c][n] EXCEPT !.state = @ \ {"A"}]
<1>1. Fit(g, Nil) /\ Sane(g) /\ serving \in [Cpus -> SUBSET Ids]
    BY DEF GicInv, Fit
<1>2. ASSUME held = {} PROVE Fit(g', Nil)
    <2>0. g.hcr[c] \in HcrTypes
        BY <1>1 DEF Sane, Vgics
    <2>1. h \in HcrTypes
        BY <2>0 DEF HcrTypes
    <2>2. g' = [g EXCEPT !.hcr[c] = h]
        BY <1>2 DEF Eoi
    <2> HIDE DEF h
    <2>3. PICK t : t = [g EXCEPT !.hcr[c] = h]
        OBVIOUS
    <2>4. Sane(t)
        BY <1>1, <2>1, <2>3, SetHcr
    <2>5. /\ t.int = g.int /\ t.lr = g.lr /\ t.phys = g.phys /\ t.list = g.list
          /\ t.msg = g.msg /\ t.spilt = g.spilt
        BY <1>1, <2>3 DEF Sane, Vgics
    <2>6. Fit(t, Nil)
        BY <1>1, <2>4, <2>5, FitSame
    <2> QED
        BY <2>2, <2>3, <2>6
<1>3. ASSUME held # {} PROVE Fit(g', Nil)
    <2>1. PICK n \in held : g' = IF g.lr[c][n].hw
                THEN [g EXCEPT !.lr[c][n].state = @ \ {"A"}, !.phys[k].state = @ \ {"A"}]
                ELSE [g EXCEPT !.lr[c][n].state = @ \ {"A"}]
        BY <1>3 DEF Eoi
    <2> DEFINE s == [g EXCEPT !.lr[c][n] = v(n)]
    <2>2. /\ g.lr[c][n] \in LrTypes /\ LrInv(g.lr[c][n], g.curr[c][n])
          /\ n \in Lrs /\ g.lr[c][n].id = i /\ "A" \in g.lr[c][n].state
        BY <1>1 DEF Sane, Vgics
    <2>3. /\ v(n) \in LrTypes /\ LrInv(v(n), g.curr[c][n]) /\ v(n).id = g.lr[c][n].id
          /\ v(n).hw = g.lr[c][n].hw /\ v(n).eoi = g.lr[c][n].eoi
          /\ v(n).hw => v(n).state = {}
        <3>1. g.lr[c][n].state \in {{"A"}, {"P", "A"}}
            BY <2>2 DEF LrTypes, States
        <3>2. v(n).state \in {{}, {"P"}} /\ (v(n).state = {"P"} => g.lr[c][n].state = {"P", "A"})
            BY <2>2, <3>1 DEF LrTypes
        <3>3. v(n) \in LrTypes
            BY <2>2, <3>2 DEF LrTypes, States
        <3>4. /\ v(n).hw = g.lr[c][n].hw /\ v(n).id = g.lr[c][n].id
              /\ v(n).eoi = g.lr[c][n].eoi /\ v(n).cpuid = g.lr[c][n].cpuid
            BY <2>2 DEF LrTypes
        <3> HIDE DEF v
        <3>5. v(n).state # {"P", "A"} /\ g.lr[c][n].state # {}
            BY <3>1, <3>2
        <3> DEFINE u == v(n)
                   o == g.lr[c][n]
        <3>6. /\ o.hw => o.id \in Hw \ SGIs
              /\ g.curr[c][n] = o.id /\ o.id \in Ids
              /\ V2 /\ o.id \in SGIs => o.state # {"P", "A"}
              /\ o.hw => o.state # {"P", "A"}
            BY <2>2, <3>5 DEF LrInv
        <3>7. /\ u.hw = o.hw /\ u.id = o.id /\ u.eoi = o.eoi /\ u.cpuid = o.cpuid
              /\ u.state # {"P", "A"} /\ (u.state = {"P"} => o.state = {"P", "A"})
              /\ u.state \in {{}, {"P"}}
            BY <3>2, <3>4, <3>5
        <3> HIDE DEF u, o
        <3>8. LrInv(u, g.curr[c][n])
            BY <3>6, <3>7 DEF LrInv
        <3>9. u.hw => u.state = {}
            BY <3>6, <3>7
        <3> QED
            BY <3>3, <3>4, <3>8, <3>9 DEF u, o
    <2>4. PICK t : t = s
        OBVIOUS
    <2>a. g.lr[c][n].state # {}
        BY <2>2
    <2>b. PICK x : x = v(n)
        OBVIOUS
    <2> HIDE DEF v
    <2>5. Fit(t, Nil)
        BY <1>1, <2>2, <2>3, <2>4, <2>a, <2>b, FitLr DEF LrSet
    <2>6. CASE g.lr[c][n].hw
        <3>1. k \in HwKeys
            BY <2>2, <2>6, KeyType DEF LrInv, HwKeys, vgic_int_is_hw
        <3>2. /\ t.int = g.int /\ t.phys = g.phys /\ t.spilt = g.spilt
              /\ t.lr = [g.lr EXCEPT ![c] = [g.lr[c] EXCEPT ![n] = x]]
            BY <1>1, <2>4, <2>b DEF Sane, Vgics
        <3>3. /\ t.lr[c][n] = x
              /\ \A d \in Cpus, m \in Lrs : ~(d = c /\ m = n) => t.lr[d][m] = g.lr[d][m]
            <4>1. g.lr \in [Cpus -> [Lrs -> LrTypes]]
                BY <1>1 DEF Sane, Vgics
            <4> QED
                BY <2>2, <3>2, <4>1
        <3>4. g' = PhysSetState(t, k, t.phys[k].state \ {"A"})
            BY <2>1, <2>4, <2>6 DEF PhysSetState, v
        <3> HIDE DEF s
        <3>5. ASSUME ~t.spilt, Quiet(t)
              PROVE  /\ t.int[k].state = {}
                     /\ \A d \in Cpus, m \in Lrs : ~Holds(t, d, m, k)
            <4>1. Quiet(g) /\ Holds(g, c, n, k)
                BY <1>1, <2>2, <2>6, <2>a, <3>2, <3>5 DEF Fit, Holds
            <4>2. Named(g, c, n, k)
                BY <2>2, <3>1, <4>1 DEF Quiet
            <4>3. t.int[k].state = {}
                BY <3>1, <3>2, <4>1, <4>2 DEF Quiet, Kept, Named, HwKeys, vgic_int_is_hw
            <4>4. ASSUME NEW d \in Cpus, NEW m \in Lrs, Holds(t, d, m, k) PROVE FALSE
                <5>1. ~(d = c /\ m = n)
                    BY <2>3, <2>6, <2>b, <3>3, <4>4 DEF Holds
                <5>2. Named(g, d, m, k)
                    BY <3>1, <3>3, <4>1, <4>4, <5>1 DEF Quiet, Holds
                <5> QED
                    BY <4>2, <5>1, <5>2 DEF Named
            <4> QED
                BY <4>3, <4>4
        <3> HIDE DEF k
        <3>6. t.phys[k].state \ {"A"} \in States
            BY <2>5, <3>1 DEF Fit, Sane, Vgics, PhysTypes, States
        <3> QED
            BY <2>5, <3>1, <3>4, <3>5, <3>6, FitEnd
    <2>7. CASE ~g.lr[c][n].hw
        BY <2>1, <2>4, <2>5, <2>7 DEF v
    <2> QED
        BY <2>6, <2>7
<1>4. Fit(g', Nil)
    BY <1>2, <1>3
<1>5. serving' \in [Cpus -> SUBSET Ids] /\ UNCHANGED <<platform, inputs>>
    BY <1>1 DEF Eoi
<1> QED
    BY <1>4, <1>5, InvKept DEF GicInv

\* Every step keeps the invariant.
LEMMA InvNext == GicInv /\ [Next]_vars => GicInv'
<1> SUFFICES ASSUME GicInv, [Next]_vars PROVE GicInv'
    OBVIOUS
<1>1. CASE UNCHANGED vars
    BY <1>1, InvKept DEF vars, platform, GicInv
<1>2. ASSUME NEW c \in Cpus, NEW d \in Cpus, NEW w \in Writes, vgicd_emul_handler(c, d, w)
      PROVE  GicInv'
    BY <1>2, InvWrite
<1>3. ASSUME NEW c \in Cpus, NEW on \in BOOLEAN, vgicd_emul_misc_access(c, on)
      PROVE  GicInv'
    BY <1>3, InvCtlr
<1>4. ASSUME NEW c \in Cpus, NEW w \in SgiWrites, NEW i \in SGIs,
             vgicd_emul_sgiregs_access(c, w, i)
      PROVE  GicInv'
    BY <1>4, InvSgi
<1>5. ASSUME NEW c \in Cpus, NEW i \in SPIs \ Hw, InjectVirq(c, i)
      PROVE  GicInv'
    BY <1>5, InvInject
<1>6. ASSUME NEW k \in DOMAIN g.phys, Device(k)
      PROVE  GicInv'
    BY <1>6, InvDevice
<1>7. ASSUME NEW c \in Cpus, NEW k \in DOMAIN g.phys, gic_handle(c, k)
      PROVE  GicInv'
    BY <1>7, InvHandle
<1>8. ASSUME NEW c \in Cpus, HandleMsg(c)
      PROVE  GicInv'
    BY <1>8, InvMsg
<1>9. ASSUME NEW c \in Cpus, gic_maintenance_handler(c)
      PROVE  GicInv'
    BY <1>9, InvMaintenance
<1>10. ASSUME NEW c \in Cpus, NEW n \in Lrs, Acknowledge(c, n)
       PROVE  GicInv'
    BY <1>10, InvAcknowledge
<1>11. ASSUME NEW c \in Cpus, NEW i \in Ids, Eoi(c, i)
       PROVE  GicInv'
    BY <1>11, InvEoi
<1> QED
    BY <1>1, <1>2, <1>3, <1>4, <1>5, <1>6, <1>7, <1>8, <1>9, <1>10, <1>11 DEF Next

\* The invariant holds in every reachable state.
LEMMA GicAlways == Spec => []GicInv
BY InvInit, InvNext, PTL DEF Spec

\* However the guest reconfigures and moves an interrupt, on any number of cores
\* and with any number of list registers, of interrupts, of priorities and of
\* inputs, an interrupt that is kept as active has an owner, and curr_lrs names
\* what a list register in use holds (vgic_get_ownership, vgic_yield_ownership).
THEOREM ActiveKeepsAnOwner == Spec => []ActiveKeepsOwner
BY GicAlways, InvIsEnough, PTL

\* No device is presented in two list registers: both would be the one its
\* interrupt names.
LEMMA InvDevices == GicInv => DevicePresentedOnce
<1> SUFFICES ASSUME GicInv PROVE DevicePresentedOnce
    OBVIOUS
<1>0. Sane(g) /\ g \in Vgics
    BY DEF GicInv, Fit, Sane
<1>1. SUFFICES ASSUME ~g.spilt, Quiet(g)
               PROVE  DeviceInOneLr /\ DeviceHeldWhileLive
    BY DEF GicInv, Fit, DevicePresentedOnce, DeviceInOneLr, DeviceHeldWhileLive
<1>2. DOMAIN g.phys = HwKeys
    BY <1>0 DEF Vgics
<1>3. DeviceInOneLr
    <2> SUFFICES ASSUME NEW k \in HwKeys
                 PROVE  Cardinality({p \in Cpus \X Lrs :
                            Key(p[1], k[2]) = k /\ p[2] \in Live(p[1], k[2])}) <= 1
        BY <1>2 DEF DeviceInOneLr
    <2> DEFINE held == {p \in Cpus \X Lrs : Key(p[1], k[2]) = k /\ p[2] \in Live(p[1], k[2])}
               one  == <<g.int[k].owner, g.int[k].lr>>
    <2>1. ASSUME NEW p \in held PROVE p = one
        <3>1. /\ p[1] \in Cpus /\ p[2] \in Lrs /\ p = <<p[1], p[2]>>
              /\ Key(p[1], k[2]) = k
              /\ g.lr[p[1]][p[2]].id = k[2] /\ g.lr[p[1]][p[2]].state # {}
            BY DEF Live
        <3>2. k[2] \in Hw \ SGIs
            BY DEF HwKeys, vgic_int_is_hw
        <3>3. Holds(g, p[1], p[2], k)
            BY <1>1, <3>1, <3>2 DEF Quiet, Tied, Holds
        <3>4. Named(g, p[1], p[2], k)
            BY <1>1, <3>1, <3>3 DEF Quiet
        <3> QED
            BY <3>1, <3>4 DEF Named
    <2>2. held \subseteq {one}
        BY <2>1
    <2> HIDE DEF held, one
    <2>3. IsFiniteSet({one}) /\ Cardinality({one}) = 1
        BY FS_Singleton
    <2>4. Cardinality(held) <= 1
        BY <2>2, <2>3, FS_Subset
    <2> QED
        BY <2>4 DEF held
<1>4. DeviceHeldWhileLive
    <2> SUFFICES ASSUME NEW c \in Cpus, NEW n \in Lrs, g.lr[c][n].hw, g.lr[c][n].state # {}
                 PROVE  "A" \in g.phys[Key(c, g.lr[c][n].id)].state
        BY DEF DeviceHeldWhileLive
    <2>1. PICK k \in Keys : k = Key(c, g.lr[c][n].id)
        <3>1. g.lr[c][n].id \in Ids
            BY <1>0 DEF Sane, LrInv
        <3> QED
            BY <3>1, KeyType
    <2>2. Holds(g, c, n, k)
        BY <2>1 DEF Holds
    <2>3. Named(g, c, n, k)
        BY <1>0, <1>1, <2>2, HoldsHw
    <2> QED
        BY <2>1, <2>3 DEF Named
<1> QED
    BY <1>3, <1>4

\* However the guest reconfigures, moves and ends its interrupts, on any number
\* of cores and with any number of list registers, of interrupts, of priorities
\* and of inputs: as long as no interrupt has been spilled, the interrupt of a
\* device is in the list register of one vCPU at most, and the physical
\* interrupt is active until the vCPU has ended it, so that the device cannot
\* raise it again (vgic_write_lr, vgic_remove_lr, vgic_inject_hw).
THEOREM DevicesPresentedOnce == Spec => []DevicePresentedOnce
BY GicAlways, InvDevices, PTL

\* A pending interrupt is owned by no core, and one of its targets is asked.
LEMMA InvPending == GicInv => PendingIsOnItsWay
<1> SUFFICES ASSUME GicInv, ~g.spilt, NEW k \in Keys,
                    k[2] \in SPIs, g.int[k].state = {"P"}, g.int[k].enabled, g.int[k].tgt # {}
             PROVE  \E c \in Cpus : \E n \in DOMAIN g.msg[c] :
                        g.msg[c][n].ev = "ROUTE" /\ g.msg[c][n].id = k[2]
    BY DEF PendingIsOnItsWay
<1>1. k # Nil
    BY KeysAre, CpusAre, VgicAssumption DEF Nil, None, Ids
<1>2. Waits(g, k) /\ g.int[k].tgt \subseteq Cpus
    BY <1>1 DEF GicInv, Fit, Sane, Vgics, IntTypes
<1> QED
    BY <1>2 DEF Waits

\* As long as no interrupt has been spilled, an enabled shared interrupt with a
\* target that is pending and in no list register is asked for: one of its
\* targets has a message to take it. None is forgotten between the injection or
\* the write that makes it pending or moves it and the vCPU that takes it
\* (vgic_route, vgic_ipi_handler, vgic_yield_ownership).
THEOREM PendingIsAlwaysOnItsWay == Spec => []PendingIsOnItsWay
BY GicAlways, InvPending, PTL
=============================================================================
