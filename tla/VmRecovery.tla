----------------------------- MODULE VmRecovery -----------------------------
(***************************************************************************)
(* Restart of a failed VM: vm_recovery_start, vm_recovery_execute,         *)
(* vm_recovery_slave_execute and vm_recovery_msg_handler of                *)
(* src/core/vm_recovery.c, started from health_monitor_check of            *)
(* src/core/health_monitor.c by whichever core of the VM finds the         *)
(* heartbeat overdue, and followed by all of them together.                *)
(*                                                                         *)
(* vm->health is shared by the cores of the VM and no lock protects it:    *)
(* each access is a step.  The three barriers are the abstract barrier     *)
(* that CpuSync.tla is proved to implement.  A message and its interrupt   *)
(* are one step here (CpuMsg.tla has them apart), and whether a heartbeat  *)
(* is overdue is left open (HealthMonitor.tla has the clock).              *)
(***************************************************************************)
EXTENDS Integers, Sequences, FiniteSets

CONSTANTS
    Cpus,           \* the cores of the VM
    Master,         \* vm->master: the core that won the allocation of the VM
    Running,        \* cores whose guest has been started when the story begins
    max_missed,     \* vm->health.max_missed
    max_recoveries, \* config: 0 for no limit
    MaxMissedCount, \* bound: overdue checks that are followed
    MaxHartStarts   \* bound: hart starts the guests ask for

ASSUME RecoveryAssumption ==
    /\ IsFiniteSet(Cpus)
    /\ Master \in Cpus
    /\ Running \subseteq Cpus
    /\ {max_missed, max_recoveries, MaxMissedCount, MaxHartStarts} \subseteq Nat
    /\ max_missed > 0

VARIABLES
    vcpu0,          \* the core whose vCPU has id 0, which is the VM's core with
                    \* the lowest id, be it the master or not; never changes
    status,         \* vm->health.status
    missed_count,   \* vm->health.missed_count
    recovery_count, \* vm->health.recovery_count
    event_list,     \* message queue of each core: VM_RESET or HART_START
    msip,           \* an IPI to the core that its firmware has not forwarded
    ssip,           \* software interrupt pending on the core
    state,          \* vcpu->arch.sbi_ctx.state
    pc,             \* where the core is
    path,           \* how it came into cpu_msg_handler: "trap" or "idle"
    prev,           \* local prev of health_monitor_check
    cnt,            \* register with the counter the core has loaded
    todo,           \* cores vm_msg_broadcast still has to send to
    entered,        \* vm->sync: barriers of vm->sync the core has entered
    leading,        \* history: the core began a recovery that is not over
    doubled,        \* history: a recovery was begun while another was not over
    images,         \* history: how often the image was installed
    resets,         \* history: how often the vCPU was reset
    hartStarts      \* number of hart starts asked for so far

health == <<status, missed_count, recovery_count>>
msgs   == <<event_list, msip, ssip>>
locals == <<prev, cnt, todo>>
ghosts == <<leading, doubled, images, resets>>
vars   == <<vcpu0, status, missed_count, recovery_count, event_list, msip, ssip,
            state, pc, path, prev, cnt, todo, entered, leading,
            doubled, images, resets, hartStarts>>

CheckPcs    == {"elapsed", "missed", "judge"}
StartPcs    == {"start", "recovering", "mark", "count", "broadcast"}
RecoveryPcs == {"begin", "stopped", "image", "imaged", "reset"}
PcValues    == {"guest", "idle", "heartbeat", "pop", "ack"}
                   \cup CheckPcs \cup StartPcs \cup RecoveryPcs

Goto(c, label) == pc' = [pc EXCEPT ![c] = label]

\* vcpu_run: into the guest if the hart is started, to sleep if it is not.
RunPc(c) == IF state[c] = "STARTED" THEN "guest" ELSE "idle"

-----------------------------------------------------------------------------
\* A monitored VM after boot: the harts in Running execute, the others idle.
Init ==
    /\ vcpu0 \in Cpus
    /\ status = "HEALTHY"
    /\ missed_count = 0
    /\ recovery_count = 0
    /\ event_list = [c \in Cpus |-> <<>>]
    /\ msip = [c \in Cpus |-> FALSE]
    /\ ssip = [c \in Cpus |-> FALSE]
    /\ state = [c \in Cpus |-> IF c \in Running THEN "STARTED" ELSE "STOPPED"]
    /\ pc = [c \in Cpus |-> IF c \in Running THEN "guest" ELSE "idle"]
    /\ path = [c \in Cpus |-> "idle"]
    /\ prev = [c \in Cpus |-> "HEALTHY"]
    /\ cnt = [c \in Cpus |-> 0]
    /\ todo = [c \in Cpus |-> {}]
    /\ entered = [c \in Cpus |-> 0]
    /\ leading = [c \in Cpus |-> FALSE]
    /\ doubled = FALSE
    /\ images = 0
    /\ resets = [c \in Cpus |-> 0]
    /\ hartStarts = 0

\* The guest executes: a pending software interrupt would be taken first, and
\* before a timer interrupt.
GuestRuns(c) == pc[c] = "guest" /\ ~ssip[c]

\* health_monitor_heartbeat: last_heartbeat and missed_count.  If the status is
\* read as HEALTHY it is left alone ...
health_monitor_heartbeat(c) ==
    /\ GuestRuns(c)
    /\ missed_count' = 0
    /\ \/ Goto(c, "heartbeat")
       \/ status = "HEALTHY" /\ UNCHANGED pc
    /\ UNCHANGED <<vcpu0, status, recovery_count, msgs, state, path, locals,
                   entered, ghosts, hartStarts>>

\* ... else set, whatever it is by now.
HeartbeatStatus(c) ==
    /\ pc[c] = "heartbeat"
    /\ status' = "HEALTHY"
    /\ Goto(c, "guest")
    /\ UNCHANGED <<vcpu0, missed_count, recovery_count, msgs, state, path,
                   locals, entered, ghosts, hartStarts>>

\* health_monitor_check in the timer interrupt: not while RECOVERING.  The
\* status read here may be the one the compiler uses as prev further down.
health_monitor_check(c) ==
    /\ GuestRuns(c)
    /\ status # "RECOVERING"
    /\ prev' = [prev EXCEPT ![c] = status]
    /\ Goto(c, "elapsed")
    /\ UNCHANGED <<vcpu0, health, msgs, state, path, cnt, todo, entered,
                   ghosts, hartStarts>>

\* The heartbeat is on time, or missed_count is loaded to be incremented.
Elapsed(c) ==
    /\ pc[c] = "elapsed"
    /\ \/ Goto(c, "guest") /\ UNCHANGED cnt
       \/ /\ missed_count < MaxMissedCount
          /\ cnt' = [cnt EXCEPT ![c] = missed_count]
          /\ Goto(c, "missed")
    /\ UNCHANGED <<vcpu0, health, msgs, state, path, prev, todo, entered,
                   ghosts, hartStarts>>

\* missed_count++ and prev = status, read again or kept in a register.
Missed(c) ==
    /\ pc[c] = "missed"
    /\ missed_count' = cnt[c] + 1
    /\ \E s \in {prev[c], status} : prev' = [prev EXCEPT ![c] = s]
    /\ Goto(c, "judge")
    /\ UNCHANGED <<vcpu0, status, recovery_count, msgs, state, path, cnt,
                   todo, entered, ghosts, hartStarts>>

\* UNHEALTHY after max_missed misses, and recovery on the transition only;
\* SUSPECT before.
Judge(c) ==
    /\ pc[c] = "judge"
    /\ IF cnt[c] + 1 >= max_missed
       THEN /\ status' = "UNHEALTHY"
            /\ Goto(c, IF prev[c] # "UNHEALTHY" THEN "start" ELSE "guest")
       ELSE /\ status' = "SUSPECT"
            /\ Goto(c, "guest")
    /\ UNCHANGED <<vcpu0, missed_count, recovery_count, msgs, state, path,
                   locals, entered, ghosts, hartStarts>>

-----------------------------------------------------------------------------
\* Mutant of vm_recovery_start: one recovery too many.
LimitOffByOne(c) ==
    /\ pc[c] = "start"
    /\ IF max_recoveries > 0 /\ recovery_count > max_recoveries
       THEN Goto(c, "guest") /\ UNCHANGED cnt
       ELSE Goto(c, "recovering") /\ cnt' = [cnt EXCEPT ![c] = recovery_count]
    /\ UNCHANGED <<vcpu0, health, msgs, state, path, prev, todo, entered,
                   ghosts, hartStarts>>

\* vm_recovery_start: the limit ...
vm_recovery_start(c) ==
    /\ pc[c] = "start"
    /\ IF max_recoveries > 0 /\ recovery_count >= max_recoveries
       THEN Goto(c, "guest") /\ UNCHANGED cnt
       ELSE Goto(c, "recovering") /\ cnt' = [cnt EXCEPT ![c] = recovery_count]
    /\ UNCHANGED <<vcpu0, health, msgs, state, path, prev, todo, entered,
                   ghosts, hartStarts>>

\* ... the test against re-entrance ...
TestRecovering(c) ==
    /\ pc[c] = "recovering"
    /\ Goto(c, IF status = "RECOVERING" THEN "guest" ELSE "mark")
    /\ UNCHANGED <<vcpu0, health, msgs, state, path, locals, entered, ghosts,
                   hartStarts>>

\* ... status = VM_RECOVERING ...
MarkRecovering(c) ==
    /\ pc[c] = "mark"
    /\ status' = "RECOVERING"
    /\ leading' = [leading EXCEPT ![c] = TRUE]
    /\ doubled' = (doubled \/ \E d \in Cpus : leading[d])
    /\ Goto(c, "count")
    /\ UNCHANGED <<vcpu0, missed_count, recovery_count, msgs, state, path,
                   locals, entered, images, resets, hartStarts>>

\* ... and recovery_count++, on the value loaded above or on a fresh one.
CountRecovery(c) ==
    /\ pc[c] = "count"
    /\ recovery_count' \in {cnt[c] + 1, recovery_count + 1}
    /\ todo' = [todo EXCEPT ![c] = Cpus \ {c}]
    /\ Goto(c, "broadcast")
    /\ UNCHANGED <<vcpu0, status, missed_count, msgs, state, path, prev, cnt,
                   entered, ghosts, hartStarts>>

\* cpu_send_msg: append to the target's list and send it an IPI.
SendMsg(t, m) ==
    /\ event_list' = [event_list EXCEPT ![t] = Append(@, m)]
    /\ msip' = [msip EXCEPT ![t] = TRUE]
    /\ UNCHANGED ssip

\* Mutant of vm_msg_broadcast: the loop ends one core short.
BroadcastShort(c) ==
    /\ pc[c] = "broadcast"
    /\ \/ \E t \in todo[c] :
            /\ todo[c] # {t}
            /\ SendMsg(t, "VM_RESET")
            /\ todo' = [todo EXCEPT ![c] = @ \ {t}]
            /\ UNCHANGED pc
       \/ /\ Cardinality(todo[c]) <= 1
          /\ Goto(c, "begin")
          /\ UNCHANGED <<msgs, todo>>
    /\ UNCHANGED <<vcpu0, health, state, path, prev, cnt, entered, ghosts,
                   hartStarts>>

\* vm_msg_broadcast: VM_RESET to every other core of the VM, one by one, and
\* then into the recovery as master or slave.
vm_msg_broadcast(c) ==
    /\ pc[c] = "broadcast"
    /\ \/ \E t \in todo[c] :
            /\ SendMsg(t, "VM_RESET")
            /\ todo' = [todo EXCEPT ![c] = @ \ {t}]
            /\ UNCHANGED pc
       \/ /\ todo[c] = {}
          /\ Goto(c, "begin")
          /\ UNCHANGED <<msgs, todo>>
    /\ UNCHANGED <<vcpu0, health, state, path, prev, cnt, entered, ghosts,
                   hartStarts>>

-----------------------------------------------------------------------------
\* cpu_sync_barrier(&vm->sync): entering and being let out.
Enter(c) == entered' = [entered EXCEPT ![c] = @ + 1]
MayLeave(c) == \A q \in Cpus : entered[q] >= entered[c]

\* vm_recovery_execute / vm_recovery_slave_execute: stopped, first barrier.
StopVcpu(c) ==
    /\ pc[c] = "begin"
    /\ Enter(c)
    /\ Goto(c, "stopped")
    /\ UNCHANGED <<vcpu0, health, msgs, state, path, locals, ghosts,
                   hartStarts>>

\* Mutant of AllStopped: the first barrier is missing.
NotAllStopped(c) ==
    /\ pc[c] = "stopped"
    /\ IF c = Master THEN Goto(c, "image") /\ UNCHANGED entered
                     ELSE Goto(c, "imaged") /\ Enter(c)
    /\ UNCHANGED <<vcpu0, health, msgs, state, path, locals, ghosts,
                   hartStarts>>

\* All have stopped: the master re-installs the image, a slave goes on to the
\* second barrier.
AllStopped(c) ==
    /\ pc[c] = "stopped"
    /\ MayLeave(c)
    /\ IF c = Master THEN Goto(c, "image") /\ UNCHANGED entered
                     ELSE Goto(c, "imaged") /\ Enter(c)
    /\ UNCHANGED <<vcpu0, health, msgs, state, path, locals, ghosts,
                   hartStarts>>

\* vm_reinstall_image, and the master's second barrier.
vm_reinstall_image(c) ==
    /\ pc[c] = "image"
    /\ images' = images + 1
    /\ Enter(c)
    /\ Goto(c, "imaged")
    /\ UNCHANGED <<vcpu0, health, msgs, state, path, locals, leading, doubled,
                   resets, hartStarts>>

\* The registers of the vCPU and of its hart are as at boot; it is counted.
vcpu_arch_reset(c) == resets' = [resets EXCEPT ![c] = @ + 1]

\* The image is ready: vcpu_arch_reset and the state of the hart; the master
\* also runs health_monitor_init.  Then the third barrier.
ResetVcpu(c) ==
    /\ pc[c] = "imaged"
    /\ MayLeave(c)
    /\ vcpu_arch_reset(c)
    /\ IF c = Master
       THEN /\ state' = [state EXCEPT ![c] = "STARTED"]
            /\ status' = "HEALTHY"
            /\ missed_count' = 0
       ELSE /\ state' = [state EXCEPT ![c] =
                            IF c = vcpu0 THEN "STARTED" ELSE "STOPPED"]
            /\ UNCHANGED <<status, missed_count>>
    /\ Enter(c)
    /\ Goto(c, "reset")
    /\ UNCHANGED <<vcpu0, recovery_count, msgs, path, locals, leading,
                   doubled, images, hartStarts>>

\* All are reset: vcpu_run, which does not return to whatever called us.
Resume(c) ==
    /\ pc[c] = "reset"
    /\ MayLeave(c)
    /\ leading' = [leading EXCEPT ![c] = FALSE]
    /\ Goto(c, RunPc(c))
    /\ UNCHANGED <<vcpu0, health, msgs, state, path, locals, entered, doubled,
                   images, resets, hartStarts>>

-----------------------------------------------------------------------------
\* The firmware turns the IPI into a software interrupt of the target.
FirmwareIpi(c) ==
    /\ msip[c]
    /\ msip' = [msip EXCEPT ![c] = FALSE]
    /\ ssip' = [ssip EXCEPT ![c] = TRUE]
    /\ UNCHANGED <<vcpu0, health, event_list, state, pc, path, locals,
                   entered, ghosts, hartStarts>>

\* The software interrupt, from the guest or out of wfi; only the latter path
\* clears it first (interrupts_arch_handle, cpu_idle_wakeup).
SoftIrq(c) ==
    /\ pc[c] \in {"guest", "idle"}
    /\ ssip[c]
    /\ IF pc[c] = "guest"
       THEN path' = [path EXCEPT ![c] = "trap"] /\ UNCHANGED ssip
       ELSE path' = [path EXCEPT ![c] = "idle"] /\ ssip' = [ssip EXCEPT ![c] = FALSE]
    /\ Goto(c, "pop")
    /\ UNCHANGED <<vcpu0, health, event_list, msip, state, locals, entered,
                   ghosts, hartStarts>>

\* cpu_msg_handler takes one message: VM_RESET leads into the recovery, from
\* which nothing returns; HART_START starts the hart if it waits for it.
HandleMsg(c) ==
    /\ pc[c] = "pop"
    /\ event_list[c] # <<>>
    /\ event_list' = [event_list EXCEPT ![c] = Tail(@)]
    /\ IF Head(event_list[c]) = "VM_RESET"
       THEN Goto(c, "begin") /\ UNCHANGED state
       ELSE /\ state' = IF state[c] = "START_PENDING"
                        THEN [state EXCEPT ![c] = "STARTED"] ELSE state
            /\ UNCHANGED pc
    /\ UNCHANGED <<vcpu0, health, msip, ssip, path, locals, entered, ghosts,
                   hartStarts>>

\* The list is empty: back to the guest through TrapAck, or vcpu_run.
HandlerReturns(c) ==
    /\ pc[c] = "pop"
    /\ event_list[c] = <<>>
    /\ Goto(c, IF path[c] = "trap" THEN "ack" ELSE RunPc(c))
    /\ UNCHANGED <<vcpu0, health, msgs, state, path, locals, entered, ghosts,
                   hartStarts>>

TrapAck(c) ==
    /\ pc[c] = "ack"
    /\ ssip' = [ssip EXCEPT ![c] = FALSE]
    /\ Goto(c, "guest")
    /\ UNCHANGED <<vcpu0, health, event_list, msip, state, path, locals,
                   entered, ghosts, hartStarts>>

\* A guest starts a stopped hart of the VM (sbi_hsm_start_handler).
sbi_hsm_start_handler(c, t) ==
    /\ GuestRuns(c)
    /\ t # c
    /\ state[t] = "STOPPED"
    /\ hartStarts < MaxHartStarts
    /\ hartStarts' = hartStarts + 1
    /\ state' = [state EXCEPT ![t] = "START_PENDING"]
    /\ SendMsg(t, "HART_START")
    /\ UNCHANGED <<vcpu0, health, pc, path, locals, entered, ghosts>>

-----------------------------------------------------------------------------
\* Steps a core takes without the guest or the timer asking for them.
Progress(c) ==
    \/ HeartbeatStatus(c)
    \/ Elapsed(c)
    \/ Missed(c)
    \/ Judge(c)
    \/ vm_recovery_start(c)
    \/ TestRecovering(c)
    \/ MarkRecovering(c)
    \/ CountRecovery(c)
    \/ vm_msg_broadcast(c)
    \/ StopVcpu(c)
    \/ AllStopped(c)
    \/ vm_reinstall_image(c)
    \/ ResetVcpu(c)
    \/ Resume(c)
    \/ HandleMsg(c)
    \/ HandlerReturns(c)
    \/ TrapAck(c)

Next ==
    \E c \in Cpus :
        \/ Progress(c)
        \/ FirmwareIpi(c)
        \/ SoftIrq(c)
        \/ health_monitor_heartbeat(c)
        \/ health_monitor_check(c)
        \/ \E t \in Cpus : sbi_hsm_start_handler(c, t)

Spec == Init /\ [][Next]_vars

\* Cores keep executing, IPIs arrive and a pending interrupt is taken; neither
\* the guest nor the timer need ask for anything.
FairSpec ==
    Spec /\ \A c \in Cpus :
                WF_vars(Progress(c)) /\ WF_vars(FirmwareIpi(c)) /\ WF_vars(SoftIrq(c))

-----------------------------------------------------------------------------
\* Types.
TypeOK ==
    /\ vcpu0 \in Cpus
    /\ status \in {"HEALTHY", "SUSPECT", "UNHEALTHY", "RECOVERING"}
    /\ missed_count \in Nat
    /\ recovery_count \in Nat
    /\ event_list \in [Cpus -> Seq({"VM_RESET", "HART_START"})]
    /\ msip \in [Cpus -> BOOLEAN]
    /\ ssip \in [Cpus -> BOOLEAN]
    /\ state \in [Cpus -> {"STOPPED", "START_PENDING", "STARTED"}]
    /\ pc \in [Cpus -> PcValues]
    /\ path \in [Cpus -> {"trap", "idle"}]
    /\ prev \in [Cpus -> {"HEALTHY", "SUSPECT", "UNHEALTHY", "RECOVERING"}]
    /\ cnt \in [Cpus -> Nat]
    /\ todo \in [Cpus -> SUBSET Cpus]
    /\ entered \in [Cpus -> Nat]
    /\ leading \in [Cpus -> BOOLEAN]
    /\ doubled \in BOOLEAN
    /\ images \in Nat
    /\ resets \in [Cpus -> Nat]
    /\ hartStarts \in Nat

\* While the master rewrites the guest image, no core of the VM is anywhere
\* but in the recovery, past its own stop.
ImageInstalledQuiescent ==
    pc[Master] = "image" =>
        \A c \in Cpus \ {Master} : pc[c] \in {"stopped", "imaged"}

\* A core that executes the guest, or that may take up work from it, executes
\* the image installed last with a vCPU that was reset after that: no vCPU
\* survives into a restarted VM, even when recoveries follow one another or
\* are started twice.
NoVcpuSurvives ==
    \A c \in Cpus : pc[c] \notin RecoveryPcs => resets[c] = images

\* When the last core has been reset, every hart but the master's and that of
\* vCPU 0 is stopped and these two are started, whatever the guests had asked
\* for.  Power-on starts vCPU 0 alone (vcpu_arch_init), so the harts are as after
\* power-on only if the master has vCPU 0; else the master's hart enters the
\* guest along with it, because vm_recovery_execute does not look at the vCPU id.
PowerCycled ==
    (\A c \in Cpus : pc[c] = "reset") =>
        state = [c \in Cpus |-> IF c \in {vcpu0, Master} THEN "STARTED" ELSE "STOPPED"]

\* A restarted VM starts from scratch: the image is rewritten behind no running
\* core, nothing of the old VM runs on, and no start or stop of a hart that was
\* under way is left over.
RestartIsClean == TypeOK /\ ImageInstalledQuiescent /\ NoVcpuSurvives /\ PowerCycled

\* Unless two cores led a recovery at once, the limit on the number of
\* recoveries is respected, whatever the racing heartbeats and checks of the
\* other cores do to status in the meantime.
RecoveryLimit == max_recoveries > 0 /\ ~doubled => images <= max_recoveries

\* A message waits for a core that is not going to look: it is in the guest or
\* asleep, and no interrupt is on its way to it.
Stranded ==
    \E c \in Cpus : /\ event_list[c] # <<>>
                   /\ pc[c] \in {"guest", "idle"}
                   /\ ~ssip[c] /\ ~msip[c]

\* A core that joins a recovery comes out of it, because every other core of the
\* VM joins the same one.  The only thing that can hang the barriers of a
\* recovery is a VM_RESET that was delivered without its interrupt.
RecoveryCompletes ==
    \A c \in Cpus : pc[c] = "stopped" ~> pc[c] \in {"guest", "idle"} \/ Stranded
=============================================================================
