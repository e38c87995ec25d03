-------------------------- MODULE VmRecoveryProofs --------------------------
(* Proofs about the restart of a VM of VmRecovery.tla.                      *)
EXTENDS VmRecovery, TLAPS

\* The barriers of the current round that core c has entered.
Phase(label) ==
    IF label \in {"stopped", "image"} THEN 1 ELSE IF label = "imaged" THEN 2 ELSE 0

\* The core has entered a barrier and not been let out.
Waiting == {"stopped", "imaged", "reset"}

\* Each round of a recovery is three barriers and one reset; nobody is ahead of
\* a barrier that another core has not entered; only the master is at the image,
\* of which it installs one per round.
Rounds ==
    /\ \A c \in Cpus : entered[c] = 3 * resets[c] + Phase(pc[c])
    /\ \A c, d \in Cpus : entered[d] + 1 >= entered[c]
    /\ \A c, d \in Cpus : pc[c] \notin Waiting => entered[d] >= entered[c]
    /\ \A c \in Cpus : pc[c] = "image" => c = Master
    /\ images = resets[Master] + (IF pc[Master] = "imaged" THEN 1 ELSE 0)

\* A core at the last barrier has its hart as the restart leaves it, unless
\* somebody has left this barrier already.
BootState(c) == IF c \in {vcpu0, Master} THEN "STARTED" ELSE "STOPPED"
Powered ==
    \A c \in Cpus : pc[c] = "reset" =>
        \/ state[c] = BootState(c)
        \/ \E g \in Cpus : entered[g] >= entered[c] /\ pc[g] # "reset"

\* The inductive invariants for RestartIsClean.
RestartInv == TypeOK /\ Rounds
PowerInv == RestartInv /\ Powered

-----------------------------------------------------------------------------
\* A VM_RESET waits in queue q, and no second one.
HasReset(q) == \E i \in DOMAIN q : q[i] = "VM_RESET"
OneReset(q) == \A i, j \in DOMAIN q : q[i] = "VM_RESET" /\ q[j] = "VM_RESET" => i = j

\* The core is in a recovery and its vCPU is not reset yet.
Inside == {"begin", "stopped", "image", "imaged"}

\* The number of the recovery that core l leads.
Number(l) == recovery_count + (IF pc[l] = "count" THEN 1 ELSE 0)

\* Core c has yet to hear of the recovery that core l leads, or to act on it.
Unsent(l, c) == pc[l] = "count" \/ (pc[l] = "broadcast" /\ c \in todo[l])
Owed(l, c) == Unsent(l, c) \/ HasReset(event_list[c])

\* The leader does not hear of its own recovery.
Leader(l) ==
    /\ pc[l] \in {"count", "broadcast"} \cup RecoveryPcs
    /\ ~HasReset(event_list[l])
    /\ IF pc[l] = "reset" THEN resets[l] = Number(l) ELSE resets[l] + 1 = Number(l)
    /\ pc[l] = "count" => cnt[l] = recovery_count
    /\ pc[l] = "broadcast" => l \notin todo[l]

\* Another core hears of it exactly once, and joins it.
Follower(l, c) ==
    /\ pc[c] \notin {"count", "broadcast"}
    /\ HasReset(event_list[c]) => ~Unsent(l, c)
    /\ Owed(l, c) => pc[c] \notin Inside /\ resets[c] + 1 = Number(l)
    /\ ~Owed(l, c) => IF pc[c] \in Inside THEN resets[c] + 1 = Number(l)
                                          ELSE resets[c] = Number(l)

\* The core has read the count that is there, and it is below the limit.
Fresh(c) ==
    /\ cnt[c] = recovery_count
    /\ max_recoveries > 0 => recovery_count < max_recoveries

\* As long as no recovery was begun inside another: there is one leader, all
\* follow it, without one all is at rest, a core that is about to lead knows the
\* count, and the count of the recoveries is the number of the rounds.
OneEach == \A c \in Cpus : OneReset(event_list[c])
OneLeader == \A c, d \in Cpus : leading[c] /\ leading[d] => c = d
Following ==
    \A l \in Cpus : leading[l] => Leader(l) /\ \A c \in Cpus : c # l => Follower(l, c)
AtRest ==
    (\A l \in Cpus : ~leading[l]) =>
        \A c \in Cpus : /\ ~HasReset(event_list[c])
                        /\ pc[c] \notin Inside \cup {"count", "broadcast"}
                        /\ resets[c] = recovery_count
FreshStart ==
    \A c \in Cpus : pc[c] \in {"recovering", "mark"} =>
        Fresh(c) \/ \E l \in Cpus : leading[l] /\ resets[c] + 1 = Number(l)
WithinLimit ==
    max_recoveries > 0 =>
        /\ recovery_count <= max_recoveries
        /\ \A c \in Cpus : pc[c] = "count" => recovery_count < max_recoveries
Alone == OneEach /\ OneLeader /\ Following /\ AtRest /\ FreshStart /\ WithinLimit

\* The inductive invariant for RecoveryLimit.
LimitInv == RestartInv /\ (~doubled => Alone)

-----------------------------------------------------------------------------
\* Init is typed.
LEMMA InitType == Init => TypeOK
<1> SUFFICES ASSUME Init PROVE TypeOK
  OBVIOUS
<1>1. pc \in [Cpus -> PcValues] /\ state \in [Cpus -> {"STOPPED", "START_PENDING", "STARTED"}]
  BY DEF Init, PcValues
<1>2. event_list \in [Cpus -> Seq({"VM_RESET", "HART_START"})]
  BY DEF Init
<1> QED
  BY <1>1, <1>2 DEF Init, TypeOK

\* cpu_send_msg keeps the types of the queues.
LEMMA SendType ==
  ASSUME TypeOK, NEW t \in Cpus, NEW m \in {"VM_RESET", "HART_START"}, SendMsg(t, m)
  PROVE  /\ event_list' \in [Cpus -> Seq({"VM_RESET", "HART_START"})]
         /\ msip' \in [Cpus -> BOOLEAN] /\ ssip' \in [Cpus -> BOOLEAN]
  BY DEF TypeOK, SendMsg

\* Every step keeps the types.
LEMMA NextType == TypeOK /\ [Next]_vars => TypeOK'
<1> SUFFICES ASSUME TypeOK, [Next]_vars PROVE TypeOK'
  OBVIOUS
<1> USE DEF TypeOK, Goto, health, msgs, locals, ghosts
<1>1. CASE UNCHANGED vars
  BY <1>1 DEF vars
<1>2. ASSUME NEW c \in Cpus, HeartbeatStatus(c) PROVE TypeOK'
  BY <1>2 DEF HeartbeatStatus, PcValues
<1>3. ASSUME NEW c \in Cpus, Elapsed(c) PROVE TypeOK'
  <2>1. pc' \in [Cpus -> PcValues] /\ cnt' \in [Cpus -> Nat]
    <3>1. CASE Goto(c, "guest") /\ UNCHANGED cnt
      BY <3>1 DEF PcValues
    <3>2. CASE Goto(c, "missed") /\ cnt' = [cnt EXCEPT ![c] = missed_count]
      BY <3>2 DEF PcValues, CheckPcs
    <3> QED
      BY <1>3, <3>1, <3>2 DEF Elapsed
  <2> QED
    BY <1>3, <2>1 DEF Elapsed
<1>4. ASSUME NEW c \in Cpus, Missed(c) PROVE TypeOK'
  <2>1. PICK s \in {prev[c], status} : prev' = [prev EXCEPT ![c] = s]
    BY <1>4 DEF Missed
  <2>2. s \in {"HEALTHY", "SUSPECT", "UNHEALTHY", "RECOVERING"}
    OBVIOUS
  <2>3. prev' \in [Cpus -> {"HEALTHY", "SUSPECT", "UNHEALTHY", "RECOVERING"}]
    BY <2>1, <2>2
  <2>4. missed_count' \in Nat
    BY <1>4 DEF Missed
  <2> QED
    BY <1>4, <2>3, <2>4 DEF Missed, PcValues, CheckPcs
<1>5. ASSUME NEW c \in Cpus, Judge(c) PROVE TypeOK'
  BY <1>5 DEF Judge, PcValues, StartPcs
<1>6. ASSUME NEW c \in Cpus, vm_recovery_start(c) PROVE TypeOK'
  BY <1>6 DEF vm_recovery_start, PcValues, StartPcs
<1>7. ASSUME NEW c \in Cpus, TestRecovering(c) PROVE TypeOK'
  BY <1>7 DEF TestRecovering, PcValues, StartPcs
<1>8. ASSUME NEW c \in Cpus, MarkRecovering(c) PROVE TypeOK'
  BY <1>8 DEF MarkRecovering, PcValues, StartPcs
<1>9. ASSUME NEW c \in Cpus, CountRecovery(c) PROVE TypeOK'
  BY <1>9 DEF CountRecovery, PcValues, StartPcs
<1>10. ASSUME NEW c \in Cpus, vm_msg_broadcast(c) PROVE TypeOK'
  <2>1. CASE \E t \in todo[c] : /\ SendMsg(t, "VM_RESET")
                                /\ todo' = [todo EXCEPT ![c] = @ \ {t}]
                                /\ UNCHANGED pc
    <3>1. PICK t \in todo[c] : /\ SendMsg(t, "VM_RESET")
                               /\ todo' = [todo EXCEPT ![c] = @ \ {t}]
                               /\ UNCHANGED pc
      BY <2>1
    <3>2. todo' \in [Cpus -> SUBSET Cpus]
      BY <3>1
    <3>3. /\ event_list' \in [Cpus -> Seq({"VM_RESET", "HART_START"})]
          /\ msip' \in [Cpus -> BOOLEAN] /\ ssip' \in [Cpus -> BOOLEAN]
      BY <3>1, SendType
    <3> QED
      BY <1>10, <3>1, <3>2, <3>3 DEF vm_msg_broadcast
  <2>2. CASE todo[c] = {} /\ Goto(c, "begin") /\ UNCHANGED <<msgs, todo>>
    BY <1>10, <2>2 DEF vm_msg_broadcast, PcValues, RecoveryPcs
  <2> QED
    BY <1>10, <2>1, <2>2 DEF vm_msg_broadcast
<1>11. ASSUME NEW c \in Cpus, StopVcpu(c) PROVE TypeOK'
  BY <1>11 DEF StopVcpu, Enter, PcValues, RecoveryPcs
<1>12. ASSUME NEW c \in Cpus, AllStopped(c) PROVE TypeOK'
  <2>1. pc' \in [Cpus -> PcValues] /\ entered' \in [Cpus -> Nat]
    <3>1. CASE Goto(c, "image") /\ UNCHANGED entered
      BY <3>1 DEF PcValues, RecoveryPcs
    <3>2. CASE Goto(c, "imaged") /\ Enter(c)
      BY <3>2 DEF PcValues, RecoveryPcs, Enter
    <3> QED
      BY <1>12, <3>1, <3>2 DEF AllStopped
  <2> QED
    BY <1>12, <2>1 DEF AllStopped
<1>13. ASSUME NEW c \in Cpus, vm_reinstall_image(c) PROVE TypeOK'
  BY <1>13 DEF vm_reinstall_image, Enter, PcValues, RecoveryPcs
<1>14. ASSUME NEW c \in Cpus, ResetVcpu(c) PROVE TypeOK'
  <2>1. state' \in [Cpus -> {"STOPPED", "START_PENDING", "STARTED"}]
    BY <1>14 DEF ResetVcpu
  <2>2. resets' \in [Cpus -> Nat] /\ entered' \in [Cpus -> Nat] /\ pc' \in [Cpus -> PcValues]
    BY <1>14 DEF ResetVcpu, vcpu_arch_reset, Enter, PcValues, RecoveryPcs
  <2>3. /\ status' \in {"HEALTHY", "SUSPECT", "UNHEALTHY", "RECOVERING"}
        /\ missed_count' \in Nat
    BY <1>14 DEF ResetVcpu
  <2>4. UNCHANGED <<vcpu0, recovery_count, msgs, path, locals, leading, doubled, images,
                    hartStarts>>
    BY <1>14 DEF ResetVcpu
  <2> QED
    BY <2>1, <2>2, <2>3, <2>4
<1>15. ASSUME NEW c \in Cpus, Resume(c) PROVE TypeOK'
  BY <1>15 DEF Resume, RunPc, PcValues
<1>16. ASSUME NEW c \in Cpus, HandleMsg(c) PROVE TypeOK'
  <2>1. event_list' \in [Cpus -> Seq({"VM_RESET", "HART_START"})]
    <3>1. Tail(event_list[c]) \in Seq({"VM_RESET", "HART_START"})
      BY <1>16 DEF HandleMsg
    <3> QED
      BY <1>16, <3>1 DEF HandleMsg
  <2>2. pc' \in [Cpus -> PcValues] /\ state' \in [Cpus -> {"STOPPED", "START_PENDING", "STARTED"}]
    BY <1>16 DEF HandleMsg, PcValues, RecoveryPcs
  <2> QED
    BY <1>16, <2>1, <2>2 DEF HandleMsg
<1>17. ASSUME NEW c \in Cpus, HandlerReturns(c) PROVE TypeOK'
  BY <1>17 DEF HandlerReturns, RunPc, PcValues
<1>18. ASSUME NEW c \in Cpus, TrapAck(c) PROVE TypeOK'
  BY <1>18 DEF TrapAck, PcValues
<1>19. ASSUME NEW c \in Cpus, FirmwareIpi(c) PROVE TypeOK'
  BY <1>19 DEF FirmwareIpi
<1>20. ASSUME NEW c \in Cpus, SoftIrq(c) PROVE TypeOK'
  <2>1. /\ pc' \in [Cpus -> PcValues] /\ ssip' \in [Cpus -> BOOLEAN]
        /\ path' \in [Cpus -> {"trap", "idle"}]
    BY <1>20 DEF SoftIrq, PcValues
  <2> QED
    BY <1>20, <2>1 DEF SoftIrq
<1>21. ASSUME NEW c \in Cpus, health_monitor_heartbeat(c) PROVE TypeOK'
  BY <1>21 DEF health_monitor_heartbeat, PcValues
<1>22. ASSUME NEW c \in Cpus, health_monitor_check(c) PROVE TypeOK'
  BY <1>22 DEF health_monitor_check, PcValues, CheckPcs
<1>23. ASSUME NEW c \in Cpus, NEW t \in Cpus, sbi_hsm_start_handler(c, t) PROVE TypeOK'
  <2>1. /\ event_list' \in [Cpus -> Seq({"VM_RESET", "HART_START"})]
        /\ msip' \in [Cpus -> BOOLEAN] /\ ssip' \in [Cpus -> BOOLEAN]
    BY <1>23, SendType DEF sbi_hsm_start_handler
  <2>2. hartStarts' \in Nat /\ state' \in [Cpus -> {"STOPPED", "START_PENDING", "STARTED"}]
    BY <1>23 DEF sbi_hsm_start_handler
  <2> QED
    BY <1>23, <2>1, <2>2 DEF sbi_hsm_start_handler
<1> QED
  BY <1>1, <1>2, <1>3, <1>4, <1>5, <1>6, <1>7, <1>8, <1>9, <1>10, <1>11, <1>12, <1>13, <1>14,
     <1>15, <1>16, <1>17, <1>18, <1>19, <1>20, <1>21, <1>22, <1>23
  DEF Next, Progress

-----------------------------------------------------------------------------
\* The steps that neither enter nor leave a barrier.
Outside(c) ==
    \/ HeartbeatStatus(c) \/ Elapsed(c) \/ Missed(c) \/ Judge(c)
    \/ vm_recovery_start(c) \/ TestRecovering(c) \/ MarkRecovering(c) \/ CountRecovery(c)
    \/ vm_msg_broadcast(c) \/ HandleMsg(c) \/ HandlerReturns(c) \/ TrapAck(c)
    \/ FirmwareIpi(c) \/ SoftIrq(c)
    \/ health_monitor_heartbeat(c) \/ health_monitor_check(c)
    \/ \E t \in Cpus : sbi_hsm_start_handler(c, t)

\* The steps: those outside a restart, and its phases.
LEMMA NextCases ==
  [Next]_vars <=> \/ UNCHANGED vars
                  \/ \E c \in Cpus : \/ Outside(c) \/ StopVcpu(c) \/ AllStopped(c)
                                     \/ vm_reinstall_image(c) \/ ResetVcpu(c) \/ Resume(c)
  BY DEF Next, Progress, Outside

\* vCPU 0 stays where it is.
LEMMA NextSameVcpu0 == [Next]_vars => vcpu0' = vcpu0
  BY DEF Next, Progress, vars, HeartbeatStatus, Elapsed, Missed, Judge, vm_recovery_start,
         TestRecovering, MarkRecovering, CountRecovery, vm_msg_broadcast, StopVcpu, AllStopped,
         vm_reinstall_image, ResetVcpu, Resume, HandleMsg, HandlerReturns, TrapAck, FirmwareIpi,
         SoftIrq, health_monitor_heartbeat, health_monitor_check, sbi_hsm_start_handler

\* What they do to the core and to the harts.
LEMMA OutsideFacts ==
  ASSUME TypeOK, NEW c \in Cpus, Outside(c)
  PROVE  /\ UNCHANGED <<entered, resets, images>>
         /\ \A d \in Cpus : d # c => pc'[d] = pc[d]
         /\ \/ pc'[c] = pc[c]
            \/ {pc[c], pc'[c]} \cap (Waiting \cup {"image"}) = {}
         /\ \A d \in Cpus : \/ state'[d] = state[d]
                            \/ d = c /\ pc[c] = "pop"
                            \/ pc[c] = "guest" /\ pc'[c] = "guest"
<1> USE DEF TypeOK, Goto, ghosts, Waiting
<1>1. CASE HeartbeatStatus(c)
  BY <1>1 DEF HeartbeatStatus
<1>2. CASE Elapsed(c)
  BY <1>2 DEF Elapsed
<1>3. CASE Missed(c)
  BY <1>3 DEF Missed
<1>4. CASE Judge(c)
  BY <1>4 DEF Judge
<1>5. CASE vm_recovery_start(c)
  BY <1>5 DEF vm_recovery_start
<1>6. CASE TestRecovering(c)
  BY <1>6 DEF TestRecovering
<1>7. CASE MarkRecovering(c)
  BY <1>7 DEF MarkRecovering
<1>8. CASE CountRecovery(c)
  BY <1>8 DEF CountRecovery
<1>9. CASE vm_msg_broadcast(c)
  BY <1>9 DEF vm_msg_broadcast
<1>10. CASE HandleMsg(c)
  <2>1. pc[c] = "pop" /\ UNCHANGED <<entered, resets, images>>
    BY <1>10 DEF HandleMsg
  <2>2. UNCHANGED pc \/ Goto(c, "begin")
    BY <1>10 DEF HandleMsg
  <2>3. \A d \in Cpus : d # c => state'[d] = state[d]
    BY <1>10 DEF HandleMsg
  <2> QED
    BY <2>1, <2>2, <2>3
<1>11. CASE HandlerReturns(c)
  BY <1>11 DEF HandlerReturns, RunPc
<1>12. CASE TrapAck(c)
  BY <1>12 DEF TrapAck
<1>13. CASE FirmwareIpi(c)
  BY <1>13 DEF FirmwareIpi
<1>14. CASE SoftIrq(c)
  BY <1>14 DEF SoftIrq
<1>15. CASE health_monitor_heartbeat(c)
  BY <1>15 DEF health_monitor_heartbeat, GuestRuns
<1>16. CASE health_monitor_check(c)
  BY <1>16 DEF health_monitor_check, GuestRuns
<1>17. ASSUME NEW t \in Cpus, sbi_hsm_start_handler(c, t)
       PROVE  UNCHANGED <<entered, resets, images, pc>> /\ pc[c] = "guest"
  BY <1>17 DEF sbi_hsm_start_handler, GuestRuns
<1> QED
  BY <1>1, <1>2, <1>3, <1>4, <1>5, <1>6, <1>7, <1>8, <1>9, <1>10, <1>11, <1>12, <1>13, <1>14,
     <1>15, <1>16, <1>17 DEF Outside

-----------------------------------------------------------------------------
\* No round has begun at boot.
LEMMA InitRounds == Init => Rounds /\ Powered
<1> SUFFICES ASSUME Init PROVE Rounds /\ Powered
  OBVIOUS
<1>1. \A c \in Cpus : pc[c] \in {"guest", "idle"} /\ entered[c] = 0 /\ resets[c] = 0
  BY DEF Init
<1>2. images = 0 /\ Master \in Cpus
  BY RecoveryAssumption DEF Init
<1> QED
  BY <1>1, <1>2 DEF Rounds, Powered, Phase, Waiting

\* Every step keeps the rounds.
LEMMA NextRounds == RestartInv /\ [Next]_vars => Rounds'
<1> SUFFICES ASSUME RestartInv, [Next]_vars PROVE Rounds'
  OBVIOUS
<1>0. /\ TypeOK /\ Rounds /\ Master \in Cpus
      /\ pc \in [Cpus -> PcValues] /\ entered \in [Cpus -> Nat] /\ resets \in [Cpus -> Nat]
      /\ images \in Nat
  BY RecoveryAssumption DEF RestartInv, TypeOK
<1>1. ASSUME NEW c \in Cpus, Outside(c) PROVE Rounds'
  <2>1. /\ UNCHANGED <<entered, resets, images>>
        /\ \A d \in Cpus : \/ pc'[d] = pc[d]
                           \/ {pc[d], pc'[d]} \cap (Waiting \cup {"image"}) = {}
    BY <1>0, <1>1, OutsideFacts
  <2>2. \A d \in Cpus : /\ Phase(pc'[d]) = Phase(pc[d])
                        /\ pc'[d] \in Waiting <=> pc[d] \in Waiting
                        /\ pc'[d] = "image" <=> pc[d] = "image"
                        /\ pc'[d] = "imaged" <=> pc[d] = "imaged"
    BY <2>1 DEF Phase, Waiting
  <2> QED
    BY <1>0, <2>1, <2>2 DEF Rounds
<1>2. ASSUME NEW c \in Cpus, StopVcpu(c) PROVE Rounds'
  <2>1. /\ pc[c] = "begin" /\ pc'[c] = "stopped" /\ entered'[c] = entered[c] + 1
        /\ \A d \in Cpus : d # c => pc'[d] = pc[d] /\ entered'[d] = entered[d]
        /\ UNCHANGED <<resets, images>>
    BY <1>0, <1>2 DEF StopVcpu, Enter, Goto, ghosts
  <2> QED
    BY <1>0, <2>1 DEF Rounds, Phase, Waiting
<1>3. ASSUME NEW c \in Cpus, AllStopped(c) PROVE Rounds'
  <2>1. /\ pc[c] = "stopped" /\ UNCHANGED <<resets, images>>
        /\ \A q \in Cpus : entered[q] >= entered[c]
        /\ \A d \in Cpus : d # c => pc'[d] = pc[d] /\ entered'[d] = entered[d]
    BY <1>0, <1>3 DEF AllStopped, MayLeave, Enter, Goto, ghosts
  <2>2. CASE c = Master
    <3>1. pc'[c] = "image" /\ entered'[c] = entered[c]
      BY <1>0, <1>3, <2>2 DEF AllStopped, Goto
    <3> QED
      BY <1>0, <2>1, <2>2, <3>1 DEF Rounds, Phase, Waiting
  <2>3. CASE c # Master
    <3>1. pc'[c] = "imaged" /\ entered'[c] = entered[c] + 1
      BY <1>0, <1>3, <2>3 DEF AllStopped, Goto, Enter
    <3> QED
      BY <1>0, <2>1, <2>3, <3>1 DEF Rounds, Phase, Waiting
  <2> QED
    BY <2>2, <2>3
<1>4. ASSUME NEW c \in Cpus, vm_reinstall_image(c) PROVE Rounds'
  <2>1. /\ pc[c] = "image" /\ pc'[c] = "imaged" /\ entered'[c] = entered[c] + 1
        /\ \A d \in Cpus : d # c => pc'[d] = pc[d] /\ entered'[d] = entered[d]
        /\ UNCHANGED resets /\ images' = images + 1
    BY <1>0, <1>4 DEF vm_reinstall_image, Enter, Goto
  <2>2. c = Master
    BY <1>0, <2>1 DEF Rounds
  <2> QED
    BY <1>0, <2>1, <2>2 DEF Rounds, Phase, Waiting
<1>5. ASSUME NEW c \in Cpus, ResetVcpu(c) PROVE Rounds'
  <2>1. /\ pc[c] = "imaged" /\ pc'[c] = "reset" /\ entered'[c] = entered[c] + 1
        /\ resets'[c] = resets[c] + 1
        /\ \A q \in Cpus : entered[q] >= entered[c]
        /\ \A d \in Cpus : d # c => /\ pc'[d] = pc[d] /\ entered'[d] = entered[d]
                                    /\ resets'[d] = resets[d]
        /\ UNCHANGED images
    BY <1>0, <1>5 DEF ResetVcpu, vcpu_arch_reset, MayLeave, Enter, Goto
  <2>2. \A d \in Cpus : entered'[d] = 3 * resets'[d] + Phase(pc'[d])
    BY <1>0, <2>1 DEF Rounds, Phase
  <2>3. images' = resets'[Master] + (IF pc'[Master] = "imaged" THEN 1 ELSE 0)
    BY <1>0, <2>1 DEF Rounds
  <2>4. \A d, e \in Cpus : entered'[e] + 1 >= entered'[d]
    BY <1>0, <2>1 DEF Rounds
  <2>5. \A d, e \in Cpus : pc'[d] \notin Waiting => entered'[e] >= entered'[d]
    BY <1>0, <2>1 DEF Rounds, Waiting
  <2> QED
    BY <1>0, <2>1, <2>2, <2>3, <2>4, <2>5 DEF Rounds
<1>6. ASSUME NEW c \in Cpus, Resume(c) PROVE Rounds'
  <2>1. /\ pc[c] = "reset" /\ pc'[c] \in {"guest", "idle"}
        /\ UNCHANGED <<entered, resets, images>>
        /\ \A q \in Cpus : entered[q] >= entered[c]
        /\ \A d \in Cpus : d # c => pc'[d] = pc[d]
    BY <1>0, <1>6 DEF Resume, RunPc, MayLeave, Goto
  <2> QED
    BY <1>0, <2>1 DEF Rounds, Phase, Waiting
<1>7. CASE UNCHANGED vars
  BY <1>0, <1>7 DEF vars, Rounds
<1> QED
  BY <1>1, <1>2, <1>3, <1>4, <1>5, <1>6, <1>7, NextCases

\* Every step keeps the harts at the last barrier as at boot: only a core that has
\* left this barrier can start one of them, and it cannot come back to it before
\* they have left it too.
LEMMA NextPowered == PowerInv /\ [Next]_vars => Powered'
<1> SUFFICES ASSUME PowerInv, [Next]_vars PROVE Powered'
  OBVIOUS
<1>0. /\ TypeOK /\ Rounds /\ Powered /\ Rounds'
      /\ pc \in [Cpus -> PcValues] /\ entered \in [Cpus -> Nat] /\ resets \in [Cpus -> Nat]
      /\ state \in [Cpus -> {"STOPPED", "START_PENDING", "STARTED"}]
  BY NextRounds DEF PowerInv, RestartInv, TypeOK
<1>5. vcpu0' = vcpu0
  BY NextSameVcpu0
<1> SUFFICES ASSUME NEW d \in Cpus, pc'[d] = "reset"
             PROVE  \/ state'[d] = BootState(d)
                    \/ \E g \in Cpus : entered'[g] >= entered'[d] /\ pc'[g] # "reset"
  BY <1>5 DEF Powered, BootState
<1>1. ASSUME NEW c \in Cpus, Outside(c)
      PROVE  \/ state'[d] = BootState(d)
             \/ \E g \in Cpus : entered'[g] >= entered'[d] /\ pc'[g] # "reset"
  <2>1. /\ UNCHANGED <<entered, resets, images>>
        /\ \A e \in Cpus : e # c => pc'[e] = pc[e]
        /\ pc[c] = "reset" <=> pc'[c] = "reset"
        /\ \/ state'[d] = state[d]
           \/ d = c /\ pc[c] = "pop"
           \/ pc[c] = "guest" /\ pc'[c] = "guest"
    BY <1>0, <1>1, OutsideFacts DEF Waiting
  <2>2. pc[d] = "reset"
    BY <2>1
  <2>3. CASE state'[d] = state[d]
    BY <1>0, <2>1, <2>2, <2>3 DEF Powered
  <2>4. CASE pc[c] = "guest" /\ pc'[c] = "guest"
    <3>1. entered[c] = 3 * resets[c] /\ entered[d] = 3 * resets[d] /\ entered[c] + 1 >= entered[d]
      BY <1>0, <2>2, <2>4 DEF Rounds, Phase
    <3>2. entered[c] >= entered[d]
      BY <1>0, <3>1
    <3> QED
      BY <2>1, <2>4, <3>2
  <2> QED
    BY <2>1, <2>2, <2>3, <2>4
<1>2. ASSUME NEW c \in Cpus, StopVcpu(c) \/ AllStopped(c) \/ vm_reinstall_image(c) \/ Resume(c)
      PROVE  \/ state'[d] = BootState(d)
             \/ \E g \in Cpus : entered'[g] >= entered'[d] /\ pc'[g] # "reset"
  <2>1. /\ pc'[c] # "reset" /\ entered'[c] >= entered[c] /\ entered'[c] \in Nat /\ UNCHANGED state
        /\ \A e \in Cpus : e # c => pc'[e] = pc[e] /\ entered'[e] = entered[e]
    <3>1. pc'[c] \in {"stopped", "image", "imaged", "guest", "idle"}
      BY <1>0, <1>2 DEF StopVcpu, AllStopped, vm_reinstall_image, Resume, RunPc, Goto
    <3>2. entered' = entered \/ entered' = [entered EXCEPT ![c] = @ + 1]
      BY <1>2 DEF StopVcpu, AllStopped, vm_reinstall_image, Resume, Enter
    <3>3. UNCHANGED state /\ \A e \in Cpus : e # c => pc'[e] = pc[e]
      BY <1>0, <1>2 DEF StopVcpu, AllStopped, vm_reinstall_image, Resume, Goto
    <3> QED
      BY <1>0, <3>1, <3>2, <3>3
  <2>2. d # c /\ pc[d] = "reset"
    BY <2>1
  <2>3. CASE state[d] = BootState(d)
    BY <2>1, <2>3
  <2>4. ASSUME NEW g \in Cpus, entered[g] >= entered[d], pc[g] # "reset"
        PROVE  entered'[g] >= entered'[d] /\ pc'[g] # "reset"
    BY <1>0, <2>1, <2>2, <2>4
  <2> QED
    BY <1>0, <2>2, <2>3, <2>4 DEF Powered
<1>3. ASSUME NEW c \in Cpus, ResetVcpu(c)
      PROVE  \/ state'[d] = BootState(d)
             \/ \E g \in Cpus : entered'[g] >= entered'[d] /\ pc'[g] # "reset"
  <2>1. /\ pc[c] = "imaged" /\ pc'[c] = "reset" /\ entered'[c] = entered[c] + 1
        /\ state'[c] = BootState(c)
        /\ \A e \in Cpus : e # c => /\ pc'[e] = pc[e] /\ entered'[e] = entered[e]
                                    /\ state'[e] = state[e]
    BY <1>0, <1>3 DEF ResetVcpu, Enter, Goto, BootState
  <2>2. CASE d = c
    BY <2>1, <2>2
  <2>3. CASE d # c
    <3>1. pc[d] = "reset" /\ entered'[d] = entered[d] /\ state'[d] = state[d]
      BY <2>1, <2>3
    <3>2. CASE state[d] = BootState(d)
      BY <3>1, <3>2
    <3>3. ASSUME NEW g \in Cpus, entered[g] >= entered[d], pc[g] # "reset"
          PROVE  entered'[g] >= entered'[d] /\ pc'[g] # "reset"
      <4>1. CASE g = c
        <5>1. /\ entered[c] = 3 * resets[c] + 2 /\ entered[d] = 3 * resets[d]
              /\ entered[d] + 1 >= entered[c]
          BY <1>0, <2>1, <3>1 DEF Rounds, Phase
        <5> QED
          BY <1>0, <3>3, <4>1, <5>1
      <4>2. CASE g # c
        BY <2>1, <3>1, <3>3, <4>2
      <4> QED
        BY <4>1, <4>2
    <3> QED
      BY <1>0, <3>1, <3>2, <3>3 DEF Powered
  <2> QED
    BY <2>2, <2>3
<1>4. ASSUME UNCHANGED vars
      PROVE  \/ state'[d] = BootState(d)
             \/ \E g \in Cpus : entered'[g] >= entered'[d] /\ pc'[g] # "reset"
  BY <1>0, <1>4 DEF vars, Powered
<1> QED
  BY <1>1, <1>2, <1>3, <1>4, NextCases

-----------------------------------------------------------------------------
\* The rounds hold in every reachable state.
LEMMA SpecRestartInv == Spec => []RestartInv
<1>1. Init => RestartInv
  BY InitType, InitRounds DEF RestartInv
<1>2. RestartInv /\ [Next]_vars => RestartInv'
  BY NextType, NextRounds DEF RestartInv
<1> QED
  BY <1>1, <1>2, PTL DEF Spec

\* PowerInv holds in every reachable state.
LEMMA SpecPowerInv == Spec => []PowerInv
<1>1. Init => PowerInv
  BY InitType, InitRounds DEF PowerInv, RestartInv
<1>2. PowerInv /\ [Next]_vars => PowerInv'
  BY NextType, NextRounds, NextPowered DEF PowerInv, RestartInv
<1> QED
  BY <1>1, <1>2, PTL DEF Spec

\* What the rounds say of the image and of the vCPUs.
LEMMA RoundsAreClean == RestartInv => ImageInstalledQuiescent /\ NoVcpuSurvives
<1> SUFFICES ASSUME RestartInv PROVE ImageInstalledQuiescent /\ NoVcpuSurvives
  OBVIOUS
<1>0. /\ TypeOK /\ Rounds /\ Master \in Cpus
      /\ pc \in [Cpus -> PcValues] /\ entered \in [Cpus -> Nat] /\ resets \in [Cpus -> Nat]
      /\ images \in Nat
  BY RecoveryAssumption DEF RestartInv, TypeOK
<1>1. ASSUME pc[Master] = "image", NEW c \in Cpus \ {Master}
      PROVE  pc[c] \in {"stopped", "imaged"}
  <2>1. /\ entered[Master] = 3 * resets[Master] + 1
        /\ entered[c] >= entered[Master] /\ entered[Master] + 1 >= entered[c]
        /\ entered[c] = 3 * resets[c] + Phase(pc[c])
    BY <1>0, <1>1 DEF Rounds, Phase, Waiting
  <2>2. Phase(pc[c]) # 0
    BY <1>0, <2>1
  <2> QED
    BY <1>0, <1>1, <2>2 DEF Rounds, Phase
<1>2. ASSUME NEW c \in Cpus, pc[c] \notin RecoveryPcs PROVE resets[c] = images
  <2>1. /\ entered[c] = 3 * resets[c]
        /\ entered[Master] >= entered[c] /\ entered[c] + 1 >= entered[Master]
        /\ entered[Master] = 3 * resets[Master] + Phase(pc[Master])
    BY <1>0, <1>2 DEF Rounds, Phase, Waiting, RecoveryPcs
  <2>2. Phase(pc[Master]) \in {0, 1, 2} /\ (Phase(pc[Master]) = 2 <=> pc[Master] = "imaged")
    BY DEF Phase
  <2>3. resets[Master] = resets[c] /\ Phase(pc[Master]) # 2
    BY <1>0, <2>1, <2>2
  <2> QED
    BY <1>0, <2>2, <2>3 DEF Rounds
<1> QED
  BY <1>1, <1>2 DEF ImageInstalledQuiescent, NoVcpuSurvives

\* However many cores start a recovery, and however they interleave: in
\* vm_recovery_execute the image is rewritten only while every other core waits in
\* vm_recovery_slave_execute, no vCPU runs on that was not reset since, and exactly
\* the harts of vCPU 0 and of the master come back started, whichever cores these
\* are.
THEOREM RestartsClean == Spec => []RestartIsClean
<1>1. PowerInv => RestartIsClean
  <2> SUFFICES ASSUME PowerInv PROVE RestartIsClean
    OBVIOUS
  <2>1. TypeOK /\ ImageInstalledQuiescent /\ NoVcpuSurvives
    BY RoundsAreClean DEF PowerInv, RestartInv
  <2>2. ASSUME \A c \in Cpus : pc[c] = "reset"
        PROVE  state = [c \in Cpus |-> IF c \in {vcpu0, Master} THEN "STARTED" ELSE "STOPPED"]
    <3>1. \A c \in Cpus : state[c] = BootState(c)
      BY <2>2 DEF PowerInv, Powered
    <3> QED
      BY <2>1, <3>1 DEF TypeOK, BootState
  <2> QED
    BY <2>1, <2>2 DEF RestartIsClean, PowerCycled
<1> QED
  BY <1>1, SpecPowerInv, PTL

-----------------------------------------------------------------------------
\* A queue to which a restart is appended has one, if it had none.
LEMMA SendReset ==
  ASSUME NEW q \in Seq({"VM_RESET", "HART_START"}), ~HasReset(q)
  PROVE  HasReset(Append(q, "VM_RESET")) /\ OneReset(Append(q, "VM_RESET"))
  BY DEF HasReset, OneReset

\* A hart start appended to a queue adds no restart.
LEMMA SendHartStart ==
  ASSUME NEW q \in Seq({"VM_RESET", "HART_START"})
  PROVE  /\ HasReset(Append(q, "HART_START")) <=> HasReset(q)
         /\ OneReset(q) => OneReset(Append(q, "HART_START"))
<1> DEFINE r == Append(q, "HART_START")
<1>1. /\ DOMAIN r = DOMAIN q \cup {Len(q) + 1}
      /\ \A i \in DOMAIN q : r[i] = q[i]
      /\ r[Len(q) + 1] = "HART_START"
  OBVIOUS
<1> HIDE DEF r
<1>2. HasReset(r) <=> HasReset(q)
  BY <1>1 DEF HasReset
<1>3. OneReset(q) => OneReset(r)
  BY <1>1 DEF OneReset
<1> QED
  BY <1>2, <1>3 DEF r

\* What is left of the restarts in a queue from which a message is taken.
LEMMA TakeOne ==
  ASSUME NEW q \in Seq({"VM_RESET", "HART_START"}), q # <<>>
  PROVE  /\ OneReset(q) => OneReset(Tail(q))
         /\ Head(q) = "VM_RESET" => HasReset(q)
         /\ Head(q) = "VM_RESET" /\ OneReset(q) => ~HasReset(Tail(q))
         /\ Head(q) # "VM_RESET" => (HasReset(Tail(q)) <=> HasReset(q))
<1> DEFINE r == Tail(q)
<1>1. /\ Len(q) \in Nat /\ Len(q) > 0 /\ DOMAIN q = 1 .. Len(q) /\ DOMAIN r = 1 .. Len(q) - 1
      /\ \A i \in DOMAIN r : r[i] = q[i + 1]
      /\ Head(q) = q[1]
  OBVIOUS
<1>2. /\ 1 \in DOMAIN q
      /\ \A i \in DOMAIN r : i + 1 \in DOMAIN q /\ i + 1 # 1
      /\ \A i \in DOMAIN q : i # 1 => i - 1 \in DOMAIN r /\ r[i - 1] = q[i]
  BY <1>1
<1> HIDE DEF r
<1>3. OneReset(q) => OneReset(r)
  BY <1>1, <1>2 DEF OneReset
<1>4. Head(q) = "VM_RESET" => HasReset(q)
  BY <1>1, <1>2 DEF HasReset
<1>5. Head(q) = "VM_RESET" /\ OneReset(q) => ~HasReset(r)
  BY <1>1, <1>2 DEF HasReset, OneReset
<1>6. Head(q) # "VM_RESET" => (HasReset(r) <=> HasReset(q))
  BY <1>1, <1>2 DEF HasReset
<1> QED
  BY <1>3, <1>4, <1>5, <1>6 DEF r

-----------------------------------------------------------------------------
\* The VM is at rest at boot.
LEMMA InitAlone == Init => Alone
<1> SUFFICES ASSUME Init PROVE Alone
  OBVIOUS
<1>1. \A c \in Cpus : /\ event_list[c] = <<>> /\ ~leading[c]
                      /\ pc[c] \in {"guest", "idle"} /\ resets[c] = recovery_count
  BY DEF Init
<1>2. \A c \in Cpus : ~HasReset(event_list[c]) /\ OneReset(event_list[c])
  BY <1>1 DEF HasReset, OneReset
<1>3. WithinLimit
  BY <1>1, RecoveryAssumption DEF WithinLimit, Init
<1> QED
  BY <1>1, <1>2, <1>3 DEF Alone, OneEach, OneLeader, Following, AtRest, FreshStart, Inside

\* A step that begins, joins or ends no recovery.
LEMMA AloneFrame ==
  ASSUME Alone, UNCHANGED <<leading, resets, recovery_count, todo>>,
         \A c \in Cpus : \/ pc'[c] = pc[c]
                         \/ pc[c] \in Inside /\ pc'[c] \in Inside
                         \/ {pc[c], pc'[c]} \cap
                                (Inside \cup {"count", "broadcast", "reset"}) = {},
         \A c \in Cpus : pc'[c] \in {"recovering", "mark"} =>
             (pc[c] \in {"recovering", "mark"} /\ cnt'[c] = cnt[c]) \/ Fresh(c)',
         \A c \in Cpus : pc[c] = "count" => cnt'[c] = cnt[c],
         \A c \in Cpus : /\ HasReset(event_list'[c]) <=> HasReset(event_list[c])
                         /\ OneReset(event_list'[c])
  PROVE  Alone'
<1>1. \A c \in Cpus : /\ pc'[c] = "count" <=> pc[c] = "count"
                      /\ pc'[c] = "broadcast" <=> pc[c] = "broadcast"
                      /\ pc'[c] = "reset" <=> pc[c] = "reset"
                      /\ pc'[c] \in Inside <=> pc[c] \in Inside
  BY DEF Inside
<1>2. \A l, c \in Cpus : /\ Number(l)' = Number(l)
                         /\ Unsent(l, c)' <=> Unsent(l, c)
                         /\ Owed(l, c)' <=> Owed(l, c)
  BY <1>1 DEF Number, Unsent, Owed
<1>3. OneEach' /\ OneLeader'
  BY DEF Alone, OneEach, OneLeader
<1>4. Following'
  <2>1. \A l \in Cpus : Leader(l) => Leader(l)'
    BY <1>1, <1>2 DEF Leader, RecoveryPcs, Inside
  <2>2. \A l, c \in Cpus : Follower(l, c) => Follower(l, c)'
    BY <1>1, <1>2 DEF Follower
  <2> QED
    BY <2>1, <2>2 DEF Alone, Following
<1>5. AtRest'
  BY <1>1 DEF Alone, AtRest
<1>6. FreshStart'
  BY <1>2 DEF Alone, FreshStart, Fresh
<1>7. WithinLimit'
  BY <1>1 DEF Alone, WithinLimit
<1> QED
  BY <1>3, <1>4, <1>5, <1>6, <1>7 DEF Alone

\* A core that counts or broadcasts is the leader; one inside a recovery has one.
LEMMA LeaderExists ==
  ASSUME Alone, NEW c \in Cpus
  PROVE  /\ pc[c] \in {"count", "broadcast"} => leading[c]
         /\ pc[c] \in Inside \/ HasReset(event_list[c]) => \E l \in Cpus : leading[l]
<1>1. CASE \A l \in Cpus : ~leading[l]
  BY <1>1 DEF Alone, AtRest
<1>2. ASSUME NEW l \in Cpus, leading[l] PROVE pc[c] \in {"count", "broadcast"} => leading[c]
  BY <1>2 DEF Alone, Following, Follower
<1> QED
  BY <1>1, <1>2

\* The steps around the recovery keep it orderly.
LEMMA QuietAlone ==
  ASSUME TypeOK, Alone, NEW c \in Cpus,
         \/ HeartbeatStatus(c) \/ Elapsed(c) \/ Missed(c) \/ Judge(c)
         \/ vm_recovery_start(c) \/ TestRecovering(c)
         \/ HandlerReturns(c) \/ TrapAck(c) \/ FirmwareIpi(c) \/ SoftIrq(c)
         \/ health_monitor_heartbeat(c) \/ health_monitor_check(c)
         \/ StopVcpu(c) \/ AllStopped(c) \/ vm_reinstall_image(c)
  PROVE  Alone'
<1> USE DEF health, msgs, locals, ghosts
<1>0. /\ pc \in [Cpus -> PcValues] /\ cnt \in [Cpus -> Nat] /\ recovery_count \in Nat
      /\ max_recoveries \in Nat
  BY RecoveryAssumption DEF TypeOK
<1>1. UNCHANGED <<leading, resets, recovery_count, todo, event_list>>
  BY DEF HeartbeatStatus, Elapsed, Missed, Judge, vm_recovery_start, TestRecovering,
         HandlerReturns, TrapAck, FirmwareIpi, SoftIrq, health_monitor_heartbeat,
         health_monitor_check, StopVcpu, AllStopped, vm_reinstall_image
<1>2. \A d \in Cpus : d # c => pc'[d] = pc[d] /\ cnt'[d] = cnt[d]
  BY <1>0 DEF HeartbeatStatus, Elapsed, Missed, Judge, vm_recovery_start, TestRecovering,
         HandlerReturns, TrapAck, FirmwareIpi, SoftIrq, health_monitor_heartbeat,
         health_monitor_check, StopVcpu, AllStopped, vm_reinstall_image, Goto
<1>3. /\ \/ pc'[c] = pc[c]
         \/ pc[c] \in Inside /\ pc'[c] \in Inside
         \/ {pc[c], pc'[c]} \cap (Inside \cup {"count", "broadcast", "reset"}) = {}
      /\ pc'[c] \in {"recovering", "mark"} =>
            (pc[c] \in {"recovering", "mark"} /\ cnt'[c] = cnt[c]) \/ Fresh(c)'
      /\ pc[c] = "count" => cnt'[c] = cnt[c]
  <2>1. CASE HeartbeatStatus(c) \/ TrapAck(c) \/ FirmwareIpi(c) \/ SoftIrq(c)
    BY <1>0, <2>1 DEF HeartbeatStatus, TrapAck, FirmwareIpi, SoftIrq, Goto, Inside
  <2>2. CASE Elapsed(c) \/ Missed(c) \/ Judge(c)
    BY <1>0, <2>2 DEF Elapsed, Missed, Judge, Goto, Inside
  <2>3. CASE vm_recovery_start(c)
    <3>1. CASE max_recoveries > 0 /\ recovery_count >= max_recoveries
      BY <1>0, <2>3, <3>1 DEF vm_recovery_start, Goto, Inside
    <3>2. CASE ~ (max_recoveries > 0 /\ recovery_count >= max_recoveries)
      <4>1. /\ pc[c] = "start" /\ pc'[c] = "recovering" /\ cnt'[c] = recovery_count
            /\ UNCHANGED recovery_count
        BY <1>0, <2>3, <3>2 DEF vm_recovery_start, Goto
      <4>2. Fresh(c)'
        BY <1>0, <3>2, <4>1 DEF Fresh
      <4> QED
        BY <4>1, <4>2 DEF Inside
    <3> QED
      BY <3>1, <3>2
  <2>4. CASE TestRecovering(c)
    BY <1>0, <2>4 DEF TestRecovering, Goto, Inside
  <2>5. CASE HandlerReturns(c)
    BY <1>0, <2>5 DEF HandlerReturns, RunPc, Goto, Inside
  <2>6. CASE health_monitor_heartbeat(c) \/ health_monitor_check(c)
    BY <1>0, <2>6 DEF health_monitor_heartbeat, health_monitor_check, GuestRuns, Goto, Inside
  <2>7. CASE StopVcpu(c) \/ AllStopped(c) \/ vm_reinstall_image(c)
    BY <1>0, <2>7 DEF StopVcpu, AllStopped, vm_reinstall_image, Goto, Inside
  <2> QED
    BY <2>1, <2>2, <2>3, <2>4, <2>5, <2>6, <2>7
<1>4. \A d \in Cpus : \/ pc'[d] = pc[d]
                      \/ pc[d] \in Inside /\ pc'[d] \in Inside
                      \/ {pc[d], pc'[d]} \cap (Inside \cup {"count", "broadcast", "reset"}) = {}
  BY <1>2, <1>3
<1>5. \A d \in Cpus : pc'[d] \in {"recovering", "mark"} =>
          (pc[d] \in {"recovering", "mark"} /\ cnt'[d] = cnt[d]) \/ Fresh(d)'
  BY <1>2, <1>3
<1>6. \A d \in Cpus : pc[d] = "count" => cnt'[d] = cnt[d]
  BY <1>2, <1>3
<1>7. \A d \in Cpus : /\ HasReset(event_list'[d]) <=> HasReset(event_list[d])
                      /\ OneReset(event_list'[d])
  BY <1>1 DEF Alone, OneEach
<1> QED
  BY <1>1, <1>4, <1>5, <1>6, <1>7, AloneFrame

\* Core c begins a recovery, alone: everybody else has to hear of it.
LEMMA MarkAlone ==
  ASSUME TypeOK, Alone, NEW c \in Cpus, MarkRecovering(c), ~doubled'
  PROVE  Alone'
<1>0. /\ pc \in [Cpus -> PcValues] /\ leading \in [Cpus -> BOOLEAN]
      /\ recovery_count \in Nat /\ resets \in [Cpus -> Nat]
  BY DEF TypeOK
<1>1. /\ pc[c] = "mark" /\ pc'[c] = "count" /\ leading'[c]
      /\ \A d \in Cpus : ~leading[d]
      /\ \A d \in Cpus : d # c => pc'[d] = pc[d] /\ leading'[d] = leading[d]
      /\ UNCHANGED <<event_list, resets, recovery_count, cnt, todo>>
  BY <1>0 DEF MarkRecovering, Goto, msgs, locals
<1>2. \A d \in Cpus : /\ ~HasReset(event_list[d])
                      /\ pc[d] \notin Inside \cup {"count", "broadcast"}
                      /\ resets[d] = recovery_count
  BY <1>1 DEF Alone, AtRest
<1>3. Fresh(c)
  BY <1>1 DEF Alone, FreshStart
<1>4. Number(c)' = recovery_count + 1
  BY <1>1 DEF Number
<1>5. OneEach' /\ OneLeader'
  BY <1>1 DEF Alone, OneEach, OneLeader
<1>6. Leader(c)'
  BY <1>1, <1>2, <1>3, <1>4 DEF Leader, Fresh
<1>7. \A d \in Cpus : d # c => Follower(c, d)'
  BY <1>1, <1>2, <1>4 DEF Follower, Owed, Unsent
<1>8. Following'
  BY <1>1, <1>6, <1>7 DEF Following
<1>9. AtRest'
  BY <1>1 DEF AtRest
<1>10. FreshStart'
  BY <1>1, <1>2, <1>4 DEF FreshStart
<1>11. WithinLimit'
  BY <1>1, <1>2, <1>3 DEF Alone, WithinLimit, Fresh
<1> QED
  BY <1>5, <1>8, <1>9, <1>10, <1>11 DEF Alone

\* The leader counts its recovery, which nobody else has done since it looked.
LEMMA CountAlone ==
  ASSUME TypeOK, Alone, NEW c \in Cpus, CountRecovery(c)
  PROVE  Alone'
<1>0. /\ pc \in [Cpus -> PcValues] /\ cnt \in [Cpus -> Nat] /\ todo \in [Cpus -> SUBSET Cpus]
      /\ recovery_count \in Nat /\ resets \in [Cpus -> Nat] /\ max_recoveries \in Nat
  BY RecoveryAssumption DEF TypeOK
<1>1. /\ pc[c] = "count" /\ pc'[c] = "broadcast" /\ todo'[c] = Cpus \ {c}
      /\ recovery_count' \in {cnt[c] + 1, recovery_count + 1}
      /\ \A d \in Cpus : d # c => pc'[d] = pc[d]
      /\ UNCHANGED <<event_list, resets, leading, cnt>>
  BY <1>0 DEF CountRecovery, Goto, msgs, ghosts
<1>2. leading[c]
  BY <1>1, LeaderExists
<1>3. Leader(c) /\ \A d \in Cpus : d # c => Follower(c, d)
  BY <1>2 DEF Alone, Following
<1>4. recovery_count' = recovery_count + 1 /\ Number(c)' = Number(c)
  <2>1. cnt[c] = recovery_count
    BY <1>1, <1>3 DEF Leader
  <2>2. recovery_count' = recovery_count + 1
    BY <1>1, <2>1
  <2>3. Number(c)' = recovery_count' + 0 /\ Number(c) = recovery_count + 1
    BY <1>1 DEF Number
  <2> QED
    BY <1>0, <2>2, <2>3
<1>5. \A l \in Cpus : leading[l] <=> l = c
  BY <1>2 DEF Alone, OneLeader
<1>6. OneEach' /\ OneLeader'
  BY <1>1 DEF Alone, OneEach, OneLeader
<1>7. Leader(c)'
  BY <1>1, <1>3, <1>4 DEF Leader
<1>8. \A d \in Cpus : d # c => resets[d] + 1 = Number(c) /\ ~HasReset(event_list[d])
                                /\ pc[d] \notin Inside \cup {"count", "broadcast"}
  BY <1>1, <1>3 DEF Follower, Owed, Unsent
<1>9. \A d \in Cpus : d # c => Follower(c, d)'
  BY <1>1, <1>4, <1>8 DEF Follower, Owed, Unsent
<1>10. Following' /\ AtRest'
  BY <1>1, <1>5, <1>7, <1>9 DEF Following, AtRest
<1>11. FreshStart'
  BY <1>1, <1>2, <1>4, <1>8 DEF FreshStart
<1>12. WithinLimit'
  <2>1. max_recoveries > 0 => recovery_count < max_recoveries
    BY <1>1 DEF Alone, WithinLimit
  <2>2. \A d \in Cpus : pc'[d] # "count"
    BY <1>1, <1>8
  <2> QED
    BY <1>0, <1>4, <2>1, <2>2 DEF WithinLimit
<1> QED
  BY <1>6, <1>10, <1>11, <1>12 DEF Alone

\* The leader sends another VM_RESET, or has sent them all.
LEMMA BroadcastAlone ==
  ASSUME TypeOK, Alone, NEW c \in Cpus, vm_msg_broadcast(c)
  PROVE  Alone'
<1>0. /\ pc \in [Cpus -> PcValues] /\ todo \in [Cpus -> SUBSET Cpus]
      /\ event_list \in [Cpus -> Seq({"VM_RESET", "HART_START"})]
  BY DEF TypeOK
<1>1. /\ pc[c] = "broadcast"
      /\ UNCHANGED <<recovery_count, resets, leading, cnt>>
  BY DEF vm_msg_broadcast, health, ghosts
<1>2. leading[c]
  BY <1>1, LeaderExists
<1>3. Leader(c) /\ \A d \in Cpus : d # c => Follower(c, d)
  BY <1>2 DEF Alone, Following
<1>4. \A l \in Cpus : leading[l] <=> l = c
  BY <1>2 DEF Alone, OneLeader
<1>5. OneLeader' /\ AtRest'
  BY <1>1, <1>2 DEF Alone, OneLeader, AtRest
<1>6. ASSUME \/ pc'[c] = "broadcast"
             \/ pc'[c] = "begin",
             \A d \in Cpus : d # c => pc'[d] = pc[d]
      PROVE  FreshStart' /\ WithinLimit' /\ Number(c)' = Number(c)
  <2>1. \A l \in Cpus : leading[l] => Number(l)' = Number(l)
    BY <1>1, <1>4, <1>6 DEF Number
  <2>2. \A d \in Cpus : /\ pc'[d] \in {"recovering", "mark"} => pc'[d] = pc[d]
                        /\ pc'[d] = "count" => pc'[d] = pc[d]
    BY <1>6
  <2>3. FreshStart'
    BY <1>1, <2>1, <2>2 DEF Alone, FreshStart, Fresh
  <2>4. WithinLimit'
    BY <1>1, <2>2 DEF Alone, WithinLimit
  <2> QED
    BY <1>2, <2>1, <2>3, <2>4
<1>7. ASSUME NEW t \in todo[c], SendMsg(t, "VM_RESET"), todo' = [todo EXCEPT ![c] = @ \ {t}],
             UNCHANGED pc
      PROVE  Alone'
  <2>1. t \in Cpus /\ t # c /\ ~HasReset(event_list[t])
    BY <1>0, <1>1, <1>3, <1>7 DEF Leader, Follower, Unsent
  <2>2. /\ event_list'[t] = Append(event_list[t], "VM_RESET")
        /\ \A d \in Cpus : d # t => event_list'[d] = event_list[d]
        /\ \A d \in Cpus : d \in todo'[c] <=> d \in todo[c] /\ d # t
    BY <1>0, <1>7, <2>1 DEF SendMsg
  <2>3. HasReset(event_list'[t]) /\ OneReset(event_list'[t])
    BY <1>0, <2>1, <2>2, SendReset
  <2>4. OneEach'
    BY <2>2, <2>3 DEF Alone, OneEach
  <2>5. FreshStart' /\ WithinLimit' /\ Number(c)' = Number(c)
    BY <1>1, <1>6, <1>7
  <2>6. Leader(c)'
    BY <1>1, <1>3, <1>7, <2>1, <2>2, <2>5 DEF Leader
  <2>7. \A d \in Cpus : /\ Owed(c, d)' <=> Owed(c, d)
                        /\ HasReset(event_list'[d]) => ~Unsent(c, d)' \/ d = c
    BY <1>1, <1>3, <1>7, <2>1, <2>2, <2>3 DEF Owed, Unsent, Follower
  <2>8. \A d \in Cpus : d # c => Follower(c, d)'
    BY <1>1, <1>3, <1>7, <2>5, <2>7 DEF Follower
  <2>9. Following'
    BY <1>1, <1>4, <2>6, <2>8 DEF Following
  <2> QED
    BY <1>5, <2>4, <2>5, <2>9 DEF Alone
<1>8. ASSUME todo[c] = {}, Goto(c, "begin"), UNCHANGED <<msgs, todo>>
      PROVE  Alone'
  <2>1. /\ pc'[c] = "begin" /\ UNCHANGED event_list
        /\ \A d \in Cpus : d # c => pc'[d] = pc[d]
    BY <1>0, <1>8 DEF Goto, msgs
  <2>2. OneEach'
    BY <2>1 DEF Alone, OneEach
  <2>3. FreshStart' /\ WithinLimit' /\ Number(c)' = Number(c)
    BY <1>6, <2>1
  <2>4. Leader(c)'
    BY <1>1, <1>3, <2>1, <2>3 DEF Leader, RecoveryPcs
  <2>5. \A d \in Cpus : ~Unsent(c, d)' /\ (Owed(c, d)' <=> Owed(c, d))
    BY <1>1, <1>8, <2>1 DEF Owed, Unsent
  <2>6. \A d \in Cpus : d # c => Follower(c, d)'
    BY <1>1, <1>3, <2>1, <2>3, <2>5 DEF Follower
  <2>7. Following'
    BY <1>1, <1>4, <2>4, <2>6 DEF Following
  <2> QED
    BY <1>5, <2>2, <2>3, <2>7 DEF Alone
<1> QED
  BY <1>7, <1>8 DEF vm_msg_broadcast

\* A hart start is sent.
LEMMA HartStartAlone ==
  ASSUME TypeOK, Alone, NEW c \in Cpus, NEW t \in Cpus, sbi_hsm_start_handler(c, t)
  PROVE  Alone'
<1>0. event_list \in [Cpus -> Seq({"VM_RESET", "HART_START"})]
  BY DEF TypeOK
<1>1. /\ UNCHANGED <<leading, resets, recovery_count, todo, cnt, pc>>
      /\ event_list' = [event_list EXCEPT ![t] = Append(@, "HART_START")]
  BY DEF sbi_hsm_start_handler, SendMsg, health, ghosts, locals
<1>2. \A d \in Cpus : /\ HasReset(event_list'[d]) <=> HasReset(event_list[d])
                      /\ OneReset(event_list'[d])
  <2> SUFFICES ASSUME NEW d \in Cpus
               PROVE  /\ HasReset(event_list'[d]) <=> HasReset(event_list[d])
                      /\ OneReset(event_list'[d])
    OBVIOUS
  <2>1. OneReset(event_list[d]) /\ event_list[d] \in Seq({"VM_RESET", "HART_START"})
    BY <1>0 DEF Alone, OneEach
  <2>2. CASE d = t
    BY <1>0, <1>1, <2>1, <2>2, SendHartStart
  <2>3. CASE d # t
    BY <1>0, <1>1, <2>1, <2>3
  <2> QED
    BY <2>2, <2>3
<1> QED
  BY <1>1, <1>2, AloneFrame

\* A core takes a message: with VM_RESET it joins the recovery it was owed.
LEMMA HandleAlone ==
  ASSUME TypeOK, Alone, NEW c \in Cpus, HandleMsg(c)
  PROVE  Alone'
<1>0. /\ event_list \in [Cpus -> Seq({"VM_RESET", "HART_START"})] /\ pc \in [Cpus -> PcValues]
  BY DEF TypeOK
<1>1. /\ UNCHANGED <<leading, resets, recovery_count, todo, cnt>> /\ pc[c] = "pop"
      /\ event_list[c] # <<>> /\ event_list'[c] = Tail(event_list[c])
      /\ \A d \in Cpus : d # c => event_list'[d] = event_list[d]
  BY <1>0 DEF HandleMsg, health, ghosts, locals
<1>2. OneReset(event_list[c]) /\ event_list[c] \in Seq({"VM_RESET", "HART_START"})
  BY <1>0 DEF Alone, OneEach
<1>3. OneEach'
  BY <1>1, <1>2, TakeOne DEF Alone, OneEach
<1>4. CASE Head(event_list[c]) # "VM_RESET"
  <2>1. UNCHANGED pc
    BY <1>4 DEF HandleMsg
  <2>2. \A d \in Cpus : HasReset(event_list'[d]) <=> HasReset(event_list[d])
    BY <1>1, <1>2, <1>4, TakeOne
  <2> QED
    BY <1>1, <1>3, <2>1, <2>2, AloneFrame DEF OneEach
<1>5. CASE Head(event_list[c]) = "VM_RESET"
  <2>1. /\ pc'[c] = "begin" /\ \A d \in Cpus : d # c => pc'[d] = pc[d]
    BY <1>0, <1>5 DEF HandleMsg, Goto
  <2>2. HasReset(event_list[c]) /\ ~HasReset(event_list'[c])
    BY <1>1, <1>2, <1>5, TakeOne
  <2>3. PICK l \in Cpus : leading[l]
    BY <2>2, LeaderExists
  <2>4. /\ Leader(l) /\ \A d \in Cpus : d # l => Follower(l, d)
        /\ \A d \in Cpus : leading[d] <=> d = l
    BY <2>3 DEF Alone, Following, OneLeader
  <2>5. l # c
    BY <2>2, <2>4 DEF Leader
  <2>6. ~Unsent(l, c) /\ resets[c] + 1 = Number(l)
    BY <2>2, <2>4, <2>5 DEF Follower, Owed
  <2>7. /\ Number(l)' = Number(l)
        /\ \A d \in Cpus : Unsent(l, d)' <=> Unsent(l, d)
        /\ \A d \in Cpus : d # c => (Owed(l, d)' <=> Owed(l, d))
        /\ ~Owed(l, c)'
    BY <1>1, <2>1, <2>2, <2>5, <2>6 DEF Number, Unsent, Owed
  <2>8. Leader(l)'
    BY <1>1, <2>1, <2>4, <2>5, <2>7 DEF Leader
  <2>9. Follower(l, c)'
    BY <1>1, <2>1, <2>2, <2>6, <2>7 DEF Follower, Inside
  <2>10. \A d \in Cpus \ {l, c} : Follower(l, d)'
    BY <1>1, <2>1, <2>4, <2>7 DEF Follower
  <2>11. OneLeader' /\ AtRest' /\ Following'
    BY <1>1, <2>4, <2>8, <2>9, <2>10 DEF OneLeader, AtRest, Following
  <2>12. FreshStart'
    <3>1. \A d \in Cpus : leading[d] => Number(d)' = Number(d)
      BY <2>4, <2>7
    <3>2. \A d \in Cpus : pc'[d] \in {"recovering", "mark"} => pc'[d] = pc[d]
      BY <2>1
    <3> QED
      BY <1>1, <3>1, <3>2 DEF Alone, FreshStart, Fresh
  <2>13. WithinLimit'
    BY <1>1, <2>1 DEF Alone, WithinLimit
  <2> QED
    BY <1>3, <2>11, <2>12, <2>13 DEF Alone
<1> QED
  BY <1>4, <1>5

\* A core finishes its part of the recovery that is led.
LEMMA ResetAlone ==
  ASSUME TypeOK, Alone, NEW c \in Cpus, ResetVcpu(c)
  PROVE  Alone'
<1>0. /\ pc \in [Cpus -> PcValues] /\ resets \in [Cpus -> Nat] /\ recovery_count \in Nat
  BY DEF TypeOK
<1>1. /\ UNCHANGED <<leading, recovery_count, todo, cnt, event_list>>
      /\ pc[c] = "imaged" /\ pc'[c] = "reset" /\ resets'[c] = resets[c] + 1
      /\ \A d \in Cpus : d # c => pc'[d] = pc[d] /\ resets'[d] = resets[d]
  BY <1>0 DEF ResetVcpu, vcpu_arch_reset, Goto, locals, msgs
<1>2. PICK l \in Cpus : leading[l]
  BY <1>1, LeaderExists DEF Inside
<1>3. /\ Leader(l) /\ \A d \in Cpus : d # l => Follower(l, d)
      /\ \A d \in Cpus : leading[d] <=> d = l
  BY <1>2 DEF Alone, Following, OneLeader
<1>4. resets[c] + 1 = Number(l)
  <2>1. CASE c = l
    BY <1>1, <1>3, <2>1 DEF Leader
  <2>2. CASE c # l
    BY <1>1, <1>3, <2>2 DEF Follower, Inside
  <2> QED
    BY <2>1, <2>2
<1>5. /\ \A d \in Cpus : leading[d] => Number(d)' = Number(d)
      /\ \A d \in Cpus : Unsent(l, d)' <=> Unsent(l, d)
      /\ \A d \in Cpus : Owed(l, d)' <=> Owed(l, d)
  BY <1>1, <1>3 DEF Number, Unsent, Owed
<1>6. Leader(l)'
  <2>1. CASE c = l
    BY <1>1, <1>2, <1>3, <1>4, <1>5, <2>1 DEF Leader, RecoveryPcs
  <2>2. CASE c # l
    BY <1>1, <1>2, <1>3, <1>5, <2>2 DEF Leader
  <2> QED
    BY <2>1, <2>2
<1>7. c # l => Follower(l, c)'
  BY <1>1, <1>2, <1>3, <1>4, <1>5 DEF Follower, Inside
<1>8. \A d \in Cpus \ {l, c} : Follower(l, d)'
  BY <1>1, <1>2, <1>3, <1>5 DEF Follower
<1>9. OneEach' /\ OneLeader' /\ AtRest' /\ Following'
  BY <1>1, <1>3, <1>6, <1>7, <1>8 DEF Alone, OneEach, OneLeader, AtRest, Following
<1>10. FreshStart'
  <2>1. \A d \in Cpus : pc'[d] \in {"recovering", "mark"} => pc'[d] = pc[d] /\ d # c
    BY <1>1
  <2> QED
    BY <1>1, <1>5, <2>1 DEF Alone, FreshStart, Fresh
<1>11. WithinLimit'
  BY <1>1 DEF Alone, WithinLimit
<1> QED
  BY <1>9, <1>10, <1>11 DEF Alone

\* A core leaves the recovery; if it led it, all have finished.
LEMMA ResumeAlone ==
  ASSUME TypeOK, Rounds, Alone, NEW c \in Cpus, Resume(c)
  PROVE  Alone'
<1>0. /\ pc \in [Cpus -> PcValues] /\ resets \in [Cpus -> Nat] /\ recovery_count \in Nat
      /\ leading \in [Cpus -> BOOLEAN] /\ entered \in [Cpus -> Nat]
  BY DEF TypeOK
<1>1. /\ UNCHANGED <<recovery_count, todo, cnt, event_list, resets>>
      /\ pc[c] = "reset" /\ pc'[c] \in {"guest", "idle"} /\ ~leading'[c]
      /\ \A d \in Cpus : d # c => pc'[d] = pc[d] /\ leading'[d] = leading[d]
      /\ \A d \in Cpus : entered[d] >= entered[c]
  BY <1>0 DEF Resume, RunPc, MayLeave, Goto, locals, msgs, health
<1>2. OneEach' /\ OneLeader'
  BY <1>0, <1>1 DEF Alone, OneEach, OneLeader
<1>3. WithinLimit'
  BY <1>1 DEF Alone, WithinLimit
<1>4. CASE leading[c]
  <2>1. Leader(c) /\ \A d \in Cpus : d # c => Follower(c, d) /\ ~leading[d]
    BY <1>4 DEF Alone, Following, OneLeader
  <2>2. resets[c] = recovery_count /\ ~HasReset(event_list[c]) /\ Number(c) = recovery_count
    BY <1>0, <1>1, <2>1 DEF Leader, Number
  <2>3. \A d \in Cpus : resets[d] + 1 # recovery_count
    <3> SUFFICES ASSUME NEW d \in Cpus, resets[d] + 1 = recovery_count PROVE FALSE
      OBVIOUS
    <3>1. /\ entered[c] = 3 * resets[c] /\ entered[d] = 3 * resets[d] + Phase(pc[d])
          /\ Phase(pc[d]) \in {0, 1, 2} /\ entered[d] >= entered[c]
      BY <1>0, <1>1 DEF Rounds, Phase
    <3> QED
      BY <1>0, <2>2, <3>1
  <2>4. \A d \in Cpus : d # c => /\ ~HasReset(event_list[d]) /\ resets[d] = recovery_count
                                 /\ pc[d] \notin Inside \cup {"count", "broadcast"}
    BY <2>1, <2>2, <2>3 DEF Follower, Owed
  <2>5. AtRest'
    BY <1>1, <2>2, <2>4 DEF AtRest, Inside
  <2>6. Following'
    BY <1>1, <2>1 DEF Following
  <2>7. FreshStart'
    <3>1. \A d \in Cpus : pc'[d] \in {"recovering", "mark"} => pc'[d] = pc[d]
      BY <1>1
    <3>2. \A d \in Cpus : pc[d] \in {"recovering", "mark"} => Fresh(d)
      BY <2>1, <2>2, <2>3 DEF Alone, FreshStart
    <3> QED
      BY <1>1, <3>1, <3>2 DEF FreshStart, Fresh
  <2> QED
    BY <1>2, <1>3, <2>5, <2>6, <2>7 DEF Alone
<1>5. CASE ~leading[c]
  <2>1. \A d \in Cpus : leading'[d] <=> leading[d]
    BY <1>0, <1>1, <1>5
  <2>2. \A l \in Cpus : leading[l] => l # c
    BY <1>5
  <2>3. \A l \in Cpus : leading[l] => Number(l)' = Number(l)
    BY <1>1, <2>2 DEF Number
  <2>4. ASSUME NEW l \in Cpus, leading[l]
        PROVE  Leader(l)' /\ \A d \in Cpus : d # l => Follower(l, d)'
    <3>1. Leader(l) /\ \A d \in Cpus : d # l => Follower(l, d)
      BY <2>4 DEF Alone, Following
    <3>2. pc'[l] = pc[l] /\ Number(l)' = Number(l)
      BY <1>1, <2>2, <2>3, <2>4
    <3>3. Leader(l)'
      BY <1>1, <3>1, <3>2 DEF Leader
    <3>4. \A d \in Cpus : /\ Unsent(l, d)' <=> Unsent(l, d)
                          /\ Owed(l, d)' <=> Owed(l, d)
      BY <1>1, <3>2 DEF Unsent, Owed
    <3>5. \A d \in Cpus : /\ pc'[d] \in Inside <=> pc[d] \in Inside
                          /\ pc'[d] \in {"count", "broadcast"} => pc'[d] = pc[d]
      BY <1>1 DEF Inside
    <3>6. \A d \in Cpus : d # l => Follower(l, d)'
      BY <1>1, <3>1, <3>2, <3>4, <3>5 DEF Follower
    <3> QED
      BY <3>3, <3>6
  <2>5. Following'
    BY <2>1, <2>4 DEF Following
  <2>6. AtRest'
    <3>1. \A d \in Cpus : pc'[d] \in Inside \cup {"count", "broadcast"} => pc'[d] = pc[d]
      BY <1>1 DEF Inside
    <3> QED
      BY <1>1, <2>1, <3>1 DEF Alone, AtRest
  <2>7. FreshStart'
    <3>1. \A d \in Cpus : pc'[d] \in {"recovering", "mark"} => pc'[d] = pc[d]
      BY <1>1
    <3> QED
      BY <1>1, <2>1, <2>3, <3>1 DEF Alone, FreshStart, Fresh
  <2> QED
    BY <1>2, <1>3, <2>5, <2>6, <2>7 DEF Alone
<1> QED
  BY <1>4, <1>5

-----------------------------------------------------------------------------
\* The count of the recoveries holds in every reachable state.
LEMMA SpecLimitInv == Spec => []LimitInv
<1>1. Init => LimitInv
  BY InitType, InitRounds, InitAlone DEF LimitInv, RestartInv
<1>2. ASSUME LimitInv, [Next]_vars PROVE LimitInv'
  <2>1. RestartInv' /\ TypeOK /\ Rounds
    BY <1>2, NextType, NextRounds DEF LimitInv, RestartInv
  <2>2. ASSUME ~doubled' PROVE Alone'
    <3>1. CASE UNCHANGED vars
      <4>1. Alone
        BY <1>2, <2>2, <3>1 DEF vars, LimitInv
      <4> QED
        BY <3>1, <4>1 DEF vars, Alone, OneEach, OneLeader, Following, AtRest, FreshStart,
                          WithinLimit, Leader, Follower, Owed, Unsent, Number, Fresh
    <3>2. ASSUME NEW c \in Cpus,
                 \/ Outside(c) \/ StopVcpu(c) \/ AllStopped(c)
                 \/ vm_reinstall_image(c) \/ ResetVcpu(c) \/ Resume(c)
          PROVE  Alone'
      <4>1. UNCHANGED doubled \/ MarkRecovering(c)
        BY <3>2 DEF Outside, HeartbeatStatus, Elapsed, Missed, Judge, vm_recovery_start,
                    TestRecovering, CountRecovery, vm_msg_broadcast, HandleMsg, HandlerReturns,
                    TrapAck, FirmwareIpi, SoftIrq, health_monitor_heartbeat,
                    health_monitor_check, sbi_hsm_start_handler, StopVcpu, AllStopped,
                    vm_reinstall_image, ResetVcpu, Resume, ghosts
      <4>2. ~doubled
        BY <2>2, <4>1 DEF MarkRecovering
      <4>3. Alone
        BY <1>2, <4>2 DEF LimitInv
      <4> QED
        BY <2>1, <2>2, <3>2, <4>3, QuietAlone, MarkAlone, CountAlone, BroadcastAlone,
           HandleAlone, HartStartAlone, ResetAlone, ResumeAlone DEF Outside
    <3> QED
      BY <1>2, <3>1, <3>2, NextCases
  <2> QED
    BY <2>1, <2>2 DEF LimitInv
<1> QED
  BY <1>1, <1>2, PTL DEF Spec

\* Unless two cores were in vm_recovery_start at once, the test against
\* max_recoveries bounds how often the image is installed again.
THEOREM RecoveriesAreLimited == Spec => []RecoveryLimit
<1>1. ASSUME LimitInv PROVE RecoveryLimit
  <2> SUFFICES ASSUME max_recoveries > 0, ~doubled PROVE images <= max_recoveries
    BY DEF RecoveryLimit
  <2>1. /\ TypeOK /\ Rounds /\ Alone /\ Master \in Cpus
        /\ recovery_count \in Nat /\ resets \in [Cpus -> Nat] /\ max_recoveries \in Nat
    BY <1>1, RecoveryAssumption DEF LimitInv, RestartInv, TypeOK
  <2>2. images = resets[Master] + (IF pc[Master] = "imaged" THEN 1 ELSE 0)
    BY <2>1 DEF Rounds
  <2>3. /\ recovery_count <= max_recoveries
        /\ \A l \in Cpus : Number(l) <= max_recoveries /\ Number(l) \in Nat
    BY <2>1 DEF Alone, WithinLimit, Number
  <2>4. CASE \A l \in Cpus : ~leading[l]
    <3>1. resets[Master] = recovery_count /\ pc[Master] # "imaged"
      BY <2>1, <2>4 DEF Alone, AtRest, Inside
    <3> QED
      BY <2>1, <2>2, <2>3, <3>1
  <2>5. ASSUME NEW l \in Cpus, leading[l] PROVE images <= max_recoveries
    <3>1. Leader(l) /\ (Master # l => Follower(l, Master))
      BY <2>1, <2>5 DEF Alone, Following
    <3>2. \/ resets[Master] + 1 = Number(l)
          \/ resets[Master] = Number(l) /\ pc[Master] # "imaged"
      <4>1. CASE Master = l
        BY <3>1, <4>1 DEF Leader
      <4>2. CASE Master # l
        BY <3>1, <4>2 DEF Follower, Inside
      <4> QED
        BY <4>1, <4>2
    <3> QED
      BY <2>1, <2>2, <2>3, <3>2
  <2> QED
    BY <2>4, <2>5
<1> QED
  BY <1>1, SpecLimitInv, PTL
=============================================================================
