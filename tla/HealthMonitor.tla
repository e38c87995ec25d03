---------------------------- MODULE HealthMonitor ----------------------------
(***************************************************************************)
(* The VM health monitor: health_monitor_init, health_monitor_heartbeat    *)
(* and health_monitor_check of src/core/health_monitor.c, run from the     *)
(* timer interrupt and the set-timer call of src/arch/riscv/sbi.c.  The VM *)
(* has auto_recover off, so vm_recovery_start returns at once;             *)
(* VmRecovery.tla has the restart.                                         *)
(*                                                                         *)
(* Points in time are kept as the ticks that have passed since, so no run  *)
(* is too long for the model: last_heartbeat is the variable age, the time *)
(* a core has read into now is delay.  Their difference is unsigned, as in *)
(* the code.  No lock protects vm->health, which the cores of the VM share: *)
(* each access that another core can come in between is a step.            *)
(* The guest may stop making calls for ever.                               *)
(***************************************************************************)
EXTENDS Integers, FiniteSetsExt

CONSTANTS
    Cpus,           \* the cores of the VM
    Timeout,        \* heartbeat_timeout, in ticks
    max_missed,     \* vm->health.max_missed
    Watchdog,       \* HEALTH_WATCHDOG_TICKS
    Arms,           \* bound: ticks ahead for which guests set their timer
    Mod,            \* uint64_t arithmetic is modulo this
    MaxDelay,       \* bound: ticks from reading the time to using it
    MaxMissedCount  \* bound: missed_count is followed up to here

ASSUME HealthAssumption ==
    /\ {Timeout, max_missed, Watchdog, MaxMissedCount} \subseteq Nat \ {0}
    /\ MaxDelay \in Nat
    /\ IsFiniteSet(Cpus)
    /\ Arms \subseteq Nat /\ \E k \in Arms : \A l \in Arms : l <= k
    /\ Mod \in Nat /\ Mod > 2 * (Timeout + MaxDelay + 1)
    /\ max_missed <= MaxMissedCount

OFF == -1   \* the timer is not going to fire

VARIABLES
    status,         \* vm->health.status
    age,            \* ticks since vm->health.last_heartbeat
    missed_count,   \* vm->health.missed_count
    timer,          \* ticks until the core's timer fires, 0 if it has, or OFF
    stie,           \* sie.STIE of the core
    pc,             \* where the core is
    delay,          \* ticks since the time a core has read
    cnt,            \* register with the missed_count a core has loaded
    hung,           \* ticks since the guest hung, OFF while it is alive
    slow,           \* history: a timer interrupt was taken, or a handler came to
                    \* its end, in a later tick than it began
    silent,         \* history: ticks since the last heartbeat call
    misses,         \* history: overdue checks since the last heartbeat
    overlap         \* history: a check overlapped the last heartbeat

health  == <<status, age, missed_count>>
local   == <<delay, cnt>>
history == <<slow, silent, misses, overlap>>
vars    == <<status, age, missed_count, timer, stie, pc, delay, cnt, hung,
             slow, silent, misses, overlap>>

HeartbeatPcs == {"heartbeat", "healthy"}
CheckPcs     == {"elapsed", "overdue", "missed", "judge"}

Goto(c, label) == pc' = [pc EXCEPT ![c] = label]

\* The latest tick, after the guest hung with a timer set, at which the VM is
\* found UNHEALTHY: the first check that can find it overdue, and
\* max_missed - 1 watchdog periods.
Latency == Max({Max(Arms), Timeout + Watchdog}) + (max_missed - 1) * Watchdog

\* An age counts up to the bound beyond which nothing depends on it.
UpTo(x, bound) == IF x < bound THEN x + 1 ELSE x
MaxAge == Timeout + MaxDelay + 1

-----------------------------------------------------------------------------
\* health_monitor_init, with monitoring configured or not; no timer is set.
Init ==
    /\ status \in {"HEALTHY", "NOT_MONITORED"}
    /\ age = 0
    /\ missed_count = 0
    /\ timer = [c \in Cpus |-> OFF]
    /\ stie = [c \in Cpus |-> FALSE]
    /\ pc = [c \in Cpus |-> "guest"]
    /\ delay = [c \in Cpus |-> 0]
    /\ cnt = [c \in Cpus |-> 0]
    /\ hung = OFF
    /\ slow = FALSE
    /\ silent = 0
    /\ misses = 0
    /\ overlap = FALSE

\* The core has a timer interrupt to take.
Fires(c) == pc[c] = "guest" /\ timer[c] = 0 /\ stie[c]

\* A tick: handlers run on for at most MaxDelay ticks after reading the time.
Tick ==
    /\ \A c \in Cpus : /\ Fires(c) => MaxDelay > 0
                       /\ pc[c] # "guest" => delay[c] < MaxDelay
    /\ age' = UpTo(age, MaxAge)
    /\ delay' = [c \in Cpus |-> IF pc[c] = "guest" THEN 0 ELSE delay[c] + 1]
    /\ timer' = [c \in Cpus |-> IF timer[c] > 0 THEN timer[c] - 1 ELSE timer[c]]
    /\ hung' = IF hung = OFF THEN OFF ELSE UpTo(hung, Latency + 1)
    /\ slow' = (slow \/ \E c \in Cpus : Fires(c) \/ pc[c] # "guest")
    /\ silent' = UpTo(silent, MaxAge)
    /\ UNCHANGED <<status, missed_count, stie, pc, cnt, misses, overlap>>

\* The guest stops making calls, on all its cores and for ever.
Hang ==
    /\ hung = OFF
    /\ hung' = 0
    /\ UNCHANGED <<health, timer, stie, pc, local, history>>

\* sbi_time_handler: the guest sets its timer, or switches it off.
sbi_time_handler(c) ==
    /\ pc[c] = "guest" /\ hung = OFF
    /\ \E k \in Arms \cup {OFF} : timer' = [timer EXCEPT ![c] = k]
    /\ stie' = [stie EXCEPT ![c] = TRUE]
    /\ UNCHANGED <<health, pc, local, hung, history>>

\* health_monitor_heartbeat: nothing for an unmonitored VM, else the time ...
health_monitor_heartbeat(c) ==
    /\ pc[c] = "guest" /\ hung = OFF
    /\ status # "NOT_MONITORED"
    /\ delay' = [delay EXCEPT ![c] = 0]
    /\ silent' = 0
    /\ overlap' = \E d \in Cpus : pc[d] \in CheckPcs
    /\ Goto(c, "heartbeat")
    /\ UNCHANGED <<health, timer, stie, cnt, hung, slow, misses>>

\* Mutant of StoreHeartbeat: missed_count is not reset.
KeepsMissedCount(c) ==
    /\ pc[c] = "heartbeat"
    /\ age' = delay[c]
    /\ delay' = [delay EXCEPT ![c] = 0]
    /\ Goto(c, "healthy")
    /\ UNCHANGED <<status, missed_count, timer, stie, cnt, hung, history>>

\* ... is stored and missed_count reset, ...
StoreHeartbeat(c) ==
    /\ pc[c] = "heartbeat"
    /\ age' = delay[c]
    /\ missed_count' = 0
    /\ delay' = [delay EXCEPT ![c] = 0]
    /\ \/ Goto(c, "healthy") /\ UNCHANGED misses
       \/ /\ status = "HEALTHY"     \* the status is read now, and left alone
          /\ Goto(c, "guest")
          /\ misses' = 0
    /\ UNCHANGED <<status, timer, stie, cnt, hung, slow, silent, overlap>>

\* ... and the VM is healthy, whatever the status is by now.
StoreHealthy(c) ==
    /\ pc[c] = "healthy"
    /\ status' = "HEALTHY"
    /\ misses' = 0
    /\ delay' = [delay EXCEPT ![c] = 0]
    /\ Goto(c, "guest")
    /\ UNCHANGED <<age, missed_count, timer, stie, cnt, hung, slow, silent,
                   overlap>>

-----------------------------------------------------------------------------
\* sbi_timer_irq_handler: health_monitor_check reads the time.
health_monitor_check(c) ==
    /\ Fires(c)
    /\ IF status = "NOT_MONITORED"
       THEN Goto(c, "forward") /\ UNCHANGED overlap
       ELSE /\ Goto(c, "elapsed")
            /\ overlap' = (overlap \/ \E d \in Cpus : pc[d] \in HeartbeatPcs)
    /\ delay' = [delay EXCEPT ![c] = 0]
    /\ UNCHANGED <<health, timer, stie, cnt, hung, slow, silent, misses>>

\* elapsed = now - vm->health.last_heartbeat, in unsigned arithmetic.
Elapsed(c) == (age - delay[c]) % Mod

\* Mutant of CheckElapsed: overdue at the timeout, not after it.
OverdueAtTimeout(c) ==
    /\ pc[c] = "elapsed"
    /\ Goto(c, IF Elapsed(c) < Timeout THEN "forward" ELSE "overdue")
    /\ UNCHANGED <<health, timer, stie, local, hung, history>>

CheckElapsed(c) ==
    /\ pc[c] = "elapsed"
    /\ IF Elapsed(c) <= Timeout
       THEN Goto(c, "forward") /\ UNCHANGED misses
       ELSE Goto(c, "overdue") /\ misses' = UpTo(misses, max_missed)
    /\ UNCHANGED <<health, timer, stie, local, hung, slow, silent, overlap>>

\* missed_count++ is a load ...
Overdue(c) ==
    /\ pc[c] = "overdue"
    /\ cnt' = [cnt EXCEPT ![c] = UpTo(missed_count, MaxMissedCount)]
    /\ Goto(c, "missed")
    /\ UNCHANGED <<health, timer, stie, delay, hung, history>>

\* ... and a store.
Missed(c) ==
    /\ pc[c] = "missed"
    /\ missed_count' = cnt[c]
    /\ Goto(c, "judge")
    /\ UNCHANGED <<status, age, timer, stie, local, hung, history>>

\* The status follows from the incremented count, still in the register.
Judge(c) ==
    /\ pc[c] = "judge"
    /\ status' = IF cnt[c] >= max_missed THEN "UNHEALTHY" ELSE "SUSPECT"
    /\ cnt' = [cnt EXCEPT ![c] = 0]
    /\ Goto(c, "forward")
    /\ UNCHANGED <<age, missed_count, timer, stie, delay, hung, history>>

\* Mutant of Forward: the watchdog is not set again.
NoWatchdog(c) ==
    /\ pc[c] = "forward"
    /\ stie' = [stie EXCEPT ![c] = FALSE]
    /\ delay' = [delay EXCEPT ![c] = 0]
    /\ Goto(c, "guest")
    /\ UNCHANGED <<health, timer, cnt, hung, history>>

\* The interrupt is forwarded to the guest and masked; for a monitored VM the
\* timer is set again, as a watchdog, and unmasked.
Forward(c) ==
    /\ pc[c] = "forward"
    /\ IF status # "NOT_MONITORED"
       THEN /\ timer' = [timer EXCEPT ![c] = Watchdog]
            /\ stie' = [stie EXCEPT ![c] = TRUE]
       ELSE /\ stie' = [stie EXCEPT ![c] = FALSE]
            /\ UNCHANGED timer
    /\ delay' = [delay EXCEPT ![c] = 0]
    /\ Goto(c, "guest")
    /\ UNCHANGED <<health, cnt, hung, history>>

-----------------------------------------------------------------------------
Hypervisor(c) ==
    \/ StoreHeartbeat(c)
    \/ StoreHealthy(c)
    \/ health_monitor_check(c)
    \/ CheckElapsed(c)
    \/ Overdue(c)
    \/ Missed(c)
    \/ Judge(c)
    \/ Forward(c)

Guest(c) == sbi_time_handler(c) \/ health_monitor_heartbeat(c)

Next == Tick \/ Hang \/ \E c \in Cpus : Hypervisor(c) \/ Guest(c)

Spec == Init /\ [][Next]_vars

\* Time passes, interrupts are taken and handlers run to their end.
FairSpec == Spec /\ WF_vars(Tick) /\ \A c \in Cpus : WF_vars(Hypervisor(c))

-----------------------------------------------------------------------------
\* Types.
TypeOK ==
    /\ status \in {"HEALTHY", "SUSPECT", "UNHEALTHY", "NOT_MONITORED"}
    /\ age \in 0 .. MaxAge
    /\ missed_count \in 0 .. MaxMissedCount
    /\ timer \in [Cpus -> Arms \cup 0 .. Max(Arms \cup {Watchdog}) \cup {OFF}]
    /\ stie \in [Cpus -> BOOLEAN]
    /\ pc \in [Cpus -> {"guest", "forward"} \cup HeartbeatPcs \cup CheckPcs]
    /\ delay \in [Cpus -> 0 .. MaxDelay]
    /\ hung \in {OFF} \cup 0 .. Latency + 1
    /\ cnt \in [Cpus -> 0 .. MaxMissedCount]
    /\ slow \in BOOLEAN
    /\ silent \in 0 .. MaxAge
    /\ misses \in 0 .. max_missed
    /\ overlap \in BOOLEAN

\* By how much the heartbeat that is recorded may be older than the last one: two
\* cores may have stored the times they read in the other order.
Lateness == IF slow THEN MaxDelay ELSE 0

\* A check calls a heartbeat overdue only if, at the time it is compared with, none
\* was made for longer than the timeout, but for Lateness.  There are two
\* exceptions: a heartbeat is just being recorded; or one was recorded after the
\* check had read the time, of a later time than that, so that the unsigned
\* difference wraps and a VM is found overdue that has just been heard.
OverdueIsReal ==
    [][\A c \in Cpus :
          pc[c] = "elapsed" /\ pc'[c] = "overdue" =>
              \/ silent + Lateness > Timeout
              \/ \E d \in Cpus : pc[d] = "heartbeat"
              \/ age < delay[c]]_vars

\* A VM is judged UNHEALTHY, which has it restarted, only after max_missed
\* overdue checks since its last heartbeat, and SUSPECT only after one, however
\* the checks of its cores overlap and lose each other's increments.  The
\* exception is a heartbeat that overlaps a check: until the next heartbeat,
\* missed_count and status may then be what the check made of older values.
JudgedByMisses ==
    ~overlap /\ (\A c \in Cpus : pc[c] \notin HeartbeatPcs) =>
        /\ status = "UNHEALTHY" => misses >= max_missed
        /\ status = "SUSPECT" => misses >= 1

\* The guest of a monitored VM hangs, and a timer of it will fire.
MonitoredHang == hung # OFF /\ status # "NOT_MONITORED"
Armed == \E c \in Cpus : timer[c] # OFF /\ stie[c]

\* A hung guest whose timer was set is found UNHEALTHY within Latency ticks, as
\* long as every timer interrupt has been taken and handled within a tick.
DetectionLatency ==
    MonitoredHang /\ Armed /\ ~slow /\ hung > Latency => status = "UNHEALTHY"

\* The verdict of the monitor is right both ways: no VM is restarted on fewer
\* misses than configured, and none that hangs is left alone for longer.
VerdictIsRight == TypeOK /\ JudgedByMisses /\ DetectionLatency

\* The watchdog keeps itself going: a hung guest whose timer was set at the time
\* is found UNHEALTHY in the end.
ArmedHangDetected == MonitoredHang /\ Armed ~> status = "UNHEALTHY"
=============================================================================
