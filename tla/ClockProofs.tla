----------------------------- MODULE ClockProofs -----------------------------
(***************************************************************************)
(* Proofs about the two components that measure time by the ticks of the   *)
(* timer: the health monitor of HealthMonitor.tla and the token bucket of  *)
(* IrqRateLimit.tla.  They share no state.                                 *)
(*                                                                         *)
(*   JudgeInv     why a verdict is never harsher than the checks behind    *)
(*                it, however long handlers take.                          *)
(*   TimelyInv    why a check that finds a heartbeat overdue is right,     *)
(*                however long handlers take, and a hung VM is found in    *)
(*                time as long as they take less than a tick.              *)
(*   BucketInv    why no more is let through than the rate has earned.     *)
(***************************************************************************)
EXTENDS HealthMonitor, IrqRateLimit, FiniteSetTheorems, TLAPS

\* The cores about to load missed_count, and those that hold what they loaded.
Overdues   == {c \in Cpus : pc[c] = "overdue"}
Holding(c) == pc[c] \in {"missed", "judge"}

\* A core holds an incremented count, and a VM that is not monitored is neither
\* checked nor does it have its heartbeats recorded.
Locals ==
    /\ \A c \in Cpus : Holding(c) => cnt[c] >= 1
    /\ status = "NOT_MONITORED" => \A c \in Cpus : pc[c] \in {"guest", "forward"}

\* Unless a check overlapped the last heartbeat, no check runs while one is
\* recorded, and the count is zero once the last of them has been.
Recording == \E c \in Cpus : pc[c] \in HeartbeatPcs
Apart ==
    ~overlap /\ Recording =>
        /\ \A c \in Cpus : pc[c] \notin CheckPcs
        /\ missed_count = 0 \/ \E c \in Cpus : pc[c] = "heartbeat"

\* Then misses covers the count, with the increments to come, wherever it is.
Covered(n) == misses = max_missed \/ n <= misses
Accounted ==
    ~overlap /\ ~Recording =>
        /\ Covered(missed_count + Cardinality(Overdues))
        /\ \A c \in Cpus :
               /\ pc[c] = "missed" => Covered(cnt[c] + Cardinality(Overdues))
               /\ pc[c] = "judge" => Covered(cnt[c])
        /\ status = "UNHEALTHY" => misses >= max_missed
        /\ status = "SUSPECT" => misses >= 1

\* The inductive invariant behind JudgedByMisses, for handlers of any length.
JudgeInv == TypeOK /\ Locals /\ Apart /\ Accounted

-----------------------------------------------------------------------------
\* The heartbeat that is recorded, unless one is being recorded, is older than the
\* last by no more than a handler takes.
Recent == (\E c \in Cpus : pc[c] = "heartbeat") \/ age <= silent + MaxDelay

\* What follows is for handlers that have taken less than a tick: what they have
\* read is the time it is.
Prompt == \A c \in Cpus : delay[c] = 0

\* last_heartbeat is the time of the last call, or one being recorded was made in
\* this tick.
Fresh ==
    \/ age = silent /\ \A c \in Cpus : pc[c] # "heartbeat"
    \/ silent = 0 /\ \E c \in Cpus : pc[c] = "heartbeat"

\* Once the guest has hung, no heartbeat is recorded after that tick.
Quiet == hung > 0 => ~Recording
Aged  == hung # OFF => hung <= age \/ age > Timeout

\* The count is at least k and stays so; after the next store it is above k.
AtLeast(k) ==
    missed_count >= k /\ \A c \in Cpus : Holding(c) => cnt[c] >= k
Above(k) ==
    missed_count >= k /\ \A c \in Cpus : Holding(c) => cnt[c] > k

\* The latest tick at which a hung VM may still have only k misses.
Due(k) == Max({Max(Arms), Timeout + Watchdog}) + k * Watchdog

\* Where core c is, the misses to come are still in time.
Waits(c)  == pc[c] = "guest" /\ timer[c] > 0 /\ stie[c]
Checks(c) == Fires(c) \/ pc[c] \in {"elapsed", "overdue", "missed"}
InTime(c) ==
    /\ Waits(c) =>
          \E k \in 0 .. max_missed - 1 : AtLeast(k) /\ hung + timer[c] <= Due(k)
    /\ Checks(c) =>
          \E k \in 0 .. max_missed - 1 : Above(k) /\ hung <= Due(k)
    /\ pc[c] = "judge" =>
          /\ hung <= Due(max_missed - 1)
          /\ \E k \in 0 .. max_missed :
                 AtLeast(k) /\ (k < max_missed => hung + Watchdog <= Due(k))
    /\ pc[c] = "forward" =>
          \E k \in 0 .. max_missed - 1 :
              AtLeast(k) /\ hung + Watchdog <= Due(k)

\* A hung VM has been found, for good, or is going to be in time.
Found     == status = "UNHEALTHY" /\ AtLeast(max_missed)
Deadlines == MonitoredHang => Found \/ \A c \in Cpus : InTime(c)

\* The inductive invariant behind OverdueIsReal and DetectionLatency.
TimelyInv ==
    /\ TypeOK /\ Locals /\ Recent
    /\ ~slow => Prompt /\ Fresh /\ Quiet /\ Aged /\ Deadlines

-----------------------------------------------------------------------------
\* What Max finds in a set that has a greatest element.
LEMMA MaxIs ==
  ASSUME NEW S, S \subseteq Int, NEW x \in S, \A y \in S : y <= x
  PROVE  Max(S) \in S /\ \A y \in S : y <= Max(S)
<1>1. x \in Int /\ \A y \in S : y \in Int /\ x >= y
  OBVIOUS
<1>2. PICK m : m = Max(S)
  OBVIOUS
<1>3. m \in S /\ \A y \in S : m >= y
  BY <1>1, <1>2 DEF Max
<1> QED
  BY <1>1, <1>2, <1>3

\* The timers that are set, by guests or as watchdogs, and the first deadline.
LEMMA Longest ==
  /\ Max(Arms \cup {Watchdog}) \in Nat
  /\ \A k \in Arms : k <= Max(Arms \cup {Watchdog})
  /\ Watchdog <= Max(Arms \cup {Watchdog})
  /\ Max(Arms) \in Nat /\ \A k \in Arms : k <= Max(Arms)
<1>1. PICK a \in Arms : \A l \in Arms : l <= a
  BY HealthAssumption
<1>2. Arms \subseteq Int /\ Watchdog \in Nat /\ a \in Nat /\ Arms \subseteq Nat
  BY HealthAssumption
<1>3. Max(Arms) \in Arms /\ \A k \in Arms : k <= Max(Arms)
  BY <1>1, <1>2, MaxIs
<1> DEFINE S == Arms \cup {Watchdog}
<1>4. PICK x \in S : \A y \in S : y <= x
  <2>1. CASE a <= Watchdog
    <3>1. \A y \in Arms : y <= Watchdog
      BY <1>1, <1>2, <2>1
    <3> QED
      BY <1>2, <3>1
  <2>2. CASE Watchdog <= a
    BY <1>1, <2>2
  <2> QED
    BY <1>2, <2>1, <2>2
<1>5. Max(S) \in S /\ \A y \in S : y <= Max(S)
  <2>1. S \subseteq Int
    BY <1>2
  <2> HIDE DEF S
  <2> QED
    BY <1>4, <2>1, MaxIs
<1> QED
  BY <1>2, <1>3, <1>5

\* The deadlines are a watchdog period apart.
LEMMA DueFacts ==
  /\ Due(0) \in Nat /\ Max(Arms) <= Due(0) /\ Timeout + Watchdog <= Due(0)
  /\ Max(Arms \cup {Watchdog}) <= Due(0)
  /\ Latency \in Nat /\ Latency = Due(max_missed - 1)
  /\ \A k \in Nat : /\ Due(k) \in Nat
                    /\ Due(k + 1) = Due(k) + Watchdog
                    /\ Due(0) <= Due(k)
  /\ \A k \in 0 .. max_missed - 1 : Due(k) <= Due(max_missed - 1)
<1> DEFINE S == {Max(Arms), Timeout + Watchdog}
           D == Max(S)
<1>1. /\ Timeout \in Nat /\ Watchdog \in Nat \ {0} /\ max_missed \in Nat \ {0}
      /\ Arms \subseteq Nat
  BY HealthAssumption
<1>2. Max(S) \in S /\ \A y \in S : y <= Max(S)
  <2>1. S \subseteq Int
    BY <1>1, Longest
  <2>2. PICK x \in S : \A y \in S : y <= x
    BY <1>1, Longest
  <2> HIDE DEF S
  <2> QED
    BY <2>1, <2>2, MaxIs
<1>3. D \in Nat /\ Max(Arms) <= D /\ Timeout + Watchdog <= D
  <2>1. Max(Arms) \in Nat /\ Timeout + Watchdog \in Nat
    BY <1>1, Longest
  <2> QED
    BY <1>2, <2>1
<1>4. \A k : Due(k) = D + k * Watchdog
  BY DEF Due
<1>5. Latency = D + (max_missed - 1) * Watchdog
  BY DEF Latency
<1>6. Max(Arms \cup {Watchdog}) <= D
  <2>1. PICK a \in Arms : \A l \in Arms : l <= a
    BY HealthAssumption
  <2>2. Max(Arms \cup {Watchdog}) \in Arms \cup {Watchdog}
    <3> DEFINE T == Arms \cup {Watchdog}
    <3>1. PICK x \in T : \A y \in T : y <= x
      BY <1>1, <2>1
    <3>2. T \subseteq Int
      BY <1>1
    <3> HIDE DEF T
    <3>3. Max(T) \in T
      BY <3>1, <3>2, MaxIs
    <3> QED
      BY <3>3 DEF T
  <2>3. CASE Max(Arms \cup {Watchdog}) = Watchdog
    <3> HIDE DEF D
    <3> QED BY <1>1, <1>3, <2>3
  <2>4. CASE Max(Arms \cup {Watchdog}) \in Arms
    <3> HIDE DEF D
    <3>1. Max(Arms \cup {Watchdog}) <= Max(Arms)
      BY <2>4, Longest
    <3> QED BY <1>1, <1>3, <2>4, <3>1, Longest
  <2> QED
    BY <2>2, <2>3, <2>4
<1> HIDE DEF D
<1>7. \A k \in Nat : k * Watchdog \in Nat /\ (k + 1) * Watchdog = k * Watchdog + Watchdog
  BY <1>1
<1>8. 0 * Watchdog = 0
  BY <1>1
<1>9. \A k \in 0 .. max_missed - 1 : k * Watchdog <= (max_missed - 1) * Watchdog
  BY <1>1
<1>10. max_missed - 1 \in Nat
  BY <1>1
<1>11. \A k \in Nat : Due(k) \in Nat /\ Due(k + 1) = Due(k) + Watchdog /\ Due(0) <= Due(k)
  BY <1>1, <1>3, <1>4, <1>7, <1>8
<1>12. Due(0) = D
  BY <1>3, <1>4, <1>8
<1>13. \A k \in 0 .. max_missed - 1 : Due(k) <= Due(max_missed - 1)
  <2> TAKE k \in 0 .. max_missed - 1
  <2>1. k \in Nat
    BY <1>10
  <2> QED
    BY <1>3, <1>4, <1>7, <1>9, <1>10, <2>1
<1> QED
  BY <1>3, <1>4, <1>5, <1>6, <1>10, <1>11, <1>12, <1>13

-----------------------------------------------------------------------------
\* The steps, one by one.
LEMMA NextCases ==
  ASSUME Next
  PROVE  \/ Tick \/ Hang
         \/ \E c \in Cpus :
               \/ StoreHeartbeat(c) \/ StoreHealthy(c) \/ health_monitor_check(c)
               \/ CheckElapsed(c) \/ Overdue(c) \/ Missed(c) \/ Judge(c)
               \/ Forward(c) \/ sbi_time_handler(c) \/ health_monitor_heartbeat(c)
BY DEF Next, Hypervisor, Guest

\* The constants.
LEMMA Constants ==
  /\ Timeout \in Nat \ {0} /\ max_missed \in Nat \ {0} /\ Watchdog \in Nat \ {0}
  /\ MaxMissedCount \in Nat \ {0} /\ max_missed <= MaxMissedCount
  /\ MaxDelay \in Nat /\ MaxAge \in Nat /\ MaxAge = Timeout + MaxDelay + 1
  /\ Mod \in Nat /\ Mod > MaxAge /\ OFF \notin Nat /\ OFF = -1
BY HealthAssumption DEF MaxAge, OFF

\* Counting up to a bound stays within it.
LEMMA UpToFacts ==
  ASSUME NEW b \in Nat, NEW x \in 0 .. b
  PROVE  UpTo(x, b) \in 0 .. b /\ x <= UpTo(x, b) /\ UpTo(x, b) <= x + 1
         /\ (x < b => UpTo(x, b) = x + 1) /\ (x = b => UpTo(x, b) = b)
BY DEF UpTo

\* A step keeps the types.
LEMMA TypeStep ==
  ASSUME TypeOK, [Next]_vars
  PROVE  TypeOK'
<1> DEFINE Timers == Arms \cup 0 .. Max(Arms \cup {Watchdog}) \cup {OFF}
           Pcs == {"guest", "forward"} \cup HeartbeatPcs \cup CheckPcs
<1>1. /\ 0 \in Timers /\ Watchdog \in Timers /\ OFF \in Timers /\ Arms \subseteq Timers
      /\ \A t \in Timers : t > 0 => t - 1 \in Timers
  <2>1. Max(Arms \cup {Watchdog}) \in Nat /\ Watchdog \in 0 .. Max(Arms \cup {Watchdog})
    BY Longest, Constants
  <2>2. ASSUME NEW t \in Timers, t > 0
        PROVE  t - 1 \in Timers
    <3>1. t \in Nat /\ t <= Max(Arms \cup {Watchdog})
      BY <2>1, <2>2, Longest, Constants, HealthAssumption
    <3>2. t - 1 \in 0 .. Max(Arms \cup {Watchdog})
      BY <2>1, <2>2, <3>1
    <3> QED
      BY <3>2
  <2>3. 0 \in Timers /\ Watchdog \in Timers /\ OFF \in Timers /\ Arms \subseteq Timers
    BY <2>1
  <2> HIDE DEF Timers
  <2> QED
    BY <2>2, <2>3
<1>2. /\ {"guest", "forward", "heartbeat", "healthy", "elapsed", "overdue",
          "missed", "judge"} \subseteq Pcs
  BY DEF HeartbeatPcs, CheckPcs
<1> HIDE DEF Timers, Pcs
<1>3. /\ status \in {"HEALTHY", "SUSPECT", "UNHEALTHY", "NOT_MONITORED"}
      /\ age \in 0 .. MaxAge
      /\ missed_count \in 0 .. MaxMissedCount
      /\ timer \in [Cpus -> Timers]
      /\ stie \in [Cpus -> BOOLEAN]
      /\ pc \in [Cpus -> Pcs]
      /\ delay \in [Cpus -> 0 .. MaxDelay]
      /\ hung \in {OFF} \cup 0 .. Latency + 1
      /\ cnt \in [Cpus -> 0 .. MaxMissedCount]
      /\ slow \in BOOLEAN /\ silent \in 0 .. MaxAge
      /\ misses \in 0 .. max_missed
      /\ overlap \in BOOLEAN
  BY DEF TypeOK, Timers, Pcs
<1> SUFFICES
      /\ status' \in {"HEALTHY", "SUSPECT", "UNHEALTHY", "NOT_MONITORED"}
      /\ age' \in 0 .. MaxAge
      /\ missed_count' \in 0 .. MaxMissedCount
      /\ timer' \in [Cpus -> Timers]
      /\ stie' \in [Cpus -> BOOLEAN]
      /\ pc' \in [Cpus -> Pcs]
      /\ delay' \in [Cpus -> 0 .. MaxDelay]
      /\ hung' \in {OFF} \cup 0 .. Latency + 1
      /\ cnt' \in [Cpus -> 0 .. MaxMissedCount]
      /\ slow' \in BOOLEAN /\ silent' \in 0 .. MaxAge
      /\ misses' \in 0 .. max_missed
      /\ overlap' \in BOOLEAN
  BY DEF TypeOK, Timers, Pcs
<1>4. \A c \in Cpus, l \in Pcs : [pc EXCEPT ![c] = l] \in [Cpus -> Pcs]
  BY <1>3
<1>5. \A c \in Cpus : [delay EXCEPT ![c] = 0] \in [Cpus -> 0 .. MaxDelay]
  BY <1>3, Constants
<1>7. CASE UNCHANGED vars
  BY <1>3, <1>7 DEF vars
<1>8. CASE Tick
  <2> USE <1>8 DEF Tick
  <2>1. age' \in 0 .. MaxAge
    BY <1>3, Constants, UpToFacts
  <2>2. delay' \in [Cpus -> 0 .. MaxDelay]
    BY <1>3, Constants
  <2>3. timer' \in [Cpus -> Timers]
    BY <1>1, <1>3
  <2>4. hung' \in {OFF} \cup 0 .. Latency + 1
    BY <1>3, DueFacts, UpToFacts
  <2>5. slow' \in BOOLEAN /\ silent' \in 0 .. MaxAge
    BY <1>3, Constants, UpToFacts
  <2> QED
    BY <1>3, <2>1, <2>2, <2>3, <2>4, <2>5
<1>9. CASE Hang
  BY <1>3, <1>9, DueFacts DEF Hang, health, local, history
<1>11. ASSUME NEW c \in Cpus,
              \/ StoreHeartbeat(c) \/ StoreHealthy(c) \/ health_monitor_check(c)
              \/ CheckElapsed(c) \/ Overdue(c) \/ Missed(c) \/ Judge(c)
              \/ Forward(c) \/ sbi_time_handler(c) \/ health_monitor_heartbeat(c)
       PROVE  /\ status' \in {"HEALTHY", "SUSPECT", "UNHEALTHY", "NOT_MONITORED"}
              /\ age' \in 0 .. MaxAge
              /\ missed_count' \in 0 .. MaxMissedCount
              /\ timer' \in [Cpus -> Timers]
              /\ stie' \in [Cpus -> BOOLEAN]
              /\ pc' \in [Cpus -> Pcs]
              /\ delay' \in [Cpus -> 0 .. MaxDelay]
              /\ hung' \in {OFF} \cup 0 .. Latency + 1
              /\ cnt' \in [Cpus -> 0 .. MaxMissedCount]
              /\ slow' \in BOOLEAN /\ silent' \in 0 .. MaxAge
              /\ misses' \in 0 .. max_missed
              /\ overlap' \in BOOLEAN
  <2> USE DEF health, local, history, Goto
  <2>1. CASE StoreHeartbeat(c)
    <3>1. delay[c] \in 0 .. MaxAge
      BY <1>3, Constants
    <3> QED
      BY <1>2, <1>3, <1>4, <1>5, <2>1, <3>1, Constants DEF StoreHeartbeat
  <2>2. CASE StoreHealthy(c)
    BY <1>2, <1>3, <1>4, <1>5, <2>2, Constants DEF StoreHealthy
  <2>3. CASE health_monitor_check(c)
    BY <1>2, <1>3, <1>4, <1>5, <2>3 DEF health_monitor_check
  <2>4. CASE CheckElapsed(c)
    <3>1. UpTo(misses, max_missed) \in 0 .. max_missed
      BY <1>3, Constants, UpToFacts
    <3> QED
      BY <1>2, <1>3, <1>4, <2>4, <3>1 DEF CheckElapsed
  <2>5. CASE Overdue(c)
    <3>1. UpTo(missed_count, MaxMissedCount) \in 0 .. MaxMissedCount
      BY <1>3, Constants, UpToFacts
    <3> QED
      BY <1>2, <1>3, <1>4, <2>5, <3>1 DEF Overdue
  <2>6. CASE Missed(c)
    BY <1>2, <1>3, <1>4, <2>6 DEF Missed
  <2>7. CASE Judge(c)
    BY <1>2, <1>3, <1>4, <2>7, Constants DEF Judge
  <2>8. CASE Forward(c)
    BY <1>1, <1>2, <1>3, <1>4, <1>5, <2>8 DEF Forward
  <2>9. CASE sbi_time_handler(c)
    <3>1. timer' \in [Cpus -> Timers]
      BY <1>1, <1>3, <2>9 DEF sbi_time_handler
    <3> QED
      BY <1>3, <2>9, <3>1 DEF sbi_time_handler
  <2>10. CASE health_monitor_heartbeat(c)
    BY <1>2, <1>3, <1>4, <1>5, <2>10, Constants DEF health_monitor_heartbeat
  <2> QED
    BY <1>11, <2>1, <2>2, <2>3, <2>4, <2>5, <2>6, <2>7, <2>8, <2>9, <2>10
<1> QED
  BY <1>7, <1>8, <1>9, <1>11, NextCases

\* A step keeps the locals right.
LEMMA LocalsStep ==
  ASSUME TypeOK, Locals, [Next]_vars
  PROVE  Locals'
<1> USE DEF Locals, Holding
<1>1. /\ pc \in [Cpus -> {"guest", "forward"} \cup HeartbeatPcs \cup CheckPcs]
      /\ cnt \in [Cpus -> 0 .. MaxMissedCount]
      /\ missed_count \in 0 .. MaxMissedCount
  BY DEF TypeOK
<1>2. CASE UNCHANGED vars
  BY <1>2 DEF vars
<1>3. CASE Tick
  BY <1>3 DEF Tick
<1>4. CASE Hang
  BY <1>4 DEF Hang, health, local
<1>5. ASSUME NEW c \in Cpus,
             \/ StoreHeartbeat(c) \/ StoreHealthy(c) \/ health_monitor_check(c)
             \/ CheckElapsed(c) \/ Overdue(c) \/ Missed(c) \/ Judge(c)
             \/ Forward(c) \/ sbi_time_handler(c) \/ health_monitor_heartbeat(c)
      PROVE  Locals'
  <2> USE DEF health, local, Goto
  <2>1. CASE StoreHeartbeat(c)
    BY <1>1, <2>1 DEF StoreHeartbeat
  <2>2. CASE StoreHealthy(c)
    BY <1>1, <2>2 DEF StoreHealthy
  <2>3. CASE health_monitor_check(c)
    BY <1>1, <2>3 DEF health_monitor_check
  <2>4. CASE CheckElapsed(c)
    BY <1>1, <2>4 DEF CheckElapsed
  <2>5. CASE Overdue(c)
    <3>1. UpTo(missed_count, MaxMissedCount) \in Nat
          /\ UpTo(missed_count, MaxMissedCount) >= 1
      BY <1>1, Constants DEF UpTo
    <3> QED
      BY <1>1, <2>5, <3>1 DEF Overdue
  <2>6. CASE Missed(c)
    BY <1>1, <2>6 DEF Missed
  <2>7. CASE Judge(c)
    BY <1>1, <2>7 DEF Judge
  <2>8. CASE Forward(c)
    BY <1>1, <2>8 DEF Forward
  <2>9. CASE sbi_time_handler(c)
    BY <1>1, <2>9 DEF sbi_time_handler
  <2>10. CASE health_monitor_heartbeat(c)
    BY <1>1, <2>10 DEF health_monitor_heartbeat
  <2> QED
    BY <1>5, <2>1, <2>2, <2>3, <2>4, <2>5, <2>6, <2>7, <2>8, <2>9, <2>10
<1> QED
  BY <1>2, <1>3, <1>4, <1>5, NextCases

-----------------------------------------------------------------------------
\* How many cores are about to load the count.
LEMMA OverdueCount ==
  /\ Cardinality(Overdues) \in Nat
  /\ \A c : Cardinality(Overdues \cup {c}) =
                IF c \in Overdues THEN Cardinality(Overdues) ELSE Cardinality(Overdues) + 1
  /\ \A c : Cardinality(Overdues \ {c}) =
                IF c \in Overdues THEN Cardinality(Overdues) - 1 ELSE Cardinality(Overdues)
<1>1. IsFiniteSet(Overdues)
  <2>1. Overdues \in SUBSET Cpus
    BY DEF Overdues
  <2> QED
    BY <2>1, HealthAssumption, FS_Subset
<1> QED
  BY <1>1, FS_CardinalityType, FS_AddElement, FS_RemoveElement

\* A heartbeat is recorded, in its two steps.
LEMMA RecordingStep ==
  ASSUME JudgeInv, NEW c \in Cpus, StoreHeartbeat(c) \/ StoreHealthy(c)
  PROVE  (Apart /\ Accounted)'
<1>1. /\ pc \in [Cpus -> {"guest", "forward"} \cup HeartbeatPcs \cup CheckPcs]
      /\ max_missed \in Nat \ {0}
  BY Constants DEF JudgeInv, TypeOK
<1>2. Recording
  BY DEF Recording, StoreHeartbeat, StoreHealthy, HeartbeatPcs
<1>3. /\ overlap' = overlap
      /\ \A d \in Cpus : pc'[d] = pc[d] \/ (d = c /\ pc'[d] \in {"healthy", "guest"})
  <2>1. CASE StoreHeartbeat(c)
    BY <1>1, <2>1 DEF StoreHeartbeat, Goto
  <2>2. CASE StoreHealthy(c)
    BY <1>1, <2>2 DEF StoreHealthy, Goto
  <2> QED
    BY <2>1, <2>2
<1> SUFFICES ASSUME ~overlap
             PROVE  (Apart /\ Accounted)'
  BY <1>3 DEF Apart, Accounted
<1>4. \A d \in Cpus : pc[d] \notin CheckPcs
  BY <1>2 DEF JudgeInv, Apart
<1>5. \A d \in Cpus : pc'[d] \notin CheckPcs
  BY <1>3, <1>4 DEF CheckPcs
<1>6. missed_count' = 0 \/ \E d \in Cpus : pc'[d] = "heartbeat"
  <2>1. CASE StoreHeartbeat(c)
    BY <2>1 DEF StoreHeartbeat
  <2>2. CASE StoreHealthy(c)
    <3>1. missed_count' = missed_count /\ pc[c] = "healthy"
      BY <2>2 DEF StoreHealthy
    <3>2. missed_count = 0 \/ \E d \in Cpus : pc[d] = "heartbeat"
      BY <1>2 DEF JudgeInv, Apart
    <3> QED
      BY <1>3, <3>1, <3>2
  <2> QED
    BY <2>1, <2>2
<1>7. Apart'
  BY <1>5, <1>6 DEF Apart
<1>8. ASSUME ~Recording'
      PROVE  Accounted'
  <2>1. missed_count' = 0
    BY <1>6, <1>8 DEF Recording, HeartbeatPcs
  <2>2. misses' = 0 /\ status' = "HEALTHY"
    BY <1>1, <1>8 DEF StoreHeartbeat, StoreHealthy, Goto, Recording, HeartbeatPcs
  <2>3. Overdues' = {} /\ Cardinality({}) = 0
    BY <1>5, FS_EmptySet DEF Overdues, CheckPcs
  <2>4. Covered(missed_count + Cardinality(Overdues))'
    BY <2>1, <2>2, <2>3 DEF Covered
  <2> QED
    BY <1>5, <2>2, <2>4 DEF Accounted, CheckPcs
<1> QED
  BY <1>7, <1>8 DEF Accounted

\* A check counts a miss, in its steps.
LEMMA CheckStep ==
  ASSUME JudgeInv, NEW c \in Cpus,
         CheckElapsed(c) \/ Overdue(c) \/ Missed(c) \/ Judge(c)
  PROVE  (Apart /\ Accounted)'
<1> USE DEF health, local, history, Goto
<1> DEFINE n == Cardinality(Overdues)
<1>1. /\ pc \in [Cpus -> {"guest", "forward"} \cup HeartbeatPcs \cup CheckPcs]
      /\ max_missed \in Nat \ {0} /\ misses \in 0 .. max_missed
      /\ missed_count \in 0 .. MaxMissedCount /\ MaxMissedCount \in Nat
      /\ cnt \in [Cpus -> 0 .. MaxMissedCount] /\ max_missed <= MaxMissedCount
      /\ n \in Nat
  BY Constants, OverdueCount DEF JudgeInv, TypeOK
<1>2. /\ overlap' = overlap /\ pc[c] \in CheckPcs
      /\ pc'[c] \in CheckPcs \cup {"forward"}
      /\ \A d \in Cpus : d # c => pc'[d] = pc[d]
  BY <1>1 DEF CheckElapsed, Overdue, Missed, Judge, CheckPcs
<1>3. Recording' <=> Recording
  BY <1>2 DEF Recording, HeartbeatPcs, CheckPcs
<1>4. Apart'
  BY <1>2, <1>3 DEF JudgeInv, Apart
<1> SUFFICES ASSUME ~overlap, ~Recording
             PROVE  Accounted'
  BY <1>2, <1>3, <1>4 DEF Accounted
<1>5. /\ Covered(missed_count + n)
      /\ \A d \in Cpus : /\ pc[d] = "missed" => Covered(cnt[d] + n)
                         /\ pc[d] = "judge" => Covered(cnt[d])
      /\ status = "UNHEALTHY" => misses >= max_missed
      /\ status = "SUSPECT" => misses >= 1
  BY DEF JudgeInv, Accounted
<1> DEFINE m == Cardinality(Overdues')
<1> SUFFICES
      /\ misses' = max_missed \/ missed_count' + m <= misses'
      /\ \A d \in Cpus :
             /\ pc'[d] = "missed" => misses' = max_missed \/ cnt'[d] + m <= misses'
             /\ pc'[d] = "judge" => misses' = max_missed \/ cnt'[d] <= misses'
      /\ status' = "UNHEALTHY" => misses' >= max_missed
      /\ status' = "SUSPECT" => misses' >= 1
  BY DEF Accounted, Covered
<1>6. CASE CheckElapsed(c)
  <2>1. CASE pc'[c] = "forward"
    <3>1. Overdues' = Overdues /\ misses' = misses
      BY <1>1, <1>2, <1>6, <2>1 DEF Overdues, CheckElapsed
    <3> HIDE DEF n
    <3>2. m = n
      BY <3>1 DEF n
    <3> HIDE DEF m
    <3> QED
      BY <1>1, <1>2, <1>5, <1>6, <2>1, <3>1, <3>2 DEF CheckElapsed, Covered
  <2>2. CASE pc'[c] = "overdue"
    <3>1. Overdues' = Overdues \cup {c} /\ c \notin Overdues
      BY <1>1, <1>2, <1>6, <2>2 DEF Overdues, CheckElapsed
    <3>2. m = n + 1
      BY <3>1, OverdueCount
    <3>3. misses' = UpTo(misses, max_missed)
      BY <1>1, <1>6, <2>2 DEF CheckElapsed
    <3>4. misses' \in 0 .. max_missed /\ misses <= misses'
          /\ (misses' = max_missed \/ misses' = misses + 1)
      BY <1>1, <3>3 DEF UpTo
    <3> HIDE DEF m, n
    <3> QED
      BY <1>1, <1>2, <1>5, <1>6, <2>2, <3>2, <3>4 DEF CheckElapsed, Covered
  <2> QED
    BY <1>1, <1>6, <2>1, <2>2 DEF CheckElapsed
<1>7. CASE Overdue(c)
  <2>1. Overdues' = Overdues \ {c} /\ c \in Overdues
    BY <1>1, <1>2, <1>7 DEF Overdues, Overdue
  <2>2. m = n - 1
    BY <2>1, OverdueCount
  <2>3. cnt'[c] \in Nat /\ cnt'[c] <= missed_count + 1
    BY <1>1, <1>7 DEF Overdue, UpTo
  <2>4. /\ \A d \in Cpus : d # c => cnt'[d] = cnt[d]
        /\ pc'[c] = "missed" /\ UNCHANGED <<misses, missed_count, status>>
    BY <1>1, <1>7 DEF Overdue
  <2> HIDE DEF m, n
  <2> QED
    BY <1>1, <1>2, <1>5, <2>2, <2>3, <2>4 DEF Covered
<1>8. CASE Missed(c)
  <2>1. Overdues' = Overdues
    BY <1>1, <1>2, <1>8 DEF Overdues, Missed
  <2>2. m = n
    BY <2>1
  <2>3. /\ missed_count' = cnt[c] /\ pc[c] = "missed" /\ pc'[c] = "judge"
        /\ UNCHANGED <<misses, cnt, status>>
    BY <1>1, <1>8 DEF Missed
  <2> HIDE DEF m, n
  <2> QED
    BY <1>1, <1>2, <1>5, <2>2, <2>3 DEF Covered
<1>9. CASE Judge(c)
  <2>1. Overdues' = Overdues
    BY <1>1, <1>2, <1>9 DEF Overdues, Judge
  <2>2. m = n
    BY <2>1
  <2>3. /\ pc[c] = "judge" /\ pc'[c] = "forward"
        /\ status' = IF cnt[c] >= max_missed THEN "UNHEALTHY" ELSE "SUSPECT"
        /\ \A d \in Cpus : d # c => cnt'[d] = cnt[d]
        /\ UNCHANGED <<misses, missed_count>>
    BY <1>1, <1>9 DEF Judge
  <2>4. cnt[c] >= 1
    BY <2>3 DEF JudgeInv, Locals, Holding
  <2> HIDE DEF m, n
  <2> QED
    BY <1>1, <1>2, <1>5, <2>2, <2>3, <2>4 DEF Covered
<1> QED
  BY <1>6, <1>7, <1>8, <1>9

\* A step that records and counts nothing keeps the accounts.
LEMMA OtherStep ==
  ASSUME JudgeInv,
         UNCHANGED <<status, missed_count, cnt, misses, overlap>>,
         \A d \in Cpus : pc'[d] = pc[d] \/ {pc[d], pc'[d]} \subseteq {"guest", "forward"}
  PROVE  (Apart /\ Accounted)'
<1>1. \A d \in Cpus, l \in HeartbeatPcs \cup CheckPcs : pc'[d] = l <=> pc[d] = l
  BY DEF HeartbeatPcs, CheckPcs
<1>2. Overdues' = Overdues
  BY <1>1 DEF Overdues, CheckPcs
<1>3. Recording' <=> Recording
  BY <1>1 DEF Recording
<1>4. Apart'
  BY <1>1, <1>3 DEF JudgeInv, Apart, HeartbeatPcs, CheckPcs
<1>5. Accounted'
  BY <1>1, <1>2, <1>3 DEF JudgeInv, Accounted, Covered, CheckPcs
<1> QED
  BY <1>4, <1>5

\* JudgeInv is inductive.
LEMMA JudgeStep ==
  ASSUME JudgeInv, [Next]_vars
  PROVE  JudgeInv'
<1> USE DEF health, local, history, Goto
<1>1. /\ pc \in [Cpus -> {"guest", "forward"} \cup HeartbeatPcs \cup CheckPcs]
      /\ TypeOK /\ Locals
  BY DEF JudgeInv, TypeOK
<1>2. TypeOK' /\ Locals'
  BY <1>1, TypeStep, LocalsStep
<1> SUFFICES (Apart /\ Accounted)'
  BY <1>2 DEF JudgeInv
<1>4. CASE UNCHANGED vars
  BY <1>1, <1>4, OtherStep DEF vars
<1>5. CASE Tick
  BY <1>1, <1>5, OtherStep DEF Tick
<1>6. CASE Hang
  BY <1>1, <1>6, OtherStep DEF Hang
<1>7. ASSUME NEW c \in Cpus, health_monitor_check(c)
      PROVE  (Apart /\ Accounted)'
  <2>1. CASE status = "NOT_MONITORED"
    <3>1. \A d \in Cpus : pc'[d] = pc[d] \/ {pc[d], pc'[d]} \subseteq {"guest", "forward"}
      BY <1>1, <1>7, <2>1 DEF health_monitor_check, Fires
    <3>2. UNCHANGED <<status, missed_count, cnt, misses, overlap>>
      BY <1>7, <2>1 DEF health_monitor_check
    <3> QED
      BY <3>1, <3>2, OtherStep
  <2>2. CASE status # "NOT_MONITORED"
    <3>1. /\ UNCHANGED <<status, missed_count, cnt, misses>>
          /\ overlap' = (overlap \/ Recording)
          /\ pc[c] = "guest" /\ pc'[c] = "elapsed"
          /\ \A d \in Cpus : d # c => pc'[d] = pc[d]
      BY <1>1, <1>7, <2>2 DEF health_monitor_check, Fires, Recording
    <3>2. (Recording' <=> Recording) /\ Overdues' = Overdues
      BY <3>1 DEF Recording, Overdues, HeartbeatPcs
    <3>3. \A d \in Cpus, l \in {"missed", "judge"} : pc'[d] = l <=> pc[d] = l
      BY <3>1
    <3>4. Apart'
      BY <3>1, <3>2 DEF Apart
    <3>5. Accounted'
      BY <3>1, <3>2, <3>3 DEF JudgeInv, Accounted, Covered
    <3> QED
      BY <3>4, <3>5
  <2> QED
    BY <2>1, <2>2
<1>8. ASSUME NEW c \in Cpus, Forward(c)
      PROVE  (Apart /\ Accounted)'
  <2>1. \A d \in Cpus : pc'[d] = pc[d] \/ {pc[d], pc'[d]} \subseteq {"guest", "forward"}
    BY <1>1, <1>8 DEF Forward
  <2>2. UNCHANGED <<status, missed_count, cnt, misses, overlap>>
    BY <1>8 DEF Forward
  <2> QED
    BY <2>1, <2>2, OtherStep
<1>9. ASSUME NEW c \in Cpus, sbi_time_handler(c)
      PROVE  (Apart /\ Accounted)'
  BY <1>1, <1>9, OtherStep DEF sbi_time_handler
<1>10. ASSUME NEW c \in Cpus, health_monitor_heartbeat(c)
       PROVE  (Apart /\ Accounted)'
  <2>1. /\ overlap' = \E d \in Cpus : pc[d] \in CheckPcs
        /\ pc'[c] = "heartbeat"
        /\ \A d \in Cpus : d # c => pc'[d] = pc[d]
    BY <1>1, <1>10 DEF health_monitor_heartbeat
  <2>2. Recording'
    BY <2>1 DEF Recording, HeartbeatPcs
  <2>3. Apart'
    BY <2>1 DEF Apart, CheckPcs
  <2> QED
    BY <2>2, <2>3 DEF Accounted
<1> QED
  BY <1>4, <1>5, <1>6, <1>7, <1>8, <1>9, <1>10, NextCases, RecordingStep, CheckStep

\* The types and the accounts at the start.
LEMMA JudgeInit ==
  ASSUME Init
  PROVE  JudgeInv
<1> USE Constants DEF Init
<1>1. TypeOK
  <2>1. OFF \in {OFF} \cup 0 .. Latency + 1 /\ 0 \in 0 .. MaxAge /\ 0 \in 0 .. MaxMissedCount
        /\ 0 \in 0 .. max_missed /\ 0 \in 0 .. MaxDelay
    OBVIOUS
  <2> QED
    BY <2>1 DEF TypeOK
<1>2. Locals /\ Apart
  BY DEF Locals, Holding, Apart, Recording, HeartbeatPcs
<1>3. Overdues = {} /\ Cardinality({}) = 0
  BY FS_EmptySet DEF Overdues
<1>4. Accounted
  BY <1>3 DEF Accounted, Covered
<1> QED
  BY <1>1, <1>2, <1>4 DEF JudgeInv

\* A VM is judged UNHEALTHY, which has it restarted, only after max_missed overdue
\* checks since its last heartbeat, and SUSPECT only after one: for any number of
\* cores whose unlocked increments of missed_count overlap in any way, and however
\* long health_monitor_check and health_monitor_heartbeat take.
THEOREM JudgedOnMisses == Spec => [](TypeOK /\ JudgedByMisses)
<1>1. JudgeInv => TypeOK /\ JudgedByMisses
  BY DEF JudgeInv, Accounted, Recording, JudgedByMisses
<1>2. Init => JudgeInv
  BY JudgeInit
<1>3. JudgeInv /\ [Next]_vars => JudgeInv'
  BY JudgeStep
<1> QED
  BY <1>1, <1>2, <1>3, PTL DEF Spec

-----------------------------------------------------------------------------
\* Once a handler has taken a tick, that is known for good.
LEMMA SlowStays == [Next]_vars /\ ~slow' => ~slow
BY NextCases DEF vars, history, Tick, Hang, StoreHeartbeat, StoreHealthy, health_monitor_check,
                 CheckElapsed, Overdue, Missed, Judge, Forward, sbi_time_handler,
                 health_monitor_heartbeat

\* While handlers take less than a tick: what they read is the time it is, and
\* time passes only when every core is in its guest with no interrupt to take.
LEMMA Instant ==
  ASSUME TypeOK, Prompt
  PROVE  /\ \A c \in Cpus : delay[c] = 0 /\ Elapsed(c) = age
         /\ Tick /\ ~slow' => \A c \in Cpus : pc[c] = "guest" /\ ~Fires(c)
<1>1. age \in 0 .. MaxAge
  BY DEF TypeOK
<1>2. \A c \in Cpus : delay[c] = 0
  BY DEF Prompt
<1>3. age % Mod = age
  BY <1>1, Constants
<1>4. \A c \in Cpus : Elapsed(c) = age
  BY <1>1, <1>2, <1>3, Constants DEF Elapsed
<1>5. Tick /\ ~slow' => \A c \in Cpus : pc[c] = "guest" /\ ~Fires(c)
  BY DEF Tick
<1> QED
  BY <1>2, <1>4, <1>5

\* They stay prompt.
LEMMA PromptStep ==
  ASSUME TypeOK, Prompt, ~slow', [Next]_vars
  PROVE  Prompt'
<1> USE DEF health, local, history, Prompt
<1>1. delay \in [Cpus -> 0 .. MaxDelay]
  BY DEF TypeOK
<1>2. CASE UNCHANGED vars
  BY <1>2 DEF vars
<1>3. CASE Tick
  <2>1. \A c \in Cpus : pc[c] = "guest"
    BY <1>3, Instant
  <2> QED
    BY <1>3, <2>1 DEF Tick
<1>4. CASE Hang
  BY <1>4 DEF Hang
<1>5. ASSUME NEW c \in Cpus,
             \/ StoreHeartbeat(c) \/ StoreHealthy(c) \/ health_monitor_check(c)
             \/ CheckElapsed(c) \/ Overdue(c) \/ Missed(c) \/ Judge(c)
             \/ Forward(c) \/ sbi_time_handler(c) \/ health_monitor_heartbeat(c)
      PROVE  Prompt'
  <2>1. delay' = delay \/ delay' = [delay EXCEPT ![c] = 0]
    BY <1>5 DEF StoreHeartbeat, StoreHealthy, health_monitor_check, CheckElapsed, Overdue,
                Missed, Judge, Forward, sbi_time_handler, health_monitor_heartbeat
  <2> QED
    BY <1>1, <2>1
<1> QED
  BY <1>2, <1>3, <1>4, <1>5, NextCases

\* The steps that neither make nor store a heartbeat.
LEMMA SameHeartbeats ==
  ASSUME TypeOK, NEW c \in Cpus,
         \/ StoreHealthy(c) \/ health_monitor_check(c) \/ CheckElapsed(c)
         \/ Overdue(c) \/ Missed(c) \/ Judge(c) \/ Forward(c) \/ sbi_time_handler(c)
  PROVE  /\ UNCHANGED <<age, silent>>
         /\ \A d \in Cpus : pc'[d] = "heartbeat" <=> pc[d] = "heartbeat"
<1> USE DEF health, local, history, Goto
<1>1. pc \in [Cpus -> {"guest", "forward"} \cup HeartbeatPcs \cup CheckPcs]
  BY DEF TypeOK
<1>2. CASE StoreHealthy(c) \/ health_monitor_check(c) \/ CheckElapsed(c)
  BY <1>1, <1>2 DEF StoreHealthy, health_monitor_check, Fires, CheckElapsed
<1>3. CASE Overdue(c) \/ Missed(c) \/ Judge(c) \/ Forward(c) \/ sbi_time_handler(c)
  BY <1>1, <1>3 DEF Overdue, Missed, Judge, Forward, sbi_time_handler
<1> QED
  BY <1>2, <1>3

\* A step keeps the recorded heartbeat recent, however long handlers take: one that
\* is stored was read at most MaxDelay ticks ago.
LEMMA RecentStep ==
  ASSUME TypeOK, Recent, [Next]_vars
  PROVE  Recent'
<1> USE DEF health, local, history, Goto
<1>1. /\ pc \in [Cpus -> {"guest", "forward"} \cup HeartbeatPcs \cup CheckPcs]
      /\ delay \in [Cpus -> 0 .. MaxDelay] /\ MaxDelay \in Nat
      /\ age \in 0 .. MaxAge /\ silent \in 0 .. MaxAge /\ MaxAge \in Nat
  BY Constants DEF TypeOK
<1>2. CASE UNCHANGED vars
  BY <1>2 DEF vars, Recent
<1>3. CASE Tick
  <2>1. UNCHANGED pc /\ age' = UpTo(age, MaxAge) /\ silent' = UpTo(silent, MaxAge)
    BY <1>3 DEF Tick
  <2>2. age <= silent + MaxDelay => age' <= silent' + MaxDelay
    BY <1>1, <2>1 DEF UpTo
  <2> QED
    BY <2>1, <2>2 DEF Recent
<1>4. CASE Hang
  BY <1>4 DEF Hang, Recent
<1>5. ASSUME NEW c \in Cpus, StoreHeartbeat(c)
      PROVE  Recent'
  <2>1. age' = delay[c] /\ silent' = silent
    BY <1>5 DEF StoreHeartbeat
  <2> QED
    BY <1>1, <2>1 DEF Recent
<1>6. ASSUME NEW c \in Cpus, health_monitor_heartbeat(c)
      PROVE  Recent'
  BY <1>1, <1>6 DEF Recent, health_monitor_heartbeat
<1>7. ASSUME NEW c \in Cpus,
             \/ StoreHealthy(c) \/ health_monitor_check(c) \/ CheckElapsed(c)
             \/ Overdue(c) \/ Missed(c) \/ Judge(c) \/ Forward(c) \/ sbi_time_handler(c)
      PROVE  Recent'
  BY <1>1, <1>7, SameHeartbeats DEF Recent
<1> QED
  BY <1>2, <1>3, <1>4, <1>5, <1>6, <1>7, NextCases

\* A step keeps the age of the last heartbeat right.
LEMMA FreshStep ==
  ASSUME TypeOK, Prompt, ~slow', Fresh, [Next]_vars
  PROVE  Fresh'
<1> USE DEF health, local, history, Goto
<1>1. /\ pc \in [Cpus -> {"guest", "forward"} \cup HeartbeatPcs \cup CheckPcs]
      /\ \A c \in Cpus : delay[c] = 0
  BY Instant DEF TypeOK
<1>2. CASE UNCHANGED vars
  BY <1>2 DEF vars, Fresh
<1>3. CASE Tick
  <2>1. \A c \in Cpus : pc[c] = "guest" /\ pc'[c] = "guest"
    BY <1>3, Instant DEF Tick
  <2>2. age' = UpTo(age, MaxAge) /\ silent' = UpTo(silent, MaxAge)
    BY <1>3 DEF Tick
  <2> QED
    BY <2>1, <2>2 DEF Fresh
<1>4. CASE Hang
  BY <1>4 DEF Hang, Fresh
<1>5. ASSUME NEW c \in Cpus, StoreHeartbeat(c)
      PROVE  Fresh'
  <2>1. silent = 0 /\ silent' = silent /\ age' = 0
    BY <1>1, <1>5 DEF Fresh, StoreHeartbeat
  <2> QED
    BY <2>1 DEF Fresh
<1>6. ASSUME NEW c \in Cpus, health_monitor_heartbeat(c)
      PROVE  Fresh'
  BY <1>1, <1>6 DEF Fresh, health_monitor_heartbeat
<1>7. ASSUME NEW c \in Cpus,
             \/ StoreHealthy(c) \/ health_monitor_check(c) \/ CheckElapsed(c)
             \/ Overdue(c) \/ Missed(c) \/ Judge(c) \/ Forward(c) \/ sbi_time_handler(c)
      PROVE  Fresh'
  BY <1>7, SameHeartbeats DEF Fresh
<1> QED
  BY <1>2, <1>3, <1>4, <1>5, <1>6, <1>7, NextCases

\* A step keeps the hung guest quiet, and its last heartbeat ages.
LEMMA HungStep ==
  ASSUME TypeOK, Prompt, ~slow', Quiet, Aged, [Next]_vars
  PROVE  (Quiet /\ Aged)'
<1> USE DEF health, local, history, Goto
<1>1. /\ pc \in [Cpus -> {"guest", "forward"} \cup HeartbeatPcs \cup CheckPcs]
      /\ \A c \in Cpus : delay[c] = 0
      /\ hung \in {OFF} \cup 0 .. Latency + 1 /\ Latency \in Nat
      /\ age \in 0 .. MaxAge
  BY Instant, DueFacts DEF TypeOK
<1>2. CASE UNCHANGED vars
  BY <1>2 DEF vars, Quiet, Aged, Recording
<1>3. CASE Tick
  <2>1. \A c \in Cpus : pc'[c] = "guest"
    BY <1>3, Instant DEF Tick
  <2>2. Quiet'
    BY <2>1 DEF Quiet, Recording, HeartbeatPcs
  <2>3. Aged'
    BY <1>1, <1>3, Constants DEF Aged, Tick, UpTo, MaxAge
  <2> QED
    BY <2>2, <2>3
<1>4. CASE Hang
  BY <1>1, <1>4 DEF Hang, Quiet, Aged
<1>5. ASSUME NEW c \in Cpus, StoreHeartbeat(c)
      PROVE  (Quiet /\ Aged)'
  <2>1. Recording
    BY <1>5 DEF StoreHeartbeat, Recording, HeartbeatPcs
  <2>2. hung' = hung /\ ~(hung > 0) /\ age' = 0
    BY <1>1, <1>5, <2>1 DEF StoreHeartbeat, Quiet
  <2> QED
    BY <1>1, <2>2, Constants DEF Quiet, Aged
<1>6. ASSUME NEW c \in Cpus, health_monitor_heartbeat(c)
      PROVE  (Quiet /\ Aged)'
  BY <1>6, Constants DEF health_monitor_heartbeat, Quiet, Aged
<1>7. ASSUME NEW c \in Cpus,
             \/ StoreHealthy(c) \/ health_monitor_check(c) \/ CheckElapsed(c)
             \/ Overdue(c) \/ Missed(c) \/ Judge(c) \/ Forward(c) \/ sbi_time_handler(c)
      PROVE  (Quiet /\ Aged)'
  <2>1. UNCHANGED <<age, hung>>
    BY <1>7 DEF StoreHealthy, health_monitor_check, CheckElapsed, Overdue, Missed,
                Judge, Forward, sbi_time_handler
  <2>2. \A d \in Cpus : pc'[d] \in HeartbeatPcs => pc[d] \in HeartbeatPcs
    <3> USE DEF HeartbeatPcs
    <3>1. CASE StoreHealthy(c) \/ health_monitor_check(c) \/ CheckElapsed(c)
      BY <1>1, <3>1 DEF StoreHealthy, health_monitor_check, Fires, CheckElapsed
    <3>2. CASE Overdue(c) \/ Missed(c) \/ Judge(c) \/ Forward(c) \/ sbi_time_handler(c)
      BY <1>1, <3>2 DEF Overdue, Missed, Judge, Forward, sbi_time_handler
    <3> QED
      BY <1>7, <3>1, <3>2
  <2> QED
    BY <2>1, <2>2 DEF Quiet, Aged, Recording
<1> QED
  BY <1>2, <1>3, <1>4, <1>5, <1>6, <1>7, NextCases

\* In the tick in which the guest hung, everything is in time.
LEMMA HungNow ==
  ASSUME TypeOK', Locals', hung' = 0, NEW c \in Cpus
  PROVE  InTime(c)'
<1>1. /\ missed_count' \in Nat /\ cnt' \in [Cpus -> Nat]
      /\ timer'[c] \in Arms \cup 0 .. Max(Arms \cup {Watchdog}) \cup {OFF}
      /\ \A d \in Cpus : Holding(d)' => cnt'[d] >= 1
  <2>1. /\ missed_count' \in 0 .. MaxMissedCount /\ cnt' \in [Cpus -> 0 .. MaxMissedCount]
        /\ timer' \in [Cpus -> Arms \cup 0 .. Max(Arms \cup {Watchdog}) \cup {OFF}]
    BY DEF TypeOK
  <2>2. \A d \in Cpus : Holding(d)' => cnt'[d] >= 1
    BY DEF Locals
  <2>3. missed_count' \in Nat /\ cnt' \in [Cpus -> Nat]
    BY <2>1, Constants
  <2> QED
    BY <2>1, <2>2, <2>3
<1>2. AtLeast(0)' /\ Above(0)'
  BY <1>1 DEF AtLeast, Above
<1>3. /\ 0 \in 0 .. max_missed - 1 /\ 0 \in 0 .. max_missed
      /\ Due(0) \in Nat /\ Watchdog \in Nat /\ Timeout \in Nat
      /\ Timeout + Watchdog <= Due(0)
      /\ Due(0) <= Due(max_missed - 1) /\ Due(max_missed - 1) \in Nat
  BY Constants, DueFacts
<1>4. hung' <= Due(0) /\ hung' + Watchdog <= Due(0) /\ hung' <= Due(max_missed - 1)
  BY <1>3
<1>5. timer'[c] > 0 => hung' + timer'[c] <= Due(0)
  <2>1. \A k \in Arms : k \in Nat /\ k <= Due(0)
    <3>1. Max(Arms) \in Nat /\ Max(Arms) <= Due(0) /\ \A k \in Arms : k <= Max(Arms)
      BY Longest, DueFacts
    <3>2. PICK m \in Nat, b \in Nat : m = Max(Arms) /\ b = Due(0)
      BY <1>3, <3>1
    <3>3. m <= b /\ \A k \in Arms : k \in Nat /\ k <= m
      BY <3>1, <3>2, HealthAssumption
    <3> QED
      BY <3>2, <3>3
  <2>2. \A k \in 0 .. Max(Arms \cup {Watchdog}) : k <= Due(0)
    BY Longest, DueFacts
  <2> QED
    BY <1>1, <2>1, <2>2, Constants
<1>6. Due(0)' = Due(0) /\ Due(max_missed - 1)' = Due(max_missed - 1)
  BY DEF Due
<1> QED
  BY <1>2, <1>3, <1>4, <1>5, <1>6 DEF InTime, Waits

\* The steps that a monitored VM takes after the tick in which it hung.
Monitors(c) ==
    \/ health_monitor_check(c) \/ CheckElapsed(c) \/ Overdue(c) \/ Missed(c)
    \/ Judge(c) \/ Forward(c)

\* They lose increments of missed_count, but never take it back below k.
LEMMA CountKept ==
  ASSUME TypeOK, NEW c \in Cpus, Monitors(c)
  PROVE  /\ \A k \in 0 .. max_missed : AtLeast(k) => AtLeast(k)'
         /\ \A k \in 0 .. max_missed - 1 : Above(k) => Above(k)'
<1> USE DEF health, local, history, Goto, AtLeast, Above, Holding
<1>1. /\ pc \in [Cpus -> {"guest", "forward"} \cup HeartbeatPcs \cup CheckPcs]
      /\ missed_count \in 0 .. MaxMissedCount /\ cnt \in [Cpus -> 0 .. MaxMissedCount]
      /\ max_missed \in Nat /\ MaxMissedCount \in Nat /\ max_missed <= MaxMissedCount
  BY Constants DEF TypeOK
<1>2. CASE health_monitor_check(c)
  BY <1>1, <1>2 DEF health_monitor_check
<1>3. CASE CheckElapsed(c)
  BY <1>1, <1>3 DEF CheckElapsed
<1>4. CASE Overdue(c)
  <2>1. /\ UNCHANGED missed_count
        /\ cnt'[c] = UpTo(missed_count, MaxMissedCount)
        /\ \A d \in Cpus : d # c => cnt'[d] = cnt[d] /\ pc'[d] = pc[d]
    BY <1>1, <1>4 DEF Overdue
  <2>2. /\ \A k \in 0 .. max_missed : missed_count >= k => cnt'[c] >= k
        /\ \A k \in 0 .. max_missed - 1 : missed_count >= k => cnt'[c] > k
    BY <1>1, <2>1 DEF UpTo
  <2> QED
    BY <2>1, <2>2
<1>5. CASE Missed(c)
  BY <1>1, <1>5 DEF Missed
<1>6. CASE Judge(c)
  BY <1>1, <1>6 DEF Judge
<1>7. CASE Forward(c)
  BY <1>1, <1>7 DEF Forward
<1> QED
  BY <1>2, <1>3, <1>4, <1>5, <1>6, <1>7 DEF Monitors

\* Once found, the VM stays found.
LEMMA FoundKept ==
  ASSUME TypeOK, Found, NEW c \in Cpus, Monitors(c)
  PROVE  Found'
<1>1. AtLeast(max_missed)'
  BY CountKept, Constants DEF Found
<1>2. status' = "UNHEALTHY"
  <2>1. CASE Judge(c)
    <3>1. cnt[c] >= max_missed
      BY <2>1 DEF Judge, Found, AtLeast, Holding
    <3> QED
      BY <2>1, <3>1 DEF Judge
  <2>2. CASE ~Judge(c)
    BY <2>2 DEF Monitors, health_monitor_check, CheckElapsed, Overdue, Missed,
                Forward, Found, health
  <2> QED
    BY <2>1, <2>2
<1> QED
  BY <1>1, <1>2 DEF Found

\* The deadlines do not change.
LEMMA SameDue == \A k : Due(k)' = Due(k)
BY DEF Due

\* A core that does not move stays in time.
LEMMA OthersKept ==
  ASSUME TypeOK, NEW c \in Cpus, Monitors(c), NEW d \in Cpus, d # c, InTime(d)
  PROVE  InTime(d)'
<1>1. /\ pc'[d] = pc[d] /\ timer'[d] = timer[d] /\ stie'[d] = stie[d]
      /\ hung' = hung
  <2> USE DEF TypeOK, health, local, Goto
  <2>1. CASE health_monitor_check(c) \/ CheckElapsed(c) \/ Overdue(c)
    BY <2>1 DEF health_monitor_check, CheckElapsed, Overdue
  <2>2. CASE Missed(c) \/ Judge(c) \/ Forward(c)
    BY <2>2 DEF Missed, Judge, Forward
  <2> QED
    BY <2>1, <2>2 DEF Monitors
<1>2. /\ Waits(d)' <=> Waits(d)
      /\ Checks(d)' <=> Checks(d)
  BY <1>1 DEF Waits, Checks, Fires
<1>3. /\ \A k \in 0 .. max_missed : AtLeast(k) => AtLeast(k)'
      /\ \A k \in 0 .. max_missed - 1 : AtLeast(k) => AtLeast(k)'
      /\ \A k \in 0 .. max_missed - 1 : Above(k) => Above(k)'
  BY CountKept, Constants
<1>4. Waits(d)' => \E k \in 0 .. max_missed - 1 : AtLeast(k)' /\ hung' + timer'[d] <= Due(k)
  BY <1>1, <1>2, <1>3 DEF InTime
<1>5. Checks(d)' => \E k \in 0 .. max_missed - 1 : Above(k)' /\ hung' <= Due(k)
  BY <1>1, <1>2, <1>3 DEF InTime
<1>6. pc'[d] = "judge" =>
          /\ hung' <= Due(max_missed - 1)
          /\ \E k \in 0 .. max_missed :
                 AtLeast(k)' /\ (k < max_missed => hung' + Watchdog <= Due(k))
  BY <1>1, <1>3 DEF InTime
<1>7. pc'[d] = "forward" =>
          \E k \in 0 .. max_missed - 1 : AtLeast(k)' /\ hung' + Watchdog <= Due(k)
  BY <1>1, <1>3 DEF InTime
<1> QED
  BY <1>4, <1>5, <1>6, <1>7, SameDue DEF InTime

\* The core that moves stays in time too, or has found the VM.
LEMMA MonitorKept ==
  ASSUME TypeOK, Prompt, Aged, status # "NOT_MONITORED", hung > 0,
         NEW c \in Cpus, InTime(c), Monitors(c)
  PROVE  InTime(c)' \/ Found'
<1> USE DEF health, local, history, Goto
<1>1. /\ pc \in [Cpus -> {"guest", "forward"} \cup HeartbeatPcs \cup CheckPcs]
      /\ timer \in [Cpus -> Arms \cup 0 .. Max(Arms \cup {Watchdog}) \cup {OFF}]
      /\ stie \in [Cpus -> BOOLEAN]
      /\ missed_count \in 0 .. MaxMissedCount /\ cnt \in [Cpus -> 0 .. MaxMissedCount]
      /\ hung \in {OFF} \cup 0 .. Latency + 1
  BY DEF TypeOK
<1>2. /\ max_missed \in Nat \ {0} /\ Watchdog \in Nat \ {0} /\ Timeout \in Nat
      /\ hung \in Nat /\ age \in Nat
  BY <1>1, Constants, DueFacts DEF TypeOK
<1>3. /\ \A k \in 0 .. max_missed : AtLeast(k) => AtLeast(k)'
      /\ \A k \in 0 .. max_missed - 1 : Above(k) => Above(k)'
  BY CountKept
<1>4. hung' = hung
  BY DEF Monitors, health_monitor_check, CheckElapsed, Overdue, Missed, Judge, Forward
<1>5. CASE health_monitor_check(c)
  <2>1. Checks(c) /\ pc'[c] = "elapsed"
    BY <1>1, <1>5 DEF health_monitor_check, Checks
  <2>2. \E k \in 0 .. max_missed - 1 : Above(k)' /\ hung' <= Due(k)
    BY <1>3, <1>4, <2>1 DEF InTime
  <2> QED
    BY <2>1, <2>2, SameDue DEF InTime, Waits
<1>6. CASE CheckElapsed(c)
  <2>1. CASE pc'[c] = "forward"
    <3>1. age <= Timeout
      BY <1>1, <1>6, <2>1, Instant DEF CheckElapsed
    <3>2. hung <= Timeout
      BY <1>2, <3>1, Constants DEF Aged
    <3>3. hung' + Watchdog <= Due(0)
      BY <1>2, <1>4, <3>2, DueFacts
    <3>4. AtLeast(0)'
      BY <1>1, <1>6 DEF AtLeast, CheckElapsed
    <3>5. 0 \in 0 .. max_missed - 1
      BY <1>2
    <3> QED
      BY <2>1, <3>3, <3>4, <3>5, SameDue DEF InTime, Waits, Checks, Fires
  <2>2. CASE pc'[c] = "overdue"
    <3>1. Checks(c)
      BY <1>6 DEF CheckElapsed, Checks
    <3>2. \E k \in 0 .. max_missed - 1 : Above(k)' /\ hung' <= Due(k)
      BY <1>3, <1>4, <3>1 DEF InTime
    <3> QED
      BY <2>2, <3>2, SameDue DEF InTime, Waits
  <2> QED
    BY <1>1, <1>6, <2>1, <2>2 DEF CheckElapsed
<1>7. CASE Overdue(c)
  <2>1. Checks(c) /\ pc'[c] = "missed"
    BY <1>1, <1>7 DEF Overdue, Checks
  <2>2. \E k \in 0 .. max_missed - 1 : Above(k)' /\ hung' <= Due(k)
    BY <1>3, <1>4, <2>1 DEF InTime
  <2> QED
    BY <2>1, <2>2, SameDue DEF InTime, Waits
<1>8. CASE Missed(c)
  <2>1. Checks(c) /\ pc[c] = "missed" /\ pc'[c] = "judge" /\ missed_count' = cnt[c]
        /\ \A d \in Cpus : (Holding(d)' => Holding(d)) /\ cnt'[d] = cnt[d]
    BY <1>1, <1>8 DEF Missed, Checks, Holding
  <2>2. PICK k \in 0 .. max_missed - 1 : Above(k) /\ hung <= Due(k)
    BY <2>1 DEF InTime
  <2>3. AtLeast(k + 1)'
    BY <1>1, <2>1, <2>2 DEF Above, AtLeast, Holding
  <2>4. /\ k \in Nat /\ Due(k) \in Nat /\ Due(k + 1) = Due(k) + Watchdog
        /\ Due(max_missed - 1) \in Nat /\ Due(k) <= Due(max_missed - 1)
    BY <1>2, <2>2, DueFacts
  <2>5. k + 1 \in 0 .. max_missed /\ hung' + Watchdog <= Due(k + 1)
        /\ hung' <= Due(max_missed - 1)
    BY <1>2, <1>4, <2>2, <2>4
  <2> QED
    BY <2>1, <2>3, <2>5, SameDue DEF InTime, Waits, Checks, Fires
<1>9. CASE Judge(c)
  <2>1. /\ pc[c] = "judge" /\ pc'[c] = "forward"
        /\ status' = IF cnt[c] >= max_missed THEN "UNHEALTHY" ELSE "SUSPECT"
    BY <1>1, <1>9 DEF Judge
  <2>2. PICK k \in 0 .. max_missed :
            AtLeast(k) /\ (k < max_missed => hung + Watchdog <= Due(k))
    BY <2>1 DEF InTime
  <2>3. AtLeast(k)'
    BY <1>3, <2>2
  <2>4. CASE k = max_missed
    <3>1. cnt[c] >= max_missed
      BY <2>1, <2>2, <2>4 DEF AtLeast, Holding
    <3> QED
      BY <2>1, <2>3, <2>4, <3>1 DEF Found
  <2>5. CASE k # max_missed
    <3>1. k \in 0 .. max_missed - 1 /\ hung' + Watchdog <= Due(k)
      BY <1>2, <1>4, <2>2, <2>5
    <3> QED
      BY <2>1, <2>3, <3>1, SameDue DEF InTime, Waits, Checks, Fires
  <2> QED
    BY <2>4, <2>5
<1>10. CASE Forward(c)
  <2>1. pc[c] = "forward" /\ pc'[c] = "guest" /\ timer'[c] = Watchdog
    BY <1>1, <1>10 DEF Forward
  <2>2. \E k \in 0 .. max_missed - 1 : AtLeast(k)' /\ hung' + timer'[c] <= Due(k)
    <3>1. PICK k \in 0 .. max_missed - 1 : AtLeast(k) /\ hung + Watchdog <= Due(k)
      BY <2>1 DEF InTime
    <3>2. k \in 0 .. max_missed
      BY <1>2
    <3> QED
      BY <1>3, <1>4, <2>1, <3>1, <3>2
  <2>3. ~Checks(c)'
    BY <1>2, <2>1 DEF Checks, Fires
  <2> QED
    BY <2>1, <2>2, <2>3, SameDue DEF InTime
<1> QED
  BY <1>5, <1>6, <1>7, <1>8, <1>9, <1>10 DEF Monitors

\* Time passes within the deadlines.
LEMMA TickKept ==
  ASSUME TypeOK, Prompt, ~slow', Tick, hung # OFF, Found \/ \A c \in Cpus : InTime(c)
  PROVE  Found' \/ \A c \in Cpus : InTime(c)'
<1>1. /\ hung \in Nat /\ hung' \in Nat /\ hung' <= hung + 1
      /\ UNCHANGED <<status, missed_count, stie, pc, cnt>>
  <2>1. hung \in 0 .. Latency + 1 /\ Latency \in Nat
    BY DueFacts DEF TypeOK
  <2> QED
    BY <2>1, DueFacts DEF Tick, UpTo
<1>2. \A k : AtLeast(k)' <=> AtLeast(k)
  BY <1>1 DEF AtLeast, Holding
<1>3. CASE Found
  BY <1>1, <1>2, <1>3 DEF Found
<1>4. ASSUME NEW c \in Cpus, InTime(c)
      PROVE  InTime(c)'
  <2>1. pc'[c] = "guest" /\ pc[c] = "guest" /\ ~Fires(c) /\ stie'[c] = stie[c]
        /\ \A d \in Cpus : ~Holding(d)'
    BY <1>1, Instant DEF Holding
  <2>2. /\ timer[c] \in Int
        /\ timer'[c] = IF timer[c] > 0 THEN timer[c] - 1 ELSE timer[c]
    <3>1. timer[c] \in Arms \cup 0 .. Max(Arms \cup {Watchdog}) \cup {OFF}
      BY DEF TypeOK
    <3> QED
      <4>1. Arms \subseteq Nat /\ 0 .. Max(Arms \cup {Watchdog}) \subseteq Nat
        BY HealthAssumption, Longest
      <4>2. timer[c] \in Int
        <5>1. timer[c] \in Nat \/ timer[c] = OFF
          BY <3>1, <4>1
        <5>2. OFF \in Int
          BY DEF OFF
        <5> QED
          BY <5>1, <5>2
      <4>3. timer' = [d \in Cpus |-> IF timer[d] > 0 THEN timer[d] - 1 ELSE timer[d]]
        BY DEF Tick
      <4> QED
        BY <4>2, <4>3
  <2>3. ASSUME Waits(c)' \/ Checks(c)'
        PROVE  \E k \in 0 .. max_missed - 1 :
                   AtLeast(k)' /\ Above(k)' /\ hung' + timer'[c] <= Due(k)
    <3>1. timer'[c] >= 0 /\ stie[c]
      BY <2>1, <2>2, <2>3 DEF Waits, Checks, Fires
    <3>2. timer[c] > 0
      BY <2>1, <2>2, <3>1 DEF Fires
    <3>3. Waits(c)
      BY <2>1, <3>1, <3>2 DEF Waits
    <3>4. PICK k \in 0 .. max_missed - 1 : AtLeast(k) /\ hung + timer[c] <= Due(k)
      BY <1>4, <3>3 DEF InTime
    <3>5. hung' + timer'[c] <= Due(k)
      BY <1>1, <2>2, <3>2, <3>4, DueFacts, Constants
    <3>6. Above(k)'
      BY <1>2, <2>1, <3>4 DEF Above, AtLeast
    <3> QED
      BY <1>2, <3>4, <3>5, <3>6
  <2>4. Checks(c)' => hung' + timer'[c] = hung'
    BY <1>1, <2>1 DEF Checks, Fires
  <2> QED
    BY <2>1, <2>3, <2>4, SameDue DEF InTime
<1> QED
  BY <1>3, <1>4

\* TimelyInv is inductive.
LEMMA TimelyStep ==
  ASSUME TimelyInv, [Next]_vars
  PROVE  TimelyInv'
<1> USE DEF health, local, history
<1>0. TypeOK' /\ Locals' /\ Recent'
  BY TypeStep, LocalsStep, RecentStep DEF TimelyInv
<1> SUFFICES ASSUME ~slow'
             PROVE  Prompt' /\ Fresh' /\ Quiet' /\ Aged' /\ Deadlines'
  BY <1>0 DEF TimelyInv
<1>1. TypeOK /\ Locals /\ Prompt /\ Fresh /\ Quiet /\ Aged /\ Deadlines
  BY SlowStays DEF TimelyInv
<1>2. TypeOK' /\ Locals' /\ Prompt' /\ Fresh' /\ Quiet' /\ Aged'
  BY <1>0, <1>1, PromptStep, FreshStep, HungStep
<1> SUFFICES ASSUME MonitoredHang'
             PROVE  Found' \/ \A c \in Cpus : InTime(c)'
  BY <1>2 DEF Deadlines
<1>3. /\ hung \in {OFF} \cup Nat /\ hung' \in {OFF} \cup Nat
      /\ status' # "NOT_MONITORED" /\ hung' # OFF
  BY <1>1, <1>2, DueFacts DEF TypeOK, MonitoredHang
<1>4. CASE hung' = 0
  BY <1>2, <1>4, HungNow
<1>5. CASE hung' # 0
  <2>1. CASE UNCHANGED vars
    <3>1. MonitoredHang /\ UNCHANGED <<status, missed_count, cnt, pc, timer, stie, hung>>
      BY <2>1 DEF vars, MonitoredHang
    <3>2. CASE Found
      BY <3>1, <3>2 DEF Found, AtLeast, Holding
    <3>3. ASSUME NEW c \in Cpus, InTime(c)
          PROVE  InTime(c)'
      <4>1. \A k : (AtLeast(k)' <=> AtLeast(k)) /\ (Above(k)' <=> Above(k))
        BY <3>1 DEF AtLeast, Above, Holding
      <4>2. (Waits(c)' <=> Waits(c)) /\ (Checks(c)' <=> Checks(c))
        BY <3>1 DEF Waits, Checks, Fires
      <4> QED
        BY <3>1, <3>3, <4>1, <4>2, SameDue DEF InTime
    <3> QED
      BY <1>1, <3>1, <3>2, <3>3 DEF Deadlines
  <2>2. CASE Tick
    <3>1. MonitoredHang
      BY <1>3, <2>2 DEF Tick, MonitoredHang
    <3> QED
      BY <1>1, <2>2, <3>1, TickKept DEF Deadlines, MonitoredHang
  <2>3. CASE Hang
    BY <1>5, <2>3 DEF Hang
  <2>4. ASSUME NEW c \in Cpus, Monitors(c)
        PROVE  Found' \/ \A d \in Cpus : InTime(d)'
    <3>1. hung' = hung
      BY <2>4 DEF Monitors, health_monitor_check, CheckElapsed, Overdue, Missed,
                  Judge, Forward
    <3>2. status # "NOT_MONITORED"
      <4>1. CASE Judge(c)
        BY <1>1, <4>1 DEF Judge, Locals
      <4>2. CASE ~Judge(c)
        <5>1. status' = status
          BY <2>4, <4>2 DEF Monitors, health_monitor_check, CheckElapsed, Overdue,
                            Missed, Forward
        <5> QED
          BY <1>3, <5>1
      <4> QED
        BY <4>1, <4>2
    <3>3. hung > 0 /\ MonitoredHang
      BY <1>3, <1>5, <3>1, <3>2, Constants DEF MonitoredHang
    <3>4. CASE Found
      BY <1>1, <2>4, <3>4, FoundKept
    <3>5. CASE \A d \in Cpus : InTime(d)
      BY <1>1, <2>4, <3>2, <3>3, <3>5, OthersKept, MonitorKept
    <3> QED
      BY <1>1, <3>3, <3>4, <3>5 DEF Deadlines
  <2>5. ASSUME NEW c \in Cpus,
               StoreHeartbeat(c) \/ StoreHealthy(c) \/ sbi_time_handler(c)
               \/ health_monitor_heartbeat(c)
        PROVE  FALSE
    <3>1. hung' = hung
      BY <2>5 DEF StoreHeartbeat, StoreHealthy, sbi_time_handler, health_monitor_heartbeat
    <3>2. hung > 0
      BY <1>3, <1>5, <3>1, Constants
    <3>3. ~Recording /\ hung # OFF
      BY <1>1, <1>3, <3>1, <3>2 DEF Quiet
    <3> QED
      BY <2>5, <3>3 DEF StoreHeartbeat, StoreHealthy, sbi_time_handler,
                        health_monitor_heartbeat, Recording, HeartbeatPcs
  <2> QED
    BY <2>1, <2>2, <2>3, <2>4, <2>5, NextCases DEF Monitors
<1> QED
  BY <1>4, <1>5

\* The deadlines at the start: the guest has not hung.
LEMMA TimelyInit ==
  ASSUME Init
  PROVE  TimelyInv
<1>1. TypeOK /\ Locals
  BY JudgeInit DEF JudgeInv
<1>2. Recent /\ Prompt /\ Fresh /\ Quiet /\ Aged /\ Deadlines
  BY Constants DEF Init, Recent, Prompt, Fresh, Quiet, Aged, Deadlines, MonitoredHang
<1> QED
  BY <1>1, <1>2 DEF TimelyInv

\* A hung VM that is past the last deadline has been found.
LEMMA FoundInTime ==
  ASSUME TimelyInv
  PROVE  DetectionLatency
<1> SUFFICES ASSUME MonitoredHang, ~slow, NEW c \in Cpus, timer[c] # OFF, stie[c],
                    hung > Latency, status # "UNHEALTHY"
             PROVE  FALSE
  BY DEF DetectionLatency, Armed
<1>1. /\ TypeOK /\ Quiet /\ InTime(c)
  BY DEF TimelyInv, Deadlines, Found
<1>2. /\ Latency \in Nat /\ hung \in Nat /\ hung > 0
      /\ \A k \in 0 .. max_missed - 1 : Due(k) \in Nat /\ Due(k) <= Latency
      /\ Latency = Due(max_missed - 1)
  BY <1>1, DueFacts, Constants DEF TypeOK, MonitoredHang
<1>3. timer[c] \in Nat
  <2>1. timer[c] \in Arms \cup 0 .. Max(Arms \cup {Watchdog}) \cup {OFF}
    BY <1>1 DEF TypeOK
  <2>2. Arms \subseteq Nat /\ 0 .. Max(Arms \cup {Watchdog}) \subseteq Nat
    BY HealthAssumption, Longest
  <2> QED
    BY <2>1, <2>2
<1>4. pc[c] \in {"guest", "forward", "elapsed", "overdue", "missed", "judge"}
  BY <1>1, <1>2 DEF TypeOK, Quiet, Recording, HeartbeatPcs, CheckPcs
<1>5. CASE Waits(c)
  BY <1>1, <1>2, <1>3, <1>5 DEF InTime
<1>6. CASE Checks(c)
  BY <1>1, <1>2, <1>6 DEF InTime
<1>7. CASE pc[c] = "judge"
  BY <1>1, <1>2, <1>7 DEF InTime
<1>8. CASE pc[c] = "forward"
  BY <1>1, <1>2, <1>8, Constants DEF InTime
<1> QED
  BY <1>3, <1>4, <1>5, <1>6, <1>7, <1>8 DEF Waits, Checks, Fires

\* TimelyInv holds in every reachable state.
LEMMA SpecTimelyInv == Spec => []TimelyInv
<1>1. Init => TimelyInv
  BY TimelyInit
<1>2. TimelyInv /\ [Next]_vars => TimelyInv'
  BY TimelyStep
<1> QED
  BY <1>1, <1>2, PTL DEF Spec

\* The verdict is right both ways: besides JudgedOnMisses, a hung guest whose timer
\* was set is UNHEALTHY after Latency ticks, as long as every timer interrupt has
\* been handled within a tick: for any timeout, watchdog period and limit, and
\* although overlapping checks of any number of cores lose each other's increments
\* of missed_count and overwrite each other's status.
THEOREM VerdictsAreRight == Spec => []VerdictIsRight
<1>1. Spec => [](TypeOK /\ JudgedByMisses)
  BY JudgedOnMisses
<1>2. Spec => []TimelyInv
  BY SpecTimelyInv
<1>3. TimelyInv => DetectionLatency
  BY FoundInTime
<1>4. (TypeOK /\ JudgedByMisses) /\ DetectionLatency => VerdictIsRight
  BY DEF VerdictIsRight
<1> QED
  BY <1>1, <1>2, <1>3, <1>4, PTL

\* health_monitor_check calls a heartbeat overdue only if none was made for longer
\* than the timeout, to within the time handlers take and however long that is,
\* unless a heartbeat is just being recorded or was recorded after the check had
\* read the time: these are the only ways in which it can be wrong, and only the
\* last of them is the wrap of the unsigned difference.
THEOREM OverdueChecksAreReal == Spec => OverdueIsReal
<1> DEFINE Real == \A c \in Cpus :
              pc[c] = "elapsed" /\ pc'[c] = "overdue" =>
                  \/ silent + Lateness > Timeout
                  \/ \E d \in Cpus : pc[d] = "heartbeat"
                  \/ age < delay[c]
<1>1. Spec => []TimelyInv
  BY SpecTimelyInv
<1>2. ASSUME TimelyInv, [Next]_vars
      PROVE  [Real]_vars
  <2> SUFFICES ASSUME Next, NEW c \in Cpus, pc[c] = "elapsed", pc'[c] = "overdue",
                      \A d \in Cpus : pc[d] # "heartbeat", ~(age < delay[c])
               PROVE  silent + Lateness > Timeout
    BY <1>2
  <2>1. TypeOK /\ age <= silent + MaxDelay /\ (~slow => age = silent)
    BY <1>2 DEF TimelyInv, Recent, Fresh
  <2>2. pc \in [Cpus -> {"guest", "forward"} \cup HeartbeatPcs \cup CheckPcs]
    BY <2>1 DEF TypeOK
  <2>3. CheckElapsed(c)
    <3>1. ~Tick /\ ~Hang
      BY DEF Tick, Hang
    <3>2. ASSUME NEW d \in Cpus,
                 \/ StoreHeartbeat(d) \/ StoreHealthy(d) \/ health_monitor_check(d)
                 \/ Overdue(d) \/ Missed(d) \/ Judge(d)
                 \/ Forward(d) \/ sbi_time_handler(d) \/ health_monitor_heartbeat(d)
          PROVE  FALSE
      <4> USE DEF Goto
      <4>1. ~StoreHeartbeat(d) /\ ~StoreHealthy(d) /\ ~health_monitor_check(d)
        BY <2>2 DEF StoreHeartbeat, StoreHealthy, health_monitor_check
      <4>2. ~Overdue(d) /\ ~Missed(d) /\ ~Judge(d) /\ ~Forward(d)
        BY <2>2 DEF Overdue, Missed, Judge, Forward
      <4>3. ~sbi_time_handler(d) /\ ~health_monitor_heartbeat(d)
        BY <2>2 DEF sbi_time_handler, health_monitor_heartbeat
      <4> QED
        BY <3>2, <4>1, <4>2, <4>3
    <3>3. ASSUME NEW d \in Cpus, CheckElapsed(d)
          PROVE  d = c
      BY <2>2, <3>3 DEF CheckElapsed, Goto
    <3> QED
      BY <3>1, <3>2, <3>3, NextCases
  <2>4. /\ age \in 0 .. MaxAge /\ delay[c] \in 0 .. MaxDelay /\ silent \in 0 .. MaxAge
        /\ MaxAge \in Nat /\ MaxDelay \in Nat /\ Timeout \in Nat
        /\ Mod \in Nat /\ Mod > MaxAge
    BY <2>1, Constants DEF TypeOK
  <2>5. age - delay[c] \in 0 .. MaxAge
    BY <2>4
  <2>6. Elapsed(c) = age - delay[c]
    BY <2>4, <2>5 DEF Elapsed
  <2>7. ~(Elapsed(c) <= Timeout)
    BY <2>2, <2>3 DEF CheckElapsed, Goto
  <2>8. age > Timeout
    BY <2>4, <2>6, <2>7
  <2> QED
    BY <2>1, <2>4, <2>8 DEF Lateness
<1>3. TimelyInv /\ [Next]_vars => [Real]_vars
  BY <1>2
<1> QED
  BY <1>1, <1>3, PTL DEF Spec, OverdueIsReal


-----------------------------------------------------------------------------
(* The token bucket. *)

\* Integer division rounds down.
LEMMA DivBound ==
  ASSUME NEW x \in Nat, NEW f \in Nat, f > 0
  PROVE  x \div f \in Nat /\ (x \div f) * f <= x
BY Z3

\* Reducing an uint32_t sum modulo its width does not make it larger.
LEMMA ModBound ==
  ASSUME NEW x \in Nat, NEW f \in Nat, f > 0
  PROVE  x % f \in Nat /\ x % f <= x
BY Z3

\* What irq_bucket_refill leaves in the bucket: no more than there was plus
\* the new tokens, and no more than max_tokens.
LEMMA RefillBound ==
  ASSUME BucketTypes
  PROVE  /\ NewTokens \in Nat
         /\ NewTokens * FREQ <= elapsed * rate
         /\ RefilledTokens \in 0 .. max_tokens
         /\ RefilledTokens <= tokens + NewTokens
<1> USE BucketAssumption
<1>1. tokens \in 0 .. max_tokens /\ elapsed \in Nat /\ elapsed * rate \in Nat
  BY DEF BucketTypes
<1>2. NewTokens \in Nat /\ NewTokens * FREQ <= elapsed * rate
  BY <1>1, DivBound DEF NewTokens
<1> DEFINE new == NewTokens % U32
           sum == (tokens + new) % U32
<1>3. new \in Nat /\ new <= NewTokens
  BY <1>2, ModBound
<1>4. sum \in Nat /\ sum <= tokens + new
  BY <1>1, <1>3, ModBound
<1>5. RefilledTokens = IF NewTokens = 0 THEN tokens
                       ELSE IF sum > max_tokens THEN max_tokens ELSE sum
  BY DEF RefilledTokens
<1> HIDE DEF new, sum
<1> QED
  BY <1>1, <1>2, <1>3, <1>4, <1>5

\* A refill, followed by taking s tokens out of the bucket, keeps Earned.
LEMMA RefillEarned ==
  ASSUME BucketTypes, Earned,
         NEW s \in Nat, s <= RefilledTokens,
         elapsed' = RefilledElapsed, time' = time,
         tokens' = RefilledTokens - s, spent' = spent + s
  PROVE  Earned'
<1> USE BucketAssumption
<1>1. /\ NewTokens \in Nat
      /\ NewTokens * FREQ <= elapsed * rate
      /\ RefilledTokens \in Nat
      /\ RefilledTokens <= tokens + NewTokens
  BY RefillBound
<1>2. tokens \in Nat /\ spent \in Nat /\ elapsed \in Nat /\ time \in Nat
      /\ elapsed <= time
  BY DEF BucketTypes
<1>3. spent' + tokens' = spent + RefilledTokens
  BY <1>1, <1>2
<1>4. CASE NewTokens = 0
  <2>1. RefilledTokens = tokens /\ elapsed' = elapsed
    BY <1>4 DEF RefilledTokens, RefilledElapsed
  <2> QED
    BY <1>3, <2>1 DEF Earned
<1>5. CASE NewTokens # 0
  <2>1. elapsed' = 0
    BY <1>5 DEF RefilledElapsed
  <2>2. (spent + RefilledTokens) * FREQ <= (spent + tokens) * FREQ + NewTokens * FREQ
    <3>1. spent + RefilledTokens <= spent + tokens + NewTokens
      BY <1>1, <1>2
    <3>2. (spent + RefilledTokens) * FREQ <= (spent + tokens + NewTokens) * FREQ
      BY <1>1, <1>2, <3>1, Z3
    <3>3. (spent + tokens + NewTokens) * FREQ = (spent + tokens) * FREQ + NewTokens * FREQ
      BY <1>1, <1>2, Z3
    <3> QED
      BY <3>2, <3>3
  <2>3. rate * (time - elapsed) + elapsed * rate = rate * time
    BY <1>2, Z3
  <2>4. (spent + tokens) * FREQ <= max_tokens * FREQ + rate * (time - elapsed)
    BY DEF Earned
  <2>5. /\ (spent + RefilledTokens) * FREQ \in Int /\ (spent + tokens) * FREQ \in Int
        /\ NewTokens * FREQ \in Int /\ max_tokens * FREQ \in Int
        /\ rate * (time - elapsed) \in Int /\ elapsed * rate \in Int
        /\ rate * time \in Int
    BY <1>1, <1>2
  <2>6. (spent + RefilledTokens) * FREQ <= max_tokens * FREQ + rate * time
    BY <1>1, <2>2, <2>3, <2>4, <2>5
  <2>7. time' - elapsed' = time
    BY <1>2, <2>1
  <2> QED
    BY <1>3, <2>6, <2>7 DEF Earned
<1> QED
  BY <1>4, <1>5

\* irq_bucket_init establishes the invariant.
LEMMA InitBucket == irq_bucket_init => BucketInv
BY BucketAssumption DEF irq_bucket_init, BucketInv, BucketTypes, Earned, NoneVanishes

\* What the drain loop takes: no more than is buffered, no more than there are
\* tokens.
LEMMA DrainBound ==
  ASSUME BucketTypes, NEW t \in Nat
  PROVE  /\ Drained(t) \in Nat
         /\ Drained(t) <= t
         /\ Drained(t) <= deferred_count
         /\ t - Drained(t) > 0 => Drained(t) = deferred_count
BY BucketAssumption DEF BucketTypes, Drained

\* Every call and every tick preserves the invariant.
LEMMA NextBucket == BucketInv /\ [BucketNext]_bucketVars => BucketInv'
<1> SUFFICES ASSUME BucketInv, [BucketNext]_bucketVars PROVE BucketInv'
  OBVIOUS
<1> USE BucketAssumption
<1> DEFINE t == RefilledTokens
           d == Drained(t)
<1>1. BucketTypes /\ Earned /\ injected <= spent /\ NoneVanishes
  BY DEF BucketInv
<1>2. t \in 0 .. max_tokens /\ t <= tokens + NewTokens /\ NewTokens \in Nat
  BY <1>1, RefillBound
<1>3. /\ d \in Nat /\ d <= t /\ d <= deferred_count
      /\ t - d > 0 => d = deferred_count
  BY <1>1, <1>2, DrainBound
<1>4. RefilledElapsed \in Nat /\ RefilledElapsed <= time
  BY <1>1 DEF RefilledElapsed, BucketTypes
<1>6. CASE BucketTick
  <2>1. BucketTypes' /\ injected' <= spent' /\ NoneVanishes'
    BY <1>1, <1>6 DEF BucketTick, BucketTypes, NoneVanishes
  <2>2. time' - elapsed' = time - elapsed
    BY <1>1, <1>6 DEF BucketTick, BucketTypes
  <2>3. Earned'
    BY <1>1, <1>6, <2>2 DEF BucketTick, Earned
  <2> QED
    BY <2>1, <2>3 DEF BucketInv
<1>7. CASE irq_bucket_consume
  <2>1. /\ elapsed' = RefilledElapsed /\ time' = time /\ arrived' = arrived + 1
    BY <1>7 DEF irq_bucket_consume
  <2>2. CASE /\ t - d > 0
             /\ tokens' = t - d - 1
             /\ deferred_count' = deferred_count - d
             /\ spent' = spent + d + 1
             /\ injected' = injected + 1
             /\ UNCHANGED dropped
    <3> HIDE DEF t, d
    <3>1. BucketTypes' /\ injected' <= spent' /\ NoneVanishes'
      BY <1>1, <1>2, <1>3, <1>4, <2>1, <2>2 DEF BucketTypes, NoneVanishes
    <3>2. d + 1 \in Nat /\ d + 1 <= t /\ tokens' = t - (d + 1)
          /\ spent' = spent + (d + 1)
      BY <1>1, <1>2, <1>3, <2>2 DEF BucketTypes
    <3>3. Earned'
      BY <1>1, <2>1, <3>2, RefillEarned DEF t
    <3> QED
      BY <3>1, <3>3 DEF BucketInv
  <2>3. CASE /\ t - d = 0
             /\ tokens' = 0
             /\ spent' = spent + d
             /\ UNCHANGED injected
             /\ \/ /\ deferred_count - d < max_deferred
                   /\ deferred_count' = deferred_count - d + 1
                   /\ UNCHANGED dropped
                \/ /\ deferred_count' = deferred_count - d
                   /\ dropped' = dropped + 1
    <3> HIDE DEF t, d
    <3>1. BucketTypes' /\ injected' <= spent' /\ NoneVanishes'
      BY <1>1, <1>2, <1>3, <1>4, <2>1, <2>3 DEF BucketTypes, NoneVanishes
    <3>2. tokens' = t - d
      BY <2>3
    <3>3. Earned'
      BY <1>1, <1>3, <2>1, <2>3, <3>2, RefillEarned DEF t
    <3> QED
      BY <3>1, <3>3 DEF BucketInv
  <2> QED
    BY <1>7, <2>2, <2>3 DEF irq_bucket_consume
<1>8. CASE irq_bucket_drain_deferred
  <2>1. /\ elapsed' = RefilledElapsed /\ time' = time
        /\ tokens' = t - d /\ deferred_count' = deferred_count - d
        /\ spent' = spent + d /\ injected' = injected + d
        /\ UNCHANGED <<dropped, arrived>>
    BY <1>8 DEF irq_bucket_drain_deferred
  <2> HIDE DEF t, d
  <2>2. BucketTypes' /\ injected' <= spent' /\ NoneVanishes'
    BY <1>1, <1>2, <1>3, <1>4, <2>1 DEF BucketTypes, NoneVanishes
  <2>3. Earned'
    BY <1>1, <1>3, <2>1, RefillEarned DEF t
  <2> QED
    BY <2>2, <2>3 DEF BucketInv
<1>9. CASE UNCHANGED bucketVars
  BY <1>1, <1>9 DEF bucketVars, BucketInv, BucketTypes, Earned, NoneVanishes
<1> QED
  BY <1>6, <1>7, <1>8, <1>9 DEF BucketNext

-----------------------------------------------------------------------------
\* For every choice of burst, rate, buffer depth, clock frequency and integer
\* width, the bucket invariant holds however calls and time interleave.
THEOREM BucketInvariant == BucketSpec => []BucketInv
<1>1. irq_bucket_init => BucketInv
  BY InitBucket
<1>2. BucketInv /\ [BucketNext]_bucketVars => BucketInv'
  BY NextBucket
<1> QED
  BY <1>1, <1>2, PTL DEF BucketSpec

\* The token bucket keeps its promise: at any time the interrupts let through
\* since irq_bucket_init number at most max_tokens + rate * time / FREQ, for
\* every configuration and even where the uint32_t sum wraps.
THEOREM RateIsBounded == BucketSpec => []RateBound
<1>1. BucketInv => RateBound
  <2> SUFFICES ASSUME BucketInv PROVE RateBound
    OBVIOUS
  <2> USE BucketAssumption
  <2>1. /\ tokens \in Nat /\ spent \in Nat /\ time \in Nat /\ elapsed \in Nat
        /\ elapsed <= time
    BY DEF BucketInv, BucketTypes
  <2>2. (spent + tokens) * FREQ = spent * FREQ + tokens * FREQ
        /\ tokens * FREQ \in Nat /\ spent * FREQ \in Nat
    BY <2>1, Z3
  <2>3. rate * time = rate * (time - elapsed) + rate * elapsed
        /\ rate * elapsed \in Nat /\ rate * (time - elapsed) \in Int
    BY <2>1, Z3
  <2>4. (spent + tokens) * FREQ <= max_tokens * FREQ + rate * (time - elapsed)
    BY DEF BucketInv, Earned
  <2>5. max_tokens * FREQ \in Nat
    OBVIOUS
  <2>6. spent * FREQ <= max_tokens * FREQ + rate * time
    BY <2>2, <2>3, <2>4, <2>5
  <2> QED
    BY <2>6 DEF RateBound, BucketInv
<1> QED
  BY <1>1, BucketInvariant, PTL
=============================================================================
