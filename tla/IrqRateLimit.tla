---------------------------- MODULE IrqRateLimit ----------------------------
(***************************************************************************)
(* The token bucket of one interrupt source: irq_bucket_init,              *)
(* irq_bucket_refill, irq_bucket_consume and irq_bucket_drain_deferred of  *)
(* src/core/inc/irq_rate_limit.h.  The lock of the virtual PLIC makes each *)
(* call one step.  last_refill is kept as the time elapsed since, and the  *)
(* uint32_t arithmetic on tokens is modulo U32.                            *)
(***************************************************************************)
EXTENDS Integers

CONSTANTS
    max_tokens,     \* burst capacity
    rate,           \* tokens per second
    max_deferred,   \* buffer depth
    FREQ,           \* IRQ_RL_TIMER_FREQ: ticks per second
    U32,            \* uint32_t arithmetic is modulo this
    MaxTime,        \* bound: ticks that are followed
    MaxIrqs         \* bound: interrupts that arrive

ASSUME BucketAssumption ==
    /\ max_tokens \in Nat /\ rate \in Nat /\ max_deferred \in Nat
    /\ FREQ \in Nat \ {0}
    /\ U32 \in Nat /\ U32 > max_tokens /\ U32 > max_deferred
    /\ MaxTime \in Nat /\ MaxIrqs \in Nat

VARIABLES
    tokens,         \* b->tokens
    deferred_count, \* b->deferred_count
    elapsed,        \* ticks since b->last_refill
    dropped,        \* b->dropped
    time,           \* history: ticks since irq_bucket_init
    arrived,        \* history: calls of irq_bucket_consume
    spent,          \* history: tokens taken out of the bucket
    injected        \* history: interrupts the callers were told to inject

bucketVars ==
    <<tokens, deferred_count, elapsed, dropped, time, arrived, spent, injected>>

-----------------------------------------------------------------------------
\* new_tokens of irq_bucket_refill, an uint64_t.
NewTokens == (elapsed * rate) \div FREQ

\* Mutant of RefilledTokens: no cap.
Uncapped == (tokens + NewTokens) % U32

\* irq_bucket_refill: b->tokens and (as elapsed) b->last_refill afterwards.
\* last_refill moves only when there are new tokens.
RefilledTokens ==
    IF NewTokens = 0 THEN tokens
    ELSE LET sum == (tokens + (NewTokens % U32)) % U32
         IN  IF sum > max_tokens THEN max_tokens ELSE sum

\* Mutant of RefilledElapsed: last_refill is not moved.
RefillKept == elapsed

RefilledElapsed == IF NewTokens = 0 THEN elapsed ELSE 0

\* while (deferred_count > 0 && tokens > 0) { deferred_count--; tokens--; }
Drained(t) == IF deferred_count < t THEN deferred_count ELSE t

\* A full bucket.
irq_bucket_init ==
    /\ tokens = max_tokens
    /\ deferred_count = 0
    /\ elapsed = 0
    /\ dropped = 0
    /\ time = 0
    /\ arrived = 0
    /\ spent = 0
    /\ injected = 0

BucketTick ==
    /\ time < MaxTime
    /\ time' = time + 1
    /\ elapsed' = elapsed + 1
    /\ UNCHANGED <<tokens, deferred_count, dropped, arrived, spent, injected>>

\* irq_bucket_consume: refill, drain, then allow, defer or drop the interrupt.
irq_bucket_consume ==
    /\ arrived < MaxIrqs
    /\ arrived' = arrived + 1
    /\ elapsed' = RefilledElapsed
    /\ LET t == RefilledTokens
           d == Drained(t)
       IN  \/ /\ t - d > 0                              \* IRQ_RL_ALLOW
              /\ tokens' = t - d - 1
              /\ deferred_count' = deferred_count - d
              /\ spent' = spent + d + 1
              /\ injected' = injected + 1
              /\ UNCHANGED dropped
           \/ /\ t - d = 0                              \* IRQ_RL_DEFERRED
              /\ deferred_count - d < max_deferred
              /\ tokens' = 0
              /\ deferred_count' = deferred_count - d + 1
              /\ spent' = spent + d
              /\ UNCHANGED <<dropped, injected>>
           \/ /\ t - d = 0                              \* IRQ_RL_DROPPED
              /\ deferred_count - d >= max_deferred
              /\ tokens' = 0
              /\ deferred_count' = deferred_count - d
              /\ spent' = spent + d
              /\ dropped' = dropped + 1
              /\ UNCHANGED injected
    /\ UNCHANGED time

\* irq_bucket_drain_deferred: refill, drain, and report how many were drained.
irq_bucket_drain_deferred ==
    /\ elapsed' = RefilledElapsed
    /\ LET t == RefilledTokens
           d == Drained(t)
       IN  /\ tokens' = t - d
           /\ deferred_count' = deferred_count - d
           /\ spent' = spent + d
           /\ injected' = injected + d
    /\ UNCHANGED <<dropped, time, arrived>>

BucketNext == BucketTick \/ irq_bucket_consume \/ irq_bucket_drain_deferred

BucketSpec == irq_bucket_init /\ [][BucketNext]_bucketVars

-----------------------------------------------------------------------------
\* Types; the bucket never holds more than max_tokens, the buffer never more
\* than max_deferred.
BucketTypes ==
    /\ tokens \in 0 .. max_tokens
    /\ deferred_count \in 0 .. max_deferred
    /\ elapsed \in Nat
    /\ time \in Nat
    /\ elapsed <= time
    /\ {dropped, arrived, spent, injected} \subseteq Nat

\* What is left in the bucket and what was taken out never exceed the initial
\* burst plus what the rate has earned up to the last refill.
Earned == (spent + tokens) * FREQ <= max_tokens * FREQ + rate * (time - elapsed)

\* Every interrupt that came has been paid for with a token, waits in the buffer,
\* or was dropped and counted.
NoneVanishes == arrived = spent + deferred_count + dropped

\* The inductive invariant: the types, what the bucket has earned, that nothing is
\* injected that was not paid for, and no interrupt vanishes.  It holds also where
\* the uint32_t sum of a refill wraps, which only takes tokens from the bucket.
BucketInv == BucketTypes /\ Earned /\ injected <= spent /\ NoneVanishes

\* The promise of a token bucket: however calls and refills interleave, the
\* interrupts let through since init are at most the burst plus rate * time.
RateBound ==
    /\ spent * FREQ <= max_tokens * FREQ + rate * time
    /\ injected <= spent
=============================================================================
