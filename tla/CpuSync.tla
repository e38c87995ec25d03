------------------------------- MODULE CpuSync -------------------------------
(***************************************************************************)
(* The counting barrier of src/core/inc/cpu.h: struct cpu_synctoken,       *)
(* cpu_sync_init and cpu_sync_barrier.  One token is shared by N cores     *)
(* (cpu_glb_sync by all of them, vm->sync by the cores of one VM) and is   *)
(* used again and again during boot and during VM recovery.                *)
(*                                                                         *)
(* The master core initialises the token while the other cores may already *)
(* spin on it.  A call then takes the spin lock, increments count, rounds  *)
(* it up to the next multiple of n, drops the lock and spins until count   *)
(* has reached that multiple.  The count is never reset: a core that runs  *)
(* ahead starts the next round on the same counter while slower cores are  *)
(* still spinning on the previous one.                                     *)
(*                                                                         *)
(* Memory is sequentially consistent here, and count (a size_t) does not   *)
(* wrap: 2^64 barrier calls are not reachable.                             *)
(***************************************************************************)
EXTENDS Integers, FiniteSets

CONSTANTS
    Cpus,       \* the cores that share the token
    Master,     \* the core that runs cpu_sync_init
    MaxCalls    \* bound: barrier calls each core makes

ASSUME CpusAssumption ==
    /\ IsFiniteSet(Cpus)
    /\ Master \in Cpus
    /\ MaxCalls \in Nat

N == Cardinality(Cpus)

VARIABLES
    lock,       \* token->lock, TRUE while held
    n,          \* token->n
    ready,      \* token->ready
    count,      \* token->count
    pc,         \* where each core is
    tmp,        \* register holding the count a core loaded for count++
    next_count, \* the local variable of the same name
    entered,    \* history: how often each core has incremented count
    left        \* history: how many calls of each core have returned

token == <<lock, n, ready, count>>
local == <<tmp, next_count>>
vars  == <<lock, n, ready, count, pc, tmp, next_count, entered, left>>

PcValues == {"init", "init_ready", "run", "ready", "lock", "load", "store",
             "align", "unlock", "wait"}

\* Mutant of ALIGN: rounds down.
AlignDown(val, to) == (val \div to) * to

\* ALIGN(VAL, TO) of src/lib/inc/util.h, in the range where it is used: TO > 0.
ALIGN(val, to) == ((val + to - 1) \div to) * to

Goto(c, label) == pc' = [pc EXCEPT ![c] = label]

-----------------------------------------------------------------------------
\* The token starts zeroed (.bss, or the memset of the VM allocation).
Init ==
    /\ lock = FALSE
    /\ n = 0
    /\ ready = FALSE
    /\ count = 0
    /\ pc = [c \in Cpus |-> IF c = Master THEN "init" ELSE "run"]
    /\ tmp = [c \in Cpus |-> 0]
    /\ next_count = [c \in Cpus |-> 0]
    /\ entered = [c \in Cpus |-> 0]
    /\ left = [c \in Cpus |-> 0]

\* Mutant of SyncInitFields: ready is set along with the other fields.
ReadyTooEarly(c) ==
    /\ pc[c] = "init"
    /\ lock' = FALSE /\ n' = N /\ count' = 0 /\ ready' = TRUE
    /\ Goto(c, "init_ready")
    /\ UNCHANGED <<tmp, next_count, entered, left>>

\* cpu_sync_init: the fields first ...
SyncInitFields(c) ==
    /\ pc[c] = "init"
    /\ lock' = FALSE
    /\ n' = N
    /\ count' = 0
    /\ Goto(c, "init_ready")
    /\ UNCHANGED <<ready, tmp, next_count, entered, left>>

\* ... and ready, which lets the spinning cores go on, last.
SyncInitReady(c) ==
    /\ pc[c] = "init_ready"
    /\ ready' = TRUE
    /\ Goto(c, "run")
    /\ UNCHANGED <<lock, n, count, tmp, next_count, entered, left>>

\* Entry of cpu_sync_barrier.
Call(c) ==
    /\ pc[c] = "run"
    /\ left[c] < MaxCalls
    /\ Goto(c, "ready")
    /\ UNCHANGED <<token, local, entered, left>>

\* while (!token->ready);
AwaitReady(c) ==
    /\ pc[c] = "ready"
    /\ ready
    /\ Goto(c, "lock")
    /\ UNCHANGED <<token, local, entered, left>>

\* Mutant of spin_lock: the lock is not tested.
LockUntested(c) ==
    /\ pc[c] = "lock"
    /\ lock' = TRUE
    /\ Goto(c, "load")
    /\ UNCHANGED <<n, ready, count, local, entered, left>>

\* spin_lock: the lr/sc pair succeeds in one step, when the lock is free.
spin_lock(c) ==
    /\ pc[c] = "lock"
    /\ ~lock
    /\ lock' = TRUE
    /\ Goto(c, "load")
    /\ UNCHANGED <<n, ready, count, local, entered, left>>

\* token->count++ on a volatile field: a load ...
LoadCount(c) ==
    /\ pc[c] = "load"
    /\ tmp' = [tmp EXCEPT ![c] = count]
    /\ Goto(c, "store")
    /\ UNCHANGED <<token, next_count, entered, left>>

\* ... and a store.
StoreCount(c) ==
    /\ pc[c] = "store"
    /\ count' = tmp[c] + 1
    /\ entered' = [entered EXCEPT ![c] = @ + 1]
    /\ Goto(c, "align")
    /\ UNCHANGED <<lock, n, ready, local, left>>

\* next_count = ALIGN(token->count, token->n);
AlignCount(c) ==
    /\ pc[c] = "align"
    /\ next_count' = [next_count EXCEPT ![c] = ALIGN(count, n)]
    /\ Goto(c, "unlock")
    /\ UNCHANGED <<token, tmp, entered, left>>

spin_unlock(c) ==
    /\ pc[c] = "unlock"
    /\ lock' = FALSE
    /\ Goto(c, "wait")
    /\ UNCHANGED <<n, ready, count, local, entered, left>>

\* Mutant of Leave: one arrival too few.
LeaveEarly(c) ==
    /\ pc[c] = "wait"
    /\ count + 1 >= next_count[c]
    /\ left' = [left EXCEPT ![c] = @ + 1]
    /\ Goto(c, "run")
    /\ UNCHANGED <<token, local, entered>>

\* while (token->count < next_count); and the return of the call.
Leave(c) ==
    /\ pc[c] = "wait"
    /\ count >= next_count[c]
    /\ left' = [left EXCEPT ![c] = @ + 1]
    /\ Goto(c, "run")
    /\ UNCHANGED <<token, local, entered>>

Step(c) ==
    \/ SyncInitFields(c)
    \/ SyncInitReady(c)
    \/ Call(c)
    \/ AwaitReady(c)
    \/ spin_lock(c)
    \/ LoadCount(c)
    \/ StoreCount(c)
    \/ AlignCount(c)
    \/ spin_unlock(c)
    \/ Leave(c)

Next == \E c \in Cpus : Step(c)

Spec == Init /\ [][Next]_vars

\* A core never stops executing: the loops spin, nothing sleeps or preempts.
FairSpec == Spec /\ \A c \in Cpus : WF_vars(Step(c))

-----------------------------------------------------------------------------
\* Types of the token, of the locals and of the history variables.
TypeOK ==
    /\ lock \in BOOLEAN
    /\ ready \in BOOLEAN
    /\ n \in Nat
    /\ count \in Nat
    /\ pc \in [Cpus -> PcValues]
    /\ tmp \in [Cpus -> Nat]
    /\ next_count \in [Cpus -> Nat]
    /\ entered \in [Cpus -> Nat]
    /\ left \in [Cpus -> Nat]

\* The core is between spin_lock and spin_unlock of cpu_sync_barrier.
Holds(c) == pc[c] \in {"load", "store", "align", "unlock"}

\* The core has incremented count and has not returned from the call.
Inside(c) == pc[c] \in {"align", "unlock", "wait"}

\* No core returns from its k-th cpu_sync_barrier before every core has
\* entered its own k-th, although the counter is never reset and a fast core
\* reuses it for the next round while slower ones still spin on it.
BarrierSafety == \A c, q \in Cpus : left[c] <= entered[q]

\* The counting barrier implements the abstract one.
Abstract == INSTANCE Barrier WITH Procs <- Cpus
ImplementsBarrier == Abstract!Spec

\* If every core keeps running, every call of cpu_sync_barrier returns: the
\* only unfair resource, the spin lock, cannot be monopolised because whoever
\* releases it then waits for the others.
EveryCallReturns == \A c \in Cpus : pc[c] = "ready" ~> pc[c] = "run"

-----------------------------------------------------------------------------
(***************************************************************************)
(* The inductive invariant behind BarrierSafety.                           *)
(***************************************************************************)

\* Until the master has set ready nobody is past the first loop; from then on
\* n is the number of cores.
InitPhase ==
    /\ \A c \in Cpus : pc[c] \in {"init", "init_ready"} => c = Master
    /\ pc[Master] # "init" => n = N
    /\ ready <=> pc[Master] \notin {"init", "init_ready"}
    /\ ~ready => /\ count = 0
                 /\ \A c \in Cpus \ {Master} : pc[c] \in {"run", "ready"}

\* The spin lock admits one core to the critical section.
MutualExclusion ==
    /\ \A c \in Cpus : Holds(c) => lock
    /\ \A c, d \in Cpus : Holds(c) /\ Holds(d) => c = d

\* The locals of a core inside the call.
Locals ==
    \A c \in Cpus :
        /\ pc[c] = "store" => tmp[c] = count
        /\ pc[c] = "align" => /\ N * left[c] < count
                              /\ count <= N * (left[c] + 1)
        /\ pc[c] \in {"unlock", "wait"} => next_count[c] = N * entered[c]
        /\ entered[c] = IF Inside(c) THEN left[c] + 1 ELSE left[c]

\* The cores that have entered round r + 1 (counting rounds from 1).
Ahead(r) == {c \in Cpus : entered[c] = r + 1}

\* count says how far the cores are: the rounds the slowest core p has entered,
\* times N, plus the number of cores that are one round ahead of it.
Rounds ==
    \E p \in Cpus :
        /\ \A c \in Cpus : entered[c] \in {entered[p], entered[p] + 1}
        /\ count = N * entered[p] + Cardinality(Ahead(entered[p]))

\* BarrierSafety made inductive: who is where, who owns the lock, what the
\* locals hold and how count and the rounds of the cores hang together.
IInv == TypeOK /\ InitPhase /\ MutualExclusion /\ Locals /\ Rounds /\ BarrierSafety
=============================================================================
