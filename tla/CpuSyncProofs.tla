---------------------------- MODULE CpuSyncProofs ----------------------------
(* Proofs about the counting barrier of CpuSync.tla.                         *)
EXTENDS CpuSync, FiniteSetTheorems, TLAPS

\* There is at least one core, and their number is a natural number.
LEMMA NPositive == N \in Nat /\ N > 0
<1>1. Cardinality(Cpus) \in Nat
  BY CpusAssumption, FS_CardinalityType
<1>2. Cpus # {}
  BY CpusAssumption
<1>3. Cardinality(Cpus) # 0
  BY <1>2, CpusAssumption, FS_EmptySet
<1> QED
  BY <1>1, <1>3 DEF N

\* ALIGN of src/lib/inc/util.h rounds a count of round r + 1 up to the end of
\* that round.
LEMMA AlignRound ==
  ASSUME NEW m \in Nat, m > 0, NEW r \in Nat, NEW k \in 1 .. m
  PROVE  ALIGN(m * r + k, m) = m * (r + 1)
<1> DEFINE a == m * r + k + m - 1
           d == r + 1
<1>1. m * r \in Nat
  OBVIOUS
<1>2. m * d = m * r + m
  OBVIOUS
<1>3. m * (d + 1) = m * d + m
  OBVIOUS
<1>4. m * d <= a /\ a < m * (d + 1)
  BY <1>1, <1>2, <1>3
<1>5. a \in Nat /\ d \in Nat
  BY <1>1
<1>6. ASSUME NEW x \in Nat, NEW q \in Nat, m * q <= x, x < m * (q + 1)
      PROVE  x \div m = q
  BY <1>6, Z3
<1>7. a \div m = d
  BY <1>4, <1>5, <1>6
<1>8. ALIGN(m * r + k, m) = (a \div m) * m
  BY DEF ALIGN
<1> QED
  BY <1>7, <1>8

-----------------------------------------------------------------------------
\* The initial state satisfies the inductive invariant.
LEMMA InitIInv == Init => IInv
<1> SUFFICES ASSUME Init PROVE IInv
  OBVIOUS
<1> USE CpusAssumption DEF Init
<1>1. TypeOK
  BY DEF TypeOK, PcValues
<1>2. InitPhase /\ MutualExclusion /\ BarrierSafety
  BY DEF InitPhase, MutualExclusion, Holds, BarrierSafety
<1>3. Locals
  BY DEF Locals, Inside
<1>4. Rounds
  <2>1. Ahead(0) = {}
    BY DEF Ahead
  <2>2. Cardinality(Ahead(entered[Master])) = 0
    BY <2>1, FS_EmptySet
  <2>3. count = N * entered[Master] + Cardinality(Ahead(entered[Master]))
    BY <2>2, NPositive
  <2> QED
    BY <2>3 DEF Rounds
<1> QED
  BY <1>1, <1>2, <1>3, <1>4 DEF IInv

\* The cores one round ahead of the slowest are finitely many, and fewer than
\* all of them.
LEMMA AheadSize ==
  ASSUME TypeOK, NEW p \in Cpus
  PROVE  /\ IsFiniteSet(Ahead(entered[p]))
         /\ Cardinality(Ahead(entered[p])) \in Nat
         /\ Cardinality(Ahead(entered[p])) < N
<1> DEFINE A == Ahead(entered[p])
<1>1. entered[p] \in Nat
  BY DEF TypeOK
<1>2. p \notin A /\ A \subseteq Cpus
  BY <1>1 DEF Ahead
<1>3. /\ IsFiniteSet(A) /\ Cardinality(A) <= Cardinality(Cpus)
      /\ Cardinality(A) = Cardinality(Cpus) => A = Cpus
  BY <1>2, CpusAssumption, FS_Subset
<1>4. Cardinality(A) \in Nat
  BY <1>3, FS_CardinalityType
<1> HIDE DEF A
<1>5. Cardinality(A) # N
  BY <1>2, <1>3 DEF N
<1>6. Cardinality(A) < N
  BY <1>3, <1>4, <1>5, NPositive DEF N
<1> QED
  BY <1>3, <1>4, <1>6 DEF A

\* Rounds is untouched by a step that changes neither count nor entered.
LEMMA RoundsFrame ==
  ASSUME Rounds, UNCHANGED <<count, entered>>
  PROVE  Rounds'
BY DEF Rounds, Ahead

\* The core that stores the incremented count enters a round; if it was the
\* last one to do so, the round is over and all cores are level.
LEMMA StoreRounds ==
  ASSUME IInv, NEW c \in Cpus, StoreCount(c)
  PROVE  Rounds'
<1>1. PICK p \in Cpus :
        /\ \A q \in Cpus : entered[q] \in {entered[p], entered[p] + 1}
        /\ count = N * entered[p] + Cardinality(Ahead(entered[p]))
  BY DEF IInv, Rounds
<1> DEFINE r == entered[p]
           A == Ahead(r)
<1>2. r \in Nat /\ entered \in [Cpus -> Nat] /\ left \in [Cpus -> Nat]
      /\ count \in Nat
  BY DEF IInv, TypeOK
<1>3. count' = count + 1
  BY DEF IInv, Locals, StoreCount
<1>4. entered' = [entered EXCEPT ![c] = entered[c] + 1]
  BY DEF StoreCount
<1>5. entered[c] = r
  <2>1. entered[c] = left[c] /\ left[c] <= entered[p]
    BY DEF IInv, Locals, Inside, StoreCount, BarrierSafety
  <2> QED
    BY <2>1, <1>1, <1>2
<1>6. /\ IsFiniteSet(A) /\ Cardinality(A) \in Nat /\ Cardinality(A) < N
  BY AheadSize DEF IInv
<1> DEFINE B == {q \in Cpus : entered'[q] = r + 1}
<1>7. B = A \cup {c} /\ c \notin A
  BY <1>2, <1>4, <1>5 DEF Ahead
<1>8. Cardinality(B) = Cardinality(A) + 1 /\ IsFiniteSet(B)
  <2> HIDE DEF A, B
  <2> QED
    BY <1>6, <1>7, FS_AddElement
<1>9. \A q \in Cpus : entered'[q] \in {r, r + 1}
  BY <1>1, <1>2, <1>4, <1>5
<1>10. count' = N * r + Cardinality(B)
  <2>1. N * r \in Nat
    BY <1>2, NPositive
  <2> HIDE DEF r, A, B
  <2>2. count = N * r + Cardinality(A)
    BY <1>1 DEF r, A
  <2> QED
    BY <2>1, <2>2, <1>3, <1>6, <1>8
<1>11. CASE \E q \in Cpus : entered'[q] = r
  <2>1. PICK q \in Cpus : entered'[q] = r
    BY <1>11
  <2>2. count' = N * entered'[q] + Cardinality(Ahead(entered[q])')
    BY <2>1, <1>10 DEF Ahead
  <2> QED
    BY <2>1, <2>2, <1>9 DEF Rounds
<1>12. CASE \A q \in Cpus : entered'[q] # r
  <2>1. \A q \in Cpus : entered'[q] = r + 1
    BY <1>9, <1>12
  <2>2. B = Cpus
    BY <2>1
  <2>3. count' = N * (r + 1)
    <3>1. count' = N * r + N
      BY <2>2, <1>10 DEF N
    <3> QED
      BY <3>1, <1>2, NPositive
  <2>4. {q \in Cpus : entered'[q] = (r + 1) + 1} = {}
    BY <2>1, <1>2
  <2>5. Cardinality(Ahead(entered[c])') = 0
    BY <2>1, <2>4, FS_EmptySet DEF Ahead
  <2>6. count' = N * entered'[c] + Cardinality(Ahead(entered[c])')
    BY <2>1, <2>3, <2>5, <1>2, NPositive
  <2> QED
    BY <2>1, <2>6 DEF Rounds
<1> QED
  BY <1>11, <1>12

\* A core that leaves has seen count reach the end of its round, so no core
\* is still behind that round.
LEMMA LeaveRound ==
  ASSUME IInv, NEW c \in Cpus, Leave(c)
  PROVE  \A q \in Cpus : entered[c] <= entered[q]
<1>1. PICK p \in Cpus :
        /\ \A q \in Cpus : entered[q] \in {entered[p], entered[p] + 1}
        /\ count = N * entered[p] + Cardinality(Ahead(entered[p]))
  BY DEF IInv, Rounds
<1> DEFINE r == entered[p]
           k == Cardinality(Ahead(r))
           e == entered[c]
<1>2. r \in Nat /\ e \in Nat /\ entered \in [Cpus -> Nat]
  BY DEF IInv, TypeOK
<1>3. k \in Nat /\ k < N
  BY AheadSize DEF IInv
<1>4. count >= N * e
  BY DEF IInv, Locals, Leave
<1>5. count = N * r + k
  BY <1>1
<1>6. e \in {r, r + 1}
  BY <1>1
<1> HIDE DEF r, k, e
<1>7. e # r + 1
  <2> SUFFICES ASSUME e = r + 1 PROVE FALSE
    OBVIOUS
  <2>1. N * r \in Nat /\ N * (r + 1) = N * r + N
    BY <1>2, NPositive
  <2> QED
    BY <2>1, <1>3, <1>4, <1>5, NPositive
<1> QED
  BY <1>1, <1>2, <1>6, <1>7 DEF r, e

\* The count a core aligns belongs to the round it has just entered.
LEMMA AlignValue ==
  ASSUME IInv, NEW c \in Cpus, AlignCount(c)
  PROVE  ALIGN(count, n) = N * entered[c]
<1>1. n = N
  BY CpusAssumption DEF IInv, InitPhase, AlignCount
<1>2. left[c] \in Nat /\ count \in Nat
  BY DEF IInv, TypeOK
<1>3. /\ N * left[c] < count
      /\ count <= N * (left[c] + 1)
      /\ entered[c] = left[c] + 1
  BY DEF IInv, Locals, Inside, AlignCount
<1> DEFINE r == left[c]
           k == count - N * r
<1>4. N * r \in Nat /\ N * (r + 1) = N * r + N
  BY <1>2, NPositive
<1>5. k \in 1 .. N /\ count = N * r + k
  BY <1>2, <1>3, <1>4, NPositive
<1> HIDE DEF r, k
<1>6. ALIGN(count, N) = N * (r + 1)
  BY <1>2, <1>5, NPositive, AlignRound DEF r
<1> QED
  BY <1>1, <1>3, <1>6 DEF r

\* What the store of the incremented count leaves for the core's ALIGN.
LEMMA StoreAlign ==
  ASSUME IInv, NEW c \in Cpus, StoreCount(c)
  PROVE  /\ N * left[c] < count'
         /\ count' <= N * (left[c] + 1)
<1>1. PICK p \in Cpus :
        /\ \A q \in Cpus : entered[q] \in {entered[p], entered[p] + 1}
        /\ count = N * entered[p] + Cardinality(Ahead(entered[p]))
  BY DEF IInv, Rounds
<1> DEFINE k == Cardinality(Ahead(entered[p]))
<1>2. entered[p] \in Nat /\ entered[c] \in Nat /\ left[c] \in Nat
  BY DEF IInv, TypeOK
<1>3. left[c] = entered[p]
  <2>1. entered[c] = left[c] /\ left[c] <= entered[p]
    BY DEF IInv, Locals, Inside, StoreCount, BarrierSafety
  <2> QED
    BY <2>1, <1>1, <1>2
<1>4. k \in Nat /\ k < N
  BY AheadSize DEF IInv
<1>5. count' = N * left[c] + k + 1
  BY <1>1, <1>3 DEF IInv, Locals, StoreCount
<1> HIDE DEF k
<1>6. N * left[c] \in Nat /\ N * (left[c] + 1) = N * left[c] + N
  BY <1>2, NPositive
<1> QED
  BY <1>4, <1>5, <1>6, NPositive

-----------------------------------------------------------------------------
\* Every step of a core preserves the inductive invariant.
LEMMA NextIInv == IInv /\ [Next]_vars => IInv'
<1> SUFFICES ASSUME IInv, [Next]_vars PROVE IInv'
  OBVIOUS
<1> USE CpusAssumption
<1>1. ASSUME UNCHANGED vars PROVE IInv'
  <2>1. TypeOK' /\ InitPhase' /\ MutualExclusion' /\ BarrierSafety'
    BY <1>1 DEF IInv, vars, TypeOK, InitPhase, MutualExclusion, Holds, BarrierSafety
  <2>2. Locals' /\ Rounds'
    BY <1>1, RoundsFrame DEF IInv, vars, Locals, Inside
  <2> QED
    BY <2>1, <2>2 DEF IInv
<1>2. ASSUME NEW c \in Cpus, Step(c) PROVE IInv'
  <2> USE DEF Goto
  <2>1. TypeOK'
    <3>1. CASE AlignCount(c)
      <4>1. ALIGN(count, n) \in Nat
        BY <3>1, AlignValue, NPositive DEF IInv, TypeOK
      <4> QED
        BY <3>1, <4>1 DEF AlignCount, IInv, TypeOK, PcValues, token
    <3>2. CASE SyncInitFields(c)
      BY <3>2, NPositive DEF SyncInitFields, IInv, TypeOK, PcValues
    <3>3. CASE SyncInitReady(c) \/ Call(c) \/ AwaitReady(c) \/ spin_lock(c)
               \/ spin_unlock(c)
      BY <3>3 DEF SyncInitReady, Call, AwaitReady, spin_lock, spin_unlock,
                  token, local, IInv, TypeOK, PcValues
    <3>4. CASE LoadCount(c) \/ StoreCount(c) \/ Leave(c)
      BY <3>4 DEF LoadCount, StoreCount, Leave, token, local, IInv, TypeOK,
                  PcValues
    <3> QED
      BY <1>2, <3>1, <3>2, <3>3, <3>4 DEF Step
  <2>2. InitPhase'
    BY <1>2, NPositive
       DEF Step, SyncInitFields, SyncInitReady, Call, AwaitReady, spin_lock,
           LoadCount, StoreCount, AlignCount, spin_unlock, Leave, token, local,
           IInv, TypeOK, InitPhase
  <2>3. MutualExclusion'
    BY <1>2
       DEF Step, SyncInitFields, SyncInitReady, Call, AwaitReady, spin_lock,
           LoadCount, StoreCount, AlignCount, spin_unlock, Leave, token, local,
           IInv, TypeOK, InitPhase, MutualExclusion, Holds
  <2>4. Locals'
    <3>1. CASE StoreCount(c)
      <4> DEFINE LocalsOf(q) ==
             /\ pc[q] = "store" => tmp[q] = count
             /\ pc[q] = "align" => /\ N * left[q] < count
                                   /\ count <= N * (left[q] + 1)
             /\ pc[q] \in {"unlock", "wait"} => next_count[q] = N * entered[q]
             /\ entered[q] = IF Inside(q) THEN left[q] + 1 ELSE left[q]
      <4>1. \A q \in Cpus : LocalsOf(q)
        BY DEF IInv, Locals
      <4>2. /\ UNCHANGED <<left, next_count, tmp>>
            /\ entered' = [entered EXCEPT ![c] = entered[c] + 1]
            /\ pc[c] = "store"
            /\ pc' = [pc EXCEPT ![c] = "align"]
        BY <3>1 DEF StoreCount, local
      <4>3. entered \in [Cpus -> Nat] /\ pc \in [Cpus -> PcValues]
        BY DEF IInv, TypeOK
      <4>4. LocalsOf(c)'
        <5>1. N * left[c] < count' /\ count' <= N * (left[c] + 1)
          BY <3>1, StoreAlign
        <5>2. pc'[c] = "align" /\ left'[c] = left[c] /\ entered'[c] = left[c] + 1
          BY <4>1, <4>2, <4>3 DEF Inside
        <5> QED
          BY <5>1, <5>2 DEF Inside
      <4>5. ASSUME NEW q \in Cpus, q # c PROVE LocalsOf(q)'
        <5>1. ~Holds(q)
          BY <4>2, <4>5 DEF IInv, MutualExclusion, Holds
        <5>2. pc'[q] = pc[q] /\ entered'[q] = entered[q]
          BY <4>2, <4>3, <4>5
        <5> QED
          BY <4>1, <4>2, <5>1, <5>2 DEF Holds, Inside
      <4> QED
        BY <4>4, <4>5 DEF Locals
    <3>2. CASE AlignCount(c)
      BY <3>2, AlignValue
         DEF AlignCount, IInv, TypeOK, Locals, Inside, token
    <3>3. CASE SyncInitFields(c)
      BY <3>3
         DEF SyncInitFields, IInv, TypeOK, InitPhase, Locals, Inside
    <3>4. CASE Leave(c)
      BY <3>4
         DEF Leave, IInv, TypeOK, MutualExclusion, Holds, Locals, Inside, token, local
    <3>5. CASE SyncInitReady(c) \/ Call(c) \/ AwaitReady(c) \/ spin_lock(c)
               \/ LoadCount(c) \/ spin_unlock(c)
      BY <3>5
         DEF SyncInitReady, Call, AwaitReady, spin_lock, LoadCount, spin_unlock,
             IInv, TypeOK, Locals, Inside, token, local
    <3> QED
      BY <1>2, <3>1, <3>2, <3>3, <3>4, <3>5 DEF Step
  <2>5. Rounds'
    <3>1. CASE StoreCount(c)
      BY <3>1, StoreRounds
    <3>2. CASE SyncInitFields(c)
      <4>1. c = Master /\ ~ready /\ count = 0
        BY <3>2 DEF SyncInitFields, IInv, InitPhase
      <4> QED
        BY <3>2, <4>1, RoundsFrame DEF SyncInitFields, IInv
    <3>3. CASE Step(c) /\ ~StoreCount(c) /\ ~SyncInitFields(c)
      <4>1. UNCHANGED <<count, entered>>
        BY <3>3
           DEF Step, SyncInitReady, Call, AwaitReady, spin_lock, LoadCount,
               AlignCount, spin_unlock, Leave, token, local
      <4> QED
        BY <4>1, RoundsFrame DEF IInv
    <3> QED
      BY <1>2, <3>1, <3>2, <3>3
  <2>6. BarrierSafety'
    <3>1. CASE StoreCount(c)
      BY <3>1 DEF StoreCount, IInv, TypeOK, BarrierSafety
    <3>2. CASE Leave(c)
      <4>1. entered[c] = left[c] + 1
        BY <3>2 DEF Leave, IInv, Locals, Inside
      <4> QED
        BY <3>2, <4>1, LeaveRound DEF Leave, IInv, TypeOK, BarrierSafety
    <3>3. CASE Step(c) /\ ~StoreCount(c) /\ ~Leave(c)
      BY <3>3
         DEF Step, SyncInitFields, SyncInitReady, Call, AwaitReady, spin_lock,
             LoadCount, AlignCount, spin_unlock, IInv, BarrierSafety, token, local
    <3> QED
      BY <1>2, <3>1, <3>2, <3>3
  <2> QED
    BY <2>1, <2>2, <2>3, <2>4, <2>5, <2>6 DEF IInv
<1> QED
  BY <1>1, <1>2 DEF Next

-----------------------------------------------------------------------------
\* For any number of cores and of calls: the strengthened invariant holds in
\* every reachable state of cpu_sync_init and cpu_sync_barrier.
THEOREM InductiveInvariant == Spec => []IInv
<1>1. Init => IInv
  BY InitIInv
<1>2. IInv /\ [Next]_vars => IInv'
  BY NextIInv
<1> QED
  BY <1>1, <1>2, PTL DEF Spec

\* cpu_sync_barrier never lets a core out of its k-th rendezvous before every
\* core has entered its own k-th, for any number of cores and rounds.
THEOREM BarrierIsSafe == Spec => []BarrierSafety
<1>1. IInv => BarrierSafety
  BY DEF IInv
<1> QED
  BY <1>1, InductiveInvariant, PTL

\* The counting barrier of cpu.h implements the abstract barrier: the store of
\* the incremented count is the entry, the end of the spin loop is the exit,
\* and every other step is invisible.
THEOREM Refinement == Spec => ImplementsBarrier
<1>1. Init => Abstract!Init
  BY DEF Init, Abstract!Init
<1>2. IInv /\ [Next]_vars => [Abstract!Next]_Abstract!vars
  <2> SUFFICES ASSUME IInv, [Next]_vars
               PROVE  [Abstract!Next]_Abstract!vars
    OBVIOUS
  <2>1. CASE UNCHANGED vars
    BY <2>1 DEF vars, Abstract!vars
  <2>2. ASSUME NEW c \in Cpus, Step(c) PROVE [Abstract!Next]_Abstract!vars
    <3>1. CASE StoreCount(c)
      <4>1. entered[c] = left[c]
        BY <3>1 DEF StoreCount, IInv, Locals, Inside
      <4>2. Abstract!Enter(c)
        BY <3>1, <4>1 DEF StoreCount, Abstract!Enter
      <4> QED
        BY <4>2 DEF Abstract!Next
    <3>2. CASE Leave(c)
      <4>1. entered[c] = left[c] + 1 /\ left[c] \in Nat
        BY <3>2 DEF Leave, IInv, TypeOK, Locals, Inside
      <4>2. \A q \in Cpus : entered[c] <= entered[q]
        BY <3>2, LeaveRound
      <4>3. left' = [left EXCEPT ![c] = entered[c]] /\ UNCHANGED entered
        BY <3>2, <4>1 DEF Leave, IInv, TypeOK
      <4>4. \A q \in Cpus : entered[q] \in Nat
        BY DEF IInv, TypeOK
      <4>5. Abstract!Leave(c)
        BY <4>1, <4>2, <4>3, <4>4 DEF Abstract!Leave
      <4> QED
        BY <4>5 DEF Abstract!Next
    <3>3. CASE Step(c) /\ ~StoreCount(c) /\ ~Leave(c)
      BY <3>3
         DEF Step, SyncInitFields, SyncInitReady, Call, AwaitReady, spin_lock,
             LoadCount, AlignCount, spin_unlock, Abstract!vars
    <3> QED
      BY <2>2, <3>1, <3>2, <3>3
  <2> QED
    BY <2>1, <2>2 DEF Next
<1> QED
  BY <1>1, <1>2, InductiveInvariant, PTL
     DEF Spec, ImplementsBarrier, Abstract!Spec
=============================================================================
