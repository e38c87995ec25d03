---------------------------- MODULE VplicProofs ----------------------------
(* Proofs about the virtual interrupt controller of Vplic.tla.              *)
EXTENDS Vplic, WellFoundedInduction, TLAPS

\* The types, with the range of the priorities that the guest uses.
Types ==
    /\ TypeOK
    /\ prio \in [Irqs -> 0 .. MaxPrio]
    /\ \A c \in Cpus : pc[c] \in {"inject", "clear"} => arg[c] \in Irqs

\* Context c lets interrupt i through.
Passes(c, i) == i \in enbl[c] /\ prio[i] > threshold[c]

\* ServiceIsExclusive without its types; a vCPU that completes an interrupt has
\* not claimed it again.
Exclusive ==
    /\ \A c \in Cpus, i \in Irqs : Services(c, i) => i \in act
    /\ \A c, d \in Cpus, i \in Irqs : Services(c, i) /\ Services(d, i) => c = d
    /\ \A c \in Cpus : pc[c] = "clear" => arg[c] \notin claimed[c]
Unmasked == resets = 0 => \A i \in act \cap Irqs : \E c \in Cpus : Services(c, i)

\* Interrupt i is on its way in, deferred with a token to come, or pending.
Held(i) ==
    \/ \E c \in Cpus : pc[c] = "inject" /\ arg[c] = i
    \/ i \in deferred /\ deferred_count[i] > 0
    \/ i \in pend

\* A claimed device interrupt is held or active, and held in any case when its
\* activity is about to end; and a full bucket has its bit set.
Remembered ==
    \A i \in serving :
        /\ Held(i) \/ i \in act
        /\ (\E c \in Cpus : pc[c] = "clear" /\ arg[c] = i) => Held(i)
FullIsMarked == \A i \in Irqs : deferred_count[i] = max_deferred => i \in deferred

\* While the guest leaves its configuration alone: a vCPU services, and a core
\* claims from the physical PLIC, only what its context lets through, and what
\* is pending and could be claimed is noticed where it could.
Noticed(c) == vseip[c] \/ c \in lineMsg \/ pc[c] = "line"
Signalled ==
    writes = 0 /\ resets = 0 =>
        /\ \A c \in Cpus, i \in Irqs : Services(c, i) => Passes(c, i)
        /\ \A c \in Cpus : pc[c] = "inject" /\ arg[c] \in Hw => Passes(c, arg[c])
        /\ \A i \in pend \ (act \cup drained), c \in Cpus : Passes(c, i) =>
               \E d \in Cpus : Passes(d, i) /\ Noticed(d)

\* The inductive invariant.
VplicInv == Types /\ Exclusive /\ Unmasked /\ Remembered /\ FullIsMarked /\ Signalled

-----------------------------------------------------------------------------
\* A set of natural numbers has a least element.
LEMMA NatMin ==
  ASSUME NEW T, T \subseteq Nat, T # {}
  PROVE  \E x \in T : \A y \in T : x <= y
<1> DEFINE R == OpToRel(<, Nat)
<1>1. \A x, y \in Nat : y < x => <<y, x>> \in R
  BY DEF OpToRel
<1>2. IsWellFoundedOn(R, Nat)
  BY NatLessThanWellFounded
<1> HIDE DEF R
<1>3. PICK x \in T : \A y \in T : ~ (<<y, x>> \in R)
  BY <1>2, WFMin
<1>4. \A y \in T : x \in Nat /\ y \in Nat /\ ~ (y < x)
  BY <1>1, <1>3
<1>5. \A y \in T : x <= y
  BY <1>4
<1> QED
  BY <1>5

\* Best finds an interrupt of S that passes whenever there is one.
LEMMA BestPasses ==
  ASSUME Types, NEW c \in Cpus, NEW S, S \subseteq Irqs
  PROVE  /\ \A i \in S : Passes(c, i) => Best(c, S) # 0
         /\ Best(c, S) # 0 => Best(c, S) \in S /\ Passes(c, Best(c, S))
<1> DEFINE open == {i \in S \cap enbl[c] : prio[i] > threshold[c]}
           Better(i, j) == prio[j] < prio[i] \/ (prio[j] = prio[i] /\ i <= j)
<1>1. open \subseteq S /\ open \subseteq Nat \ {0} /\ open \subseteq Irqs
      /\ \A i \in S : i \in open <=> Passes(c, i)
  BY VplicAssumption DEF Passes
<1>2. CASE open = {}
  BY <1>1, <1>2 DEF Best
<1>3. CASE open # {}
  <2>1. \A i \in open : prio[i] \in 0 .. MaxPrio
    BY <1>1 DEF Types
  <2>2. PICK i \in open : \A j \in open : prio[j] <= prio[i]
    <3> DEFINE T == {MaxPrio - prio[i] : i \in open}
    <3>1. T \subseteq Nat /\ T # {}
      <4>1. MaxPrio \in Nat
        BY VplicAssumption
      <4>2. \A i \in open : MaxPrio - prio[i] \in Nat
        BY <2>1, <4>1
      <4> QED
        BY <1>3, <4>2
    <3> HIDE DEF T
    <3>2. PICK x \in T : \A y \in T : x <= y
      BY <3>1, NatMin
    <3>3. PICK i \in open : x = MaxPrio - prio[i]
      BY <3>2 DEF T
    <3>4. \A j \in open : MaxPrio - prio[i] <= MaxPrio - prio[j]
      BY <3>2, <3>3 DEF T
    <3>5. \A j \in open : prio[j] <= prio[i]
      BY <2>1, <3>3, <3>4, VplicAssumption
    <3> QED
      BY <3>5
  <2> DEFINE T == {j \in open : prio[j] = prio[i]}
  <2>3. PICK k \in T : \A j \in T : k <= j
    <3>1. T \subseteq Nat /\ T # {}
      BY <1>1, <2>2
    <3> HIDE DEF T
    <3> QED
      BY <3>1, NatMin
  <2>4. \A j \in open : Better(k, j)
    <3> SUFFICES ASSUME NEW j \in open PROVE Better(k, j)
      OBVIOUS
    <3>1. prio[k] = prio[i] /\ k \in open
      BY <2>3
    <3>2. CASE prio[j] = prio[i]
      BY <2>3, <3>1, <3>2
    <3>3. CASE prio[j] # prio[i]
      BY <2>1, <2>2, <3>1, <3>3
    <3> QED
      BY <3>2, <3>3
  <2>5. Best(c, S) = CHOOSE b \in open : \A j \in open : Better(b, j)
    BY <1>3 DEF Best
  <2>6. k \in open
    BY <2>3
  <2> HIDE DEF open, Better, T
  <2>7. Best(c, S) \in open
    BY <2>4, <2>5, <2>6
  <2> QED
    BY <1>1, <2>7
<1> QED
  BY <1>2, <1>3

\* What vplic_next_pending returns.
LEMMA NextPending ==
  ASSUME Types, NEW c \in Cpus
  PROVE  /\ \A i \in pend \ act : Passes(c, i) => vplic_next_pending(c) # 0
         /\ vplic_next_pending(c) # 0 => /\ vplic_next_pending(c) \in pend \ act
                                        /\ Passes(c, vplic_next_pending(c))
         /\ vplic_next_pending(c) \in Irqs \cup {0}
<1>1. pend \ act \subseteq Irqs
  BY DEF Types, TypeOK
<1> QED
  BY <1>1, BestPasses DEF vplic_next_pending

-----------------------------------------------------------------------------
\* The three ways through vplic_inject.  In the second one the bucket has handed
\* out all it deferred; in the third one it drops the interrupt only if the
\* bucket was full.
InjectPending(c) ==
    /\ arg[c] \in pend
    /\ UNCHANGED <<pend, act, deferred, tokens, deferred_count, vseip, lineMsg>>
InjectAllowed(c) ==
    /\ pend' = pend \cup {arg[c]}
    /\ UNCHANGED <<act, deferred>>
    /\ tokens' \in [Irqs -> 0 .. max_tokens]
    /\ deferred_count' = [deferred_count EXCEPT ![arg[c]] = 0]
    /\ vplic_update_hart_line(c,
          IF arg[c] \in Hw THEN {c} ELSE {x \in Cpus : Passes(x, arg[c])})
InjectDeferred(c) ==
    /\ UNCHANGED <<pend, act, vseip, lineMsg>>
    /\ tokens' \in [Irqs -> 0 .. max_tokens]
    /\ \E n \in 1 .. max_deferred :
          deferred_count' = [deferred_count EXCEPT ![arg[c]] = n]
    /\ \/ deferred' = deferred \cup {arg[c]}
       \/ deferred' = deferred /\ deferred_count[arg[c]] = max_deferred

\* vplic_inject takes one of them, and the core returns to its guest.
LEMMA InjectCases ==
  ASSUME Types, NEW c \in Cpus, vplic_inject(c)
  PROVE  /\ pc[c] = "inject" /\ arg[c] \in Irqs /\ Goto(c, "guest", 0)
         /\ UNCHANGED <<enbl, threshold, prio, requests, serving, claimed, resets, writes,
                        drained>>
         /\ InjectPending(c) \/ InjectAllowed(c) \/ InjectDeferred(c)
<1> DEFINE i == arg[c]
           heirs == IF i \in Hw THEN {c} ELSE {x \in Cpus : Passes(x, i)}
<1>1. /\ pc[c] = "inject" /\ i \in Irqs /\ Goto(c, "guest", 0)
      /\ UNCHANGED <<enbl, threshold, prio, requests, serving, claimed, resets, writes, drained>>
  BY DEF vplic_inject, Types, regs, plic, history
<1>2. /\ tokens \in [Irqs -> 0 .. max_tokens] /\ deferred_count \in [Irqs -> 0 .. max_deferred]
      /\ max_tokens \in Nat /\ max_deferred \in Nat \ {0}
  BY VplicAssumption DEF Types, TypeOK
<1>3. CASE i \in pend
  BY <1>1, <1>3 DEF vplic_inject, InjectPending, bits, buckets
<1>4. CASE i \notin pend
  <2>1. PICK t \in tokens[i] .. max_tokens :
          LET out     == Min2(deferred_count[i], t)
              left    == t - out
              waiting == deferred_count[i] - out
          IN  \/ /\ left > 0
                 /\ tokens' = [tokens EXCEPT ![i] = left - 1]
                 /\ deferred_count' = [deferred_count EXCEPT ![i] = waiting]
                 /\ pend' = pend \cup {i}
                 /\ UNCHANGED <<act, deferred, regs>>
                 /\ vplic_update_hart_line(c, heirs)
              \/ /\ left = 0
                 /\ tokens' = [tokens EXCEPT ![i] = 0]
                 /\ deferred_count' = [deferred_count EXCEPT ![i] = DeferOne(waiting)]
                 /\ deferred' = MarkDeferred(i, waiting)
                 /\ UNCHANGED <<pend, act, vseip, lineMsg>>
    BY <1>4 DEF vplic_inject, Passes
  <2> DEFINE out     == Min2(deferred_count[i], t)
             left    == t - out
             waiting == deferred_count[i] - out
  <2>2. /\ t \in 0 .. max_tokens /\ out \in 0 .. max_deferred /\ left \in 0 .. max_tokens
        /\ waiting \in 0 .. deferred_count[i] /\ deferred_count[i] \in 0 .. max_deferred
        /\ left > 0 => waiting = 0
    BY <1>1, <1>2, <2>1 DEF Min2
  <2>3. CASE left > 0
    <3>1. /\ tokens' = [tokens EXCEPT ![i] = left - 1]
          /\ deferred_count' = [deferred_count EXCEPT ![i] = 0]
          /\ pend' = pend \cup {i} /\ UNCHANGED <<act, deferred>>
          /\ vplic_update_hart_line(c, heirs)
      BY <2>1, <2>2, <2>3
    <3>2. left - 1 \in 0 .. max_tokens
      BY <1>2, <2>2, <2>3
    <3> HIDE DEF left, waiting, out
    <3>3. tokens' \in [Irqs -> 0 .. max_tokens]
      BY <1>2, <3>1, <3>2
    <3> QED
      BY <1>1, <3>1, <3>3 DEF InjectAllowed
  <2>4. CASE left = 0
    <3>1. /\ tokens' = [tokens EXCEPT ![i] = 0]
          /\ deferred_count' = [deferred_count EXCEPT ![i] = DeferOne(waiting)]
          /\ deferred' = MarkDeferred(i, waiting)
          /\ UNCHANGED <<pend, act, vseip, lineMsg>>
      BY <2>1, <2>2, <2>4
    <3>2. DeferOne(waiting) \in 1 .. max_deferred
      BY <1>2, <2>2 DEF DeferOne, Min2
    <3>3. \/ deferred' = deferred \cup {i}
          \/ deferred' = deferred /\ deferred_count[i] = max_deferred
      <4>1. CASE waiting < max_deferred
        BY <3>1, <4>1 DEF MarkDeferred
      <4>2. CASE ~ (waiting < max_deferred)
        <5>1. deferred_count[i] = max_deferred
          BY <1>2, <2>2, <4>2
        <5> QED
          BY <3>1, <4>2, <5>1 DEF MarkDeferred
      <4> QED
        BY <4>1, <4>2
    <3>4. tokens' \in [Irqs -> 0 .. max_tokens]
      <4>1. tokens' = [tokens EXCEPT ![i] = 0] /\ 0 \in 0 .. max_tokens
        BY <1>2, <3>1
      <4> QED
        BY <1>2, <4>1
    <3> QED
      BY <1>1, <3>1, <3>2, <3>3, <3>4 DEF InjectDeferred
  <2> QED
    BY <1>2, <2>2, <2>3, <2>4
<1> QED
  BY <1>3, <1>4

\* vplic_claim: back are the deferred interrupts that got a token.
Claimed(c, i, back) ==
    /\ act' = act \cup {i}
    /\ claimed' = [claimed EXCEPT ![c] = @ \cup ({i} \ {0})]
    /\ pend' = (pend \ {i}) \cup back
    /\ deferred' = deferred \ back
    /\ drained' = (drained \ {i}) \cup (back \ (pend \ {i}))
    /\ tokens' \in [Irqs -> 0 .. max_tokens]
    /\ deferred_count' \in [Irqs -> 0 .. max_deferred]
    /\ \A j \in Irqs : j \notin back => deferred_count'[j] = deferred_count[j]
    /\ \A j \in back : deferred_count'[j] < deferred_count[j]

\* A claim takes one interrupt, and drains others back into pend.
LEMMA ClaimFacts ==
  ASSUME Types, NEW c \in Cpus, vplic_claim(c)
  PROVE  /\ pc[c] = "guest" /\ Goto(c, "line", 0)
         /\ UNCHANGED <<enbl, threshold, prio, vseip, lineMsg, requests, serving, resets, writes>>
         /\ \E back \in SUBSET (Irqs \cap deferred) : Claimed(c, vplic_next_pending(c), back)
<1> DEFINE i == vplic_next_pending(c)
<1>1. /\ pc[c] = "guest" /\ Goto(c, "line", 0)
      /\ UNCHANGED <<enbl, threshold, prio, vseip, lineMsg, requests, serving, resets, writes>>
  BY DEF vplic_claim, regs, plic
<1>2. PICK t \in [Irqs -> 0 .. max_tokens] :
        LET out  == [j \in Irqs |-> IF j \in deferred
                                    THEN Min2(deferred_count[j], t[j]) ELSE 0]
            back == {j \in Irqs : out[j] > 0}
        IN  /\ pend' = (pend \ {i}) \cup back
            /\ deferred' = deferred \ back
            /\ drained' = (drained \ {i}) \cup (back \ (pend \ {i}))
            /\ tokens' = [j \in Irqs |-> t[j] - out[j]]
            /\ deferred_count' = [j \in Irqs |-> deferred_count[j] - out[j]]
  BY DEF vplic_claim
<1> DEFINE out  == [j \in Irqs |-> IF j \in deferred
                                   THEN Min2(deferred_count[j], t[j]) ELSE 0]
           back == {j \in Irqs : out[j] > 0}
<1>3. act' = act \cup {i} /\ claimed' = [claimed EXCEPT ![c] = @ \cup ({i} \ {0})]
  BY DEF vplic_claim
<1>4. /\ tokens' = [j \in Irqs |-> t[j] - out[j]]
      /\ deferred_count' = [j \in Irqs |-> deferred_count[j] - out[j]]
      /\ pend' = (pend \ {i}) \cup back /\ deferred' = deferred \ back
      /\ drained' = (drained \ {i}) \cup (back \ (pend \ {i}))
  BY <1>2
<1>5. \A j \in Irqs : /\ t[j] \in 0 .. max_tokens /\ deferred_count[j] \in 0 .. max_deferred
                      /\ out[j] \in 0 .. deferred_count[j] /\ out[j] \in 0 .. t[j]
                      /\ out[j] > 0 => j \in deferred
  BY VplicAssumption DEF Types, TypeOK, Min2
<1> HIDE DEF out, i
<1>6. tokens' \in [Irqs -> 0 .. max_tokens] /\ deferred_count' \in [Irqs -> 0 .. max_deferred]
  BY <1>4, <1>5, VplicAssumption
<1>7. \A j \in Irqs : j \notin back => deferred_count'[j] = deferred_count[j]
  BY <1>4, <1>5
<1>8. \A j \in back : deferred_count'[j] < deferred_count[j]
  BY <1>4, <1>5
<1>9. back \in SUBSET (Irqs \cap deferred)
  BY <1>5
<1> HIDE DEF back
<1>10. Claimed(c, i, back)
  BY <1>3, <1>4, <1>6, <1>7, <1>8 DEF Claimed
<1> QED
  BY <1>1, <1>9, <1>10 DEF i

-----------------------------------------------------------------------------
\* Nothing is pending, active or being serviced initially.
LEMMA InitVplicInv == Init => VplicInv
<1> SUFFICES ASSUME Init PROVE VplicInv
  OBVIOUS
<1>1. Types
  BY VplicAssumption DEF Init, Types, TypeOK
<1>2. Exclusive /\ Unmasked
  BY DEF Init, Exclusive, Unmasked, Services
<1>3. Remembered /\ FullIsMarked
  BY VplicAssumption DEF Init, Remembered, FullIsMarked
<1>4. Signalled
  BY DEF Init, Signalled, Services
<1> QED
  BY <1>1, <1>2, <1>3, <1>4 DEF VplicInv

\* What vplic_update_hart_line leaves behind.
LEMMA LineTypes ==
  ASSUME NEW c \in Cpus, NEW X \in SUBSET Cpus, vseip \in [Cpus -> BOOLEAN],
         lineMsg \in SUBSET Cpus, vplic_update_hart_line(c, X)
  PROVE  vseip' \in [Cpus -> BOOLEAN] /\ lineMsg' \in SUBSET Cpus
  BY DEF vplic_update_hart_line

\* Every step keeps the types.
LEMMA NextTypes == Types /\ [Next]_vars => Types'
<1> SUFFICES ASSUME Types, [Next]_vars PROVE Types'
  OBVIOUS
<1> USE DEF Types, TypeOK, Goto
<1>1. ASSUME NEW i \in Irqs, Request(i) PROVE Types'
  BY <1>1 DEF Request, bits, regs, buckets, history
<1>2. ASSUME NEW c \in Cpus, plic_handle(c) PROVE Types'
  <2>1. requests \subseteq Irqs
    BY VplicAssumption
  <2>2. Best(c, requests) \in requests
    BY <1>2, <2>1, BestPasses DEF plic_handle
  <2>3. Best(c, requests) \in Hw /\ Best(c, requests) \in Irqs
    BY <2>2, VplicAssumption
  <2> QED
    BY <1>2, <2>3 DEF plic_handle, bits, regs, buckets, history
<1>3. ASSUME NEW c \in Cpus, NEW i \in Irqs, ipc_notify(c, i) PROVE Types'
  BY <1>3 DEF ipc_notify, bits, regs, buckets, plic, history
<1>4. ASSUME NEW c \in Cpus, vplic_inject(c) PROVE Types'
  <2>1. /\ arg[c] \in Irqs /\ Goto(c, "guest", 0)
        /\ UNCHANGED <<enbl, threshold, prio, requests, serving, claimed, resets, writes,
                       drained>>
    BY <1>4, InjectCases
  <2>2. CASE InjectPending(c)
    BY <2>1, <2>2 DEF InjectPending
  <2>3. CASE InjectAllowed(c)
    <3> DEFINE heirs == IF arg[c] \in Hw THEN {c} ELSE {x \in Cpus : Passes(x, arg[c])}
    <3>1. heirs \in SUBSET Cpus /\ vplic_update_hart_line(c, heirs)
      BY <2>3 DEF InjectAllowed
    <3>2. vseip' \in [Cpus -> BOOLEAN] /\ lineMsg' \in SUBSET Cpus
      <4> HIDE DEF heirs
      <4> QED
        BY <3>1, LineTypes
    <3>3. 0 \in 0 .. max_deferred
      BY VplicAssumption
    <3>4. deferred_count' \in [Irqs -> 0 .. max_deferred]
      BY <2>3, <3>3 DEF InjectAllowed
    <3> QED
      BY <2>1, <2>3, <3>2, <3>4 DEF InjectAllowed
  <2>4. CASE InjectDeferred(c)
    <3>1. PICK n \in 1 .. max_deferred : deferred_count' = [deferred_count EXCEPT ![arg[c]] = n]
      BY <2>4 DEF InjectDeferred
    <3>2. n \in 0 .. max_deferred
      BY VplicAssumption
    <3>3. deferred_count' \in [Irqs -> 0 .. max_deferred]
      BY <3>1, <3>2
    <3> QED
      BY <2>1, <2>4, <3>3 DEF InjectDeferred
  <2> QED
    BY <1>4, <2>2, <2>3, <2>4, InjectCases
<1>5. ASSUME NEW c \in Cpus, vplic_ipi_handler(c) PROVE Types'
  BY <1>5 DEF vplic_ipi_handler, bits, regs, buckets, plic, history
<1>6. ASSUME NEW c \in Cpus, ClearActive(c) PROVE Types'
  BY <1>6 DEF ClearActive, regs, buckets, plic, history
<1>7. ASSUME NEW c \in Cpus, UpdateOwnLine(c) PROVE Types'
  BY <1>7 DEF UpdateOwnLine, vplic_update_hart_line, bits, regs, buckets, plic, history
<1>8. ASSUME NEW c \in Cpus, vplic_claim(c) PROVE Types'
  <2>1. /\ Goto(c, "line", 0)
        /\ UNCHANGED <<enbl, threshold, prio, vseip, lineMsg, requests, serving, resets, writes>>
    BY <1>8, ClaimFacts
  <2>2. PICK back \in SUBSET (Irqs \cap deferred) : Claimed(c, vplic_next_pending(c), back)
    BY <1>8, ClaimFacts
  <2>3. vplic_next_pending(c) \in Irqs \cup {0}
    BY NextPending
  <2> QED
    BY <2>1, <2>2, <2>3 DEF Claimed
<1>9. ASSUME NEW c \in Cpus, NEW i \in Irqs, vplic_complete(c, i) PROVE Types'
  BY <1>9 DEF vplic_complete, bits, regs, buckets, history
<1>10. ASSUME NEW c \in Cpus, NEW x \in Cpus, NEW i \in Irqs, vplic_set_enbl(c, x, i)
       PROVE  Types'
  <2>1. vseip' \in [Cpus -> BOOLEAN] /\ lineMsg' \in SUBSET Cpus
    BY <1>10, LineTypes DEF vplic_set_enbl
  <2>2. writes' \in Nat /\ enbl' \in [Cpus -> SUBSET Irqs]
    BY <1>10 DEF vplic_set_enbl, GuestWrites
  <2> QED
    BY <1>10, <2>1, <2>2 DEF vplic_set_enbl, bits, buckets, plic
<1>11. ASSUME NEW c \in Cpus, NEW i \in Irqs, NEW p \in 0 .. MaxPrio, vplic_set_prio(c, i, p)
       PROVE  Types'
  <2>1. vseip' \in [Cpus -> BOOLEAN] /\ lineMsg' \in SUBSET Cpus
    <3> DEFINE X == IF i \in Hw THEN {} ELSE {x \in Cpus : i \in enbl[x]}
    <3>1. X \in SUBSET Cpus /\ vplic_update_hart_line(c, X)
      BY <1>11 DEF vplic_set_prio
    <3> HIDE DEF X
    <3> QED
      BY <3>1, LineTypes
  <2>2. writes' \in Nat
    BY <1>11 DEF vplic_set_prio, GuestWrites
  <2>3. prio' \in [Irqs -> 0 .. MaxPrio]
    BY <1>11 DEF vplic_set_prio
  <2>4. prio' \in [Irqs -> Nat]
    BY <2>3, VplicAssumption
  <2> QED
    BY <1>11, <2>1, <2>2, <2>3, <2>4 DEF vplic_set_prio, bits, buckets, plic
<1>12. ASSUME NEW c \in Cpus, NEW x \in Cpus, NEW p \in 0 .. MaxPrio,
              vplic_set_threshold(c, x, p)
       PROVE  Types'
  <2>1. vseip' \in [Cpus -> BOOLEAN] /\ lineMsg' \in SUBSET Cpus
    BY <1>12, LineTypes DEF vplic_set_threshold
  <2>2. p \in Nat
    BY VplicAssumption
  <2>3. writes' \in Nat /\ threshold' \in [Cpus -> Nat]
    BY <1>12, <2>2 DEF vplic_set_threshold, GuestWrites
  <2> QED
    BY <1>12, <2>1, <2>3 DEF vplic_set_threshold, bits, buckets, plic
<1>13. CASE VmRecovers
  BY <1>13 DEF VmRecovers, bits, regs, buckets, plic
<1>14. CASE UNCHANGED vars
  BY <1>14 DEF vars
<1> QED
  BY <1>1, <1>2, <1>3, <1>4, <1>5, <1>6, <1>7, <1>8, <1>9, <1>10, <1>11, <1>12, <1>13, <1>14
  DEF Next, Hypervisor, Guest

-----------------------------------------------------------------------------
\* A step that nobody's service depends on.
LEMMA ServiceFrame ==
  ASSUME Types, Exclusive, Unmasked, UNCHANGED <<act, claimed, resets>>,
         \A c \in Cpus : /\ pc'[c] = "clear" <=> pc[c] = "clear"
                         /\ pc[c] = "clear" => arg'[c] = arg[c]
  PROVE  Exclusive' /\ Unmasked'
<1>1. \A c \in Cpus, i \in Irqs : Services(c, i)' <=> Services(c, i)
  BY DEF Services
<1> QED
  BY <1>1 DEF Exclusive, Unmasked

\* Every step keeps service exclusive: vplic_claim takes an interrupt that is not
\* active, so nobody services it; vplic_complete and ClearActive hand it back.
LEMMA NextExclusive == VplicInv /\ [Next]_vars => Exclusive' /\ Unmasked'
<1> SUFFICES ASSUME VplicInv, [Next]_vars PROVE Exclusive' /\ Unmasked'
  OBVIOUS
<1>0. Types /\ Exclusive /\ Unmasked
  BY DEF VplicInv
<1>1. /\ pc \in [Cpus -> {"guest", "inject", "clear", "line"}]
      /\ arg \in [Cpus -> Irqs \cup {0}] /\ claimed \in [Cpus -> SUBSET Irqs]
      /\ resets \in Nat
  BY <1>0 DEF Types, TypeOK
<1>2. ASSUME NEW c \in Cpus, vplic_claim(c) PROVE Exclusive' /\ Unmasked'
  <2> DEFINE n == vplic_next_pending(c)
  <2>1. /\ pc[c] = "guest" /\ Goto(c, "line", 0) /\ UNCHANGED resets
        /\ act' = act \cup {n}
        /\ claimed' = [claimed EXCEPT ![c] = @ \cup ({n} \ {0})]
    BY <1>0, <1>2, ClaimFacts DEF Claimed
  <2>2. n # 0 => n \notin act
    BY <1>0, NextPending
  <2>3. 0 \notin Irqs
    BY VplicAssumption
  <2> HIDE DEF n
  <2>4. \A d \in Cpus, i \in Irqs :
          Services(d, i)' <=> Services(d, i) \/ (d = c /\ i = n)
    BY <1>1, <2>1, <2>3 DEF Services, Goto
  <2>5. \A d \in Cpus : ~ (n \in Irqs /\ Services(d, n))
    BY <1>0, <2>2, <2>3 DEF Exclusive
  <2>6. \A d \in Cpus : pc'[d] = "clear" => /\ d # c /\ pc[d] = "clear"
                                           /\ arg'[d] = arg[d] /\ claimed'[d] = claimed[d]
    BY <1>1, <2>1 DEF Goto
  <2>7. Exclusive'
    BY <1>0, <2>1, <2>4, <2>5, <2>6 DEF Exclusive
  <2>8. Unmasked'
    BY <1>0, <2>1, <2>4 DEF Unmasked
  <2> QED
    BY <2>7, <2>8
<1>3. ASSUME NEW c \in Cpus, NEW i \in Irqs, vplic_complete(c, i)
      PROVE  Exclusive' /\ Unmasked'
  <2>1. /\ pc[c] = "guest" /\ i \in claimed[c] /\ Goto(c, "clear", i)
        /\ claimed' = [claimed EXCEPT ![c] = @ \ {i}] /\ UNCHANGED <<act, resets>>
    BY <1>3 DEF vplic_complete, bits, history
  <2>2. \A d \in Cpus, j \in Irqs : Services(d, j)' <=> Services(d, j)
    BY <1>1, <2>1 DEF Services, Goto
  <2>3. \A d \in Cpus : pc'[d] = "clear" => arg'[d] \notin claimed'[d]
    BY <1>0, <1>1, <2>1 DEF Exclusive, Goto
  <2> QED
    BY <1>0, <2>1, <2>2, <2>3 DEF Exclusive, Unmasked
<1>4. ASSUME NEW c \in Cpus, ClearActive(c) PROVE Exclusive' /\ Unmasked'
  <2>1. /\ pc[c] = "clear" /\ Goto(c, "line", 0) /\ act' = act \ {arg[c]}
        /\ UNCHANGED <<claimed, resets>> /\ arg[c] \in Irqs /\ arg[c] \notin claimed[c]
    BY <1>0, <1>4 DEF ClearActive, history, Types, Exclusive
  <2>2. Services(c, arg[c])
    BY <2>1 DEF Services
  <2>3. \A d \in Cpus, j \in Irqs : Services(d, j)' <=> Services(d, j) /\ j # arg[c]
    BY <1>0, <1>1, <2>1, <2>2 DEF Services, Goto, Exclusive
  <2>4. \A d \in Cpus : pc'[d] = "clear" => pc[d] = "clear" /\ arg'[d] = arg[d]
    BY <1>1, <2>1 DEF Goto
  <2>5. Exclusive'
    BY <1>0, <2>1, <2>3, <2>4 DEF Exclusive
  <2>6. Unmasked'
    BY <1>0, <2>1, <2>3 DEF Unmasked
  <2> QED
    BY <2>5, <2>6
<1>5. CASE VmRecovers
  <2>1. /\ claimed' = [c \in Cpus |-> {}] /\ resets' = resets + 1
        /\ \A c \in Cpus : pc'[c] = "guest"
    BY <1>5 DEF VmRecovers
  <2> QED
    BY <1>1, <2>1 DEF Exclusive, Unmasked, Services
<1>6. ASSUME NEW c \in Cpus,
             \/ plic_handle(c)
             \/ \E i \in Irqs : ipc_notify(c, i)
             \/ UpdateOwnLine(c)
             \/ vplic_ipi_handler(c)
      PROVE  Exclusive' /\ Unmasked'
  <2>1. UNCHANGED <<act, claimed, resets>>
    BY <1>6 DEF plic_handle, ipc_notify, UpdateOwnLine, vplic_ipi_handler, bits, history
  <2>2. \A d \in Cpus : /\ pc'[d] = "clear" <=> pc[d] = "clear"
                        /\ pc[d] = "clear" => arg'[d] = arg[d]
    BY <1>1, <1>6 DEF plic_handle, ipc_notify, UpdateOwnLine, vplic_ipi_handler, Goto
  <2> QED
    BY <1>0, <2>1, <2>2, ServiceFrame
<1>7. ASSUME NEW c \in Cpus, vplic_inject(c) PROVE Exclusive' /\ Unmasked'
  <2>1. pc[c] = "inject" /\ Goto(c, "guest", 0) /\ UNCHANGED <<act, claimed, resets>>
    BY <1>0, <1>7, InjectCases DEF InjectPending, InjectAllowed, InjectDeferred
  <2>2. \A d \in Cpus : /\ pc'[d] = "clear" <=> pc[d] = "clear"
                        /\ pc[d] = "clear" => arg'[d] = arg[d]
    BY <1>1, <2>1 DEF Goto
  <2> QED
    BY <1>0, <2>1, <2>2, ServiceFrame
<1>8. ASSUME NEW c \in Cpus,
             \/ \E x \in Cpus, i \in Irqs : vplic_set_enbl(c, x, i)
             \/ \E i \in Irqs, p \in 0 .. MaxPrio : vplic_set_prio(c, i, p)
             \/ \E x \in Cpus, p \in 0 .. MaxPrio : vplic_set_threshold(c, x, p)
      PROVE  Exclusive' /\ Unmasked'
  <2>1. UNCHANGED <<act, claimed, resets, pc, arg>>
    BY <1>8 DEF vplic_set_enbl, vplic_set_prio, vplic_set_threshold, bits
  <2> QED
    BY <1>0, <2>1, ServiceFrame
<1>9. ASSUME (\E i \in Irqs : Request(i)) \/ UNCHANGED vars PROVE Exclusive' /\ Unmasked'
  <2>1. UNCHANGED <<act, claimed, resets, pc, arg>>
    BY <1>9 DEF Request, bits, history, vars
  <2> QED
    BY <1>0, <2>1, ServiceFrame
<1> QED
  BY <1>2, <1>3, <1>4, <1>5, <1>6, <1>7, <1>8, <1>9 DEF Next, Hypervisor, Guest

-----------------------------------------------------------------------------
\* A step that lets go of nothing that is held, starts no completion and unmasks
\* nothing.
LEMMA HoldFrame ==
  ASSUME Remembered, FullIsMarked, serving' \subseteq serving,
         UNCHANGED <<pend, deferred, deferred_count>>,
         act \subseteq act',
         \A c \in Cpus : /\ pc[c] = "inject" => pc'[c] = "inject" /\ arg'[c] = arg[c]
                         /\ pc'[c] = "clear" => pc[c] = "clear" /\ arg'[c] = arg[c]
  PROVE  Remembered' /\ FullIsMarked'
<1>1. \A i \in serving : Held(i) => Held(i)'
  BY DEF Held
<1> QED
  BY <1>1 DEF Remembered, FullIsMarked

\* Every step keeps hold of the claimed device interrupts: an interrupt that the
\* limiter drops has its bit set and its count above zero, an interrupt that stops
\* being active without a completion at the physical PLIC came in again meanwhile.
LEMMA NextRemembered == VplicInv /\ [Next]_vars => Remembered' /\ FullIsMarked'
<1> SUFFICES ASSUME VplicInv, [Next]_vars PROVE Remembered' /\ FullIsMarked'
  OBVIOUS
<1>0. Types /\ Exclusive /\ Remembered /\ FullIsMarked
  BY DEF VplicInv
<1>1. /\ pc \in [Cpus -> {"guest", "inject", "clear", "line"}]
      /\ arg \in [Cpus -> Irqs \cup {0}]
      /\ deferred_count \in [Irqs -> 0 .. max_deferred]
      /\ serving \subseteq Irqs /\ requests \subseteq Irqs /\ max_deferred \in Nat \ {0}
  BY <1>0, VplicAssumption DEF Types, TypeOK
<1>2. ASSUME NEW c \in Cpus, plic_handle(c) PROVE Remembered' /\ FullIsMarked'
  <2>0. PICK n : n = Best(c, requests)
    OBVIOUS
  <2>1. /\ pc[c] = "guest" /\ Goto(c, "inject", n) /\ serving' = serving \cup {n}
        /\ UNCHANGED <<pend, deferred, deferred_count, act>>
    BY <1>2, <2>0 DEF plic_handle, bits, buckets
  <2>2. Held(n)'
    BY <1>1, <2>1 DEF Held, Goto
  <2>3. \A d \in Cpus : d # c => pc'[d] = pc[d] /\ arg'[d] = arg[d]
    BY <1>1, <2>1 DEF Goto
  <2>4. \A i \in serving : Held(i) => Held(i)'
    BY <2>1, <2>3 DEF Held
  <2>5. \A d \in Cpus : pc'[d] = "clear" => pc[d] = "clear" /\ arg'[d] = arg[d]
    BY <1>1, <2>1 DEF Goto
  <2> QED
    BY <1>0, <2>1, <2>2, <2>4, <2>5 DEF Remembered, FullIsMarked
<1>3. ASSUME NEW c \in Cpus, vplic_inject(c) PROVE Remembered' /\ FullIsMarked'
  <2>0. PICK k : k = arg[c]
    OBVIOUS
  <2>1. /\ pc[c] = "inject" /\ k = arg[c] /\ k \in Irqs /\ Goto(c, "guest", 0) /\ UNCHANGED serving
        /\ InjectPending(c) \/ InjectAllowed(c) \/ InjectDeferred(c)
    BY <1>0, <1>3, <2>0, InjectCases
  <2>2. UNCHANGED act /\ pend \subseteq pend' /\ deferred \subseteq deferred'
    BY <2>1 DEF InjectPending, InjectAllowed, InjectDeferred
  <2>3. \A i \in Irqs : i # k => deferred_count'[i] = deferred_count[i]
    BY <1>1, <2>1 DEF InjectPending, InjectAllowed, InjectDeferred
  <2>4. Held(k)' /\ (deferred_count'[k] = max_deferred => k \in deferred')
    <3>1. CASE InjectPending(c)
      BY <1>0, <2>1, <3>1 DEF InjectPending, Held, FullIsMarked
    <3>2. CASE InjectAllowed(c)
      BY <1>1, <2>1, <3>2 DEF InjectAllowed, Held
    <3>3. CASE InjectDeferred(c)
      <4>1. k \in deferred'
        BY <1>0, <2>1, <3>3 DEF InjectDeferred, FullIsMarked
      <4>2. deferred_count'[k] > 0
        BY <1>1, <2>1, <3>3 DEF InjectDeferred
      <4> QED
        BY <4>1, <4>2 DEF Held
    <3> QED
      BY <2>1, <3>1, <3>2, <3>3
  <2>5. \A d \in Cpus : /\ d # c => pc'[d] = pc[d] /\ arg'[d] = arg[d]
                        /\ pc'[c] = "guest"
    BY <1>1, <2>1 DEF Goto
  <2>6. \A i \in serving : Held(i) => Held(i)'
    BY <1>1, <2>0, <2>2, <2>3, <2>4, <2>5 DEF Held
  <2>7. FullIsMarked'
    BY <1>0, <2>2, <2>3, <2>4 DEF FullIsMarked
  <2>8. Remembered'
    BY <1>0, <2>1, <2>2, <2>5, <2>6 DEF Remembered
  <2> QED
    BY <2>7, <2>8
<1>4. ASSUME NEW c \in Cpus, vplic_claim(c) PROVE Remembered' /\ FullIsMarked'
  <2> DEFINE n == vplic_next_pending(c)
  <2>1. pc[c] = "guest" /\ Goto(c, "line", 0) /\ UNCHANGED serving
    BY <1>0, <1>4, ClaimFacts
  <2>2. PICK back \in SUBSET (Irqs \cap deferred) : Claimed(c, n, back)
    BY <1>0, <1>4, ClaimFacts
  <2>3. n # 0 => n \notin act
    BY <1>0, NextPending
  <2>4. 0 \notin Irqs
    BY VplicAssumption
  <2> HIDE DEF n
  <2>5. \A d \in Cpus : /\ d # c => pc'[d] = pc[d] /\ arg'[d] = arg[d]
                        /\ pc'[c] = "line"
    BY <1>1, <2>1 DEF Goto
  <2>6. \A i \in serving : Held(i) /\ i # n => Held(i)'
    <3> SUFFICES ASSUME NEW i \in serving, Held(i), i # n PROVE Held(i)'
      OBVIOUS
    <3>1. CASE \E d \in Cpus : pc[d] = "inject" /\ arg[d] = i
      BY <2>1, <2>5, <3>1 DEF Held
    <3>2. CASE i \in deferred /\ deferred_count[i] > 0
      BY <1>1, <2>2, <3>2 DEF Held, Claimed
    <3>3. CASE i \in pend
      BY <2>2, <3>3 DEF Held, Claimed
    <3> QED
      BY <3>1, <3>2, <3>3 DEF Held
  <2>7. \A d \in Cpus : pc'[d] = "clear" =>
            pc[d] = "clear" /\ arg'[d] = arg[d] /\ (arg[d] \in Irqs => arg[d] # n)
    BY <1>0, <2>3, <2>4, <2>5 DEF Exclusive, Services
  <2>8. act' = act \cup {n}
    BY <2>2 DEF Claimed
  <2>9. Remembered'
    BY <1>0, <1>1, <2>1, <2>6, <2>7, <2>8 DEF Remembered
  <2>10. FullIsMarked'
    <3> SUFFICES ASSUME NEW i \in Irqs, deferred_count'[i] = max_deferred PROVE i \in deferred'
      BY DEF FullIsMarked
    <3>1. i \notin back
      BY <1>1, <2>2 DEF Claimed
    <3> QED
      BY <1>0, <2>2, <3>1 DEF Claimed, FullIsMarked
  <2> QED
    BY <2>9, <2>10
<1>5. ASSUME NEW c \in Cpus, NEW i \in Irqs, vplic_complete(c, i)
      PROVE  Remembered' /\ FullIsMarked'
  <2>1. /\ pc[c] = "guest" /\ Goto(c, "clear", i) /\ serving' = serving \ {i}
        /\ UNCHANGED <<pend, deferred, deferred_count, act>>
    BY <1>5 DEF vplic_complete, bits, buckets
  <2>2. /\ \A d \in Cpus : d # c => pc'[d] = pc[d] /\ arg'[d] = arg[d]
        /\ pc'[c] = "clear" /\ arg'[c] = i
    BY <1>1, <2>1 DEF Goto
  <2>3. \A j \in serving : Held(j) => Held(j)'
    BY <2>1, <2>2 DEF Held
  <2> QED
    BY <1>0, <2>1, <2>2, <2>3 DEF Remembered, FullIsMarked
<1>6. ASSUME NEW c \in Cpus, ClearActive(c) PROVE Remembered' /\ FullIsMarked'
  <2>1. /\ pc[c] = "clear" /\ Goto(c, "line", 0) /\ act' = act \ {arg[c]}
        /\ UNCHANGED <<pend, deferred, deferred_count, serving>>
    BY <1>6 DEF ClearActive, plic, buckets
  <2>2. /\ \A d \in Cpus : d # c => pc'[d] = pc[d] /\ arg'[d] = arg[d]
        /\ pc'[c] = "line"
    BY <1>1, <2>1 DEF Goto
  <2>3. \A j \in serving : Held(j) => Held(j)'
    BY <2>1, <2>2 DEF Held
  <2>4. arg[c] \in serving => Held(arg[c])
    BY <1>0, <2>1 DEF Remembered
  <2> QED
    BY <1>0, <2>1, <2>2, <2>3, <2>4 DEF Remembered, FullIsMarked
<1>7. ASSUME NEW c \in Cpus,
             \/ \E i \in Irqs : ipc_notify(c, i)
             \/ vplic_ipi_handler(c)
             \/ UpdateOwnLine(c)
             \/ \E x \in Cpus, i \in Irqs : vplic_set_enbl(c, x, i)
             \/ \E i \in Irqs, p \in 0 .. MaxPrio : vplic_set_prio(c, i, p)
             \/ \E x \in Cpus, p \in 0 .. MaxPrio : vplic_set_threshold(c, x, p)
      PROVE  Remembered' /\ FullIsMarked'
  <2>1. UNCHANGED <<pend, deferred, deferred_count, act, serving>>
    BY <1>7 DEF ipc_notify, vplic_ipi_handler, UpdateOwnLine, vplic_set_enbl, vplic_set_prio,
                vplic_set_threshold, bits, buckets, plic
  <2>2. \A d \in Cpus : /\ pc[d] = "inject" => pc'[d] = "inject" /\ arg'[d] = arg[d]
                        /\ pc'[d] = "clear" => pc[d] = "clear" /\ arg'[d] = arg[d]
    BY <1>1, <1>7 DEF ipc_notify, vplic_ipi_handler, UpdateOwnLine, vplic_set_enbl,
                      vplic_set_prio, vplic_set_threshold, Goto
  <2> QED
    BY <1>0, <2>1, <2>2, HoldFrame
<1>8. ASSUME (\E i \in Irqs : Request(i)) \/ VmRecovers \/ UNCHANGED vars
      PROVE  Remembered' /\ FullIsMarked'
  <2>1. UNCHANGED <<pend, deferred, deferred_count, act, serving, pc, arg>>
    BY <1>8 DEF Request, VmRecovers, bits, buckets, plic, vars
  <2> QED
    BY <1>0, <2>1, HoldFrame
<1> QED
  BY <1>2, <1>3, <1>4, <1>5, <1>6, <1>7, <1>8 DEF Next, Hypervisor, Guest

-----------------------------------------------------------------------------
\* What vplic_next_pending finds after a step that leaves the registers alone.
LEMMA NextPendingAfter ==
  ASSUME Types, Types', UNCHANGED <<enbl, threshold, prio>>, NEW c \in Cpus,
         NEW i \in pend' \ act', Passes(c, i)
  PROVE  (vplic_next_pending(c) # 0)'
<1>1. PICK S : S = pend' \ act'
  OBVIOUS
<1>2. S \subseteq Irqs
  BY <1>1 DEF Types, TypeOK
<1>3. Best(c, S) # 0
  BY <1>1, <1>2, BestPasses
<1>4. vplic_next_pending(c)' = Best(c, S)
  BY <1>1 DEF vplic_next_pending, Best
<1> QED
  BY <1>3, <1>4

\* A step that makes nothing new claimable and takes no notice away.
LEMMA SignalFrame ==
  ASSUME Signalled, UNCHANGED <<enbl, threshold, prio, resets, writes>>,
         \A c \in Cpus, i \in Irqs : Services(c, i)' => Services(c, i),
         \A c \in Cpus : pc'[c] = "inject" /\ arg'[c] \in Hw =>
                            pc[c] = "inject" /\ arg'[c] = arg[c],
         pend' \ (act' \cup drained') \subseteq pend \ (act \cup drained),
         \A i \in pend' \ (act' \cup drained'), c \in Cpus :
             Passes(c, i) /\ Noticed(c) => Noticed(c)'
  PROVE  Signalled'
<1>1. \A c \in Cpus : \A i : Passes(c, i)' <=> Passes(c, i)
  BY DEF Passes
<1> SUFFICES ASSUME writes = 0, resets = 0
             PROVE  /\ \A c \in Cpus, i \in Irqs : Services(c, i)' => Passes(c, i)'
                    /\ \A c \in Cpus : pc'[c] = "inject" /\ arg'[c] \in Hw =>
                                          Passes(c, arg[c])'
                    /\ \A i \in pend' \ (act' \cup drained'), c \in Cpus :
                         Passes(c, i)' => \E d \in Cpus : Passes(d, i)' /\ Noticed(d)'
  BY DEF Signalled
<1>2. \A c \in Cpus, i \in Irqs : Services(c, i)' => Passes(c, i)'
  BY <1>1 DEF Signalled
<1>3. ASSUME NEW c \in Cpus, pc'[c] = "inject", arg'[c] \in Hw PROVE Passes(c, arg[c])'
  <2>1. Passes(c, arg[c]) /\ arg'[c] = arg[c]
    BY <1>3 DEF Signalled
  <2> QED
    BY <2>1 DEF Passes
<1>4. ASSUME NEW i \in pend' \ (act' \cup drained'), NEW c \in Cpus, Passes(c, i)'
      PROVE  \E d \in Cpus : Passes(d, i)' /\ Noticed(d)'
  <2>1. PICK d \in Cpus : Passes(d, i) /\ Noticed(d)
    BY <1>1, <1>4 DEF Signalled
  <2> QED
    BY <1>1, <2>1
<1> QED
  BY <1>2, <1>3, <1>4

\* Every step keeps what is claimable noticed.
LEMMA NextSignalled == VplicInv /\ [Next]_vars => Signalled'
<1> SUFFICES ASSUME VplicInv, [Next]_vars PROVE Signalled'
  OBVIOUS
<1>0. Types /\ Exclusive /\ Signalled /\ Types'
  BY NextTypes DEF VplicInv
<1>1. /\ pc \in [Cpus -> {"guest", "inject", "clear", "line"}]
      /\ arg \in [Cpus -> Irqs \cup {0}] /\ claimed \in [Cpus -> SUBSET Irqs]
      /\ vseip \in [Cpus -> BOOLEAN] /\ lineMsg \in SUBSET Cpus
      /\ resets \in Nat /\ writes \in Nat /\ requests \subseteq Hw /\ pend \subseteq Irqs
  BY <1>0 DEF Types, TypeOK
<1>2. ASSUME NEW c \in Cpus, plic_handle(c) PROVE Signalled'
  <2>0. PICK n : n = Best(c, requests)
    OBVIOUS
  <2>1. /\ pc[c] = "guest" /\ Goto(c, "inject", n) /\ n # 0
        /\ UNCHANGED <<pend, act, enbl, threshold, prio, resets, writes, drained, claimed,
                       vseip, lineMsg>>
    BY <1>2, <2>0 DEF plic_handle, bits, regs, history
  <2>2. n \in Hw /\ Passes(c, n)
    <3>1. requests \subseteq Irqs
      BY <1>1, VplicAssumption
    <3> QED
      BY <1>0, <1>1, <2>0, <2>1, <3>1, BestPasses
  <2>3. \A d \in Cpus : /\ d # c => pc'[d] = pc[d] /\ arg'[d] = arg[d]
                        /\ pc'[c] = "inject" /\ arg'[c] = n
    BY <1>1, <2>1 DEF Goto
  <2>4. /\ \A d \in Cpus, i \in Irqs : Services(d, i)' => Services(d, i)
        /\ \A d \in Cpus : \A i : Passes(d, i)' <=> Passes(d, i)
        /\ \A d \in Cpus : Noticed(d) => Noticed(d)'
    BY <2>1, <2>3 DEF Services, Passes, Noticed
  <2> SUFFICES ASSUME writes = 0, resets = 0
               PROVE  /\ \A d \in Cpus, i \in Irqs : Services(d, i)' => Passes(d, i)'
                      /\ \A d \in Cpus : pc'[d] = "inject" /\ arg'[d] \in Hw =>
                                            Passes(d, arg[d])'
                      /\ \A i \in pend' \ (act' \cup drained'), d \in Cpus :
                           Passes(d, i)' => \E e \in Cpus : Passes(e, i)' /\ Noticed(e)'
    BY <2>1 DEF Signalled
  <2>5. \A d \in Cpus, i \in Irqs : Services(d, i)' => Passes(d, i)'
    BY <1>0, <2>4 DEF Signalled
  <2>6. ASSUME NEW d \in Cpus, pc'[d] = "inject", arg'[d] \in Hw PROVE Passes(d, arg[d])'
    <3>1. Passes(d, arg'[d])
      BY <1>0, <2>2, <2>3, <2>6 DEF Signalled
    <3> QED
      BY <2>1, <3>1 DEF Passes
  <2>7. \A i \in pend' \ (act' \cup drained'), d \in Cpus :
           Passes(d, i)' => \E e \in Cpus : Passes(e, i)' /\ Noticed(e)'
    BY <1>0, <2>1, <2>4 DEF Signalled
  <2> QED
    BY <2>5, <2>6, <2>7
<1>3. ASSUME NEW c \in Cpus, NEW i \in Irqs, ipc_notify(c, i) PROVE Signalled'
  <2>1. /\ pc[c] = "guest" /\ Goto(c, "inject", i) /\ i \notin Hw
        /\ UNCHANGED <<pend, act, enbl, threshold, prio, resets, writes, drained, claimed,
                       vseip, lineMsg>>
    BY <1>3 DEF ipc_notify, bits, regs, history
  <2>2. \A d \in Cpus : /\ d # c => pc'[d] = pc[d] /\ arg'[d] = arg[d]
                        /\ pc'[c] = "inject" /\ arg'[c] = i
    BY <1>1, <2>1 DEF Goto
  <2>3. /\ \A d \in Cpus, j \in Irqs : Services(d, j)' => Services(d, j)
        /\ \A d \in Cpus : Noticed(d) => Noticed(d)'
    BY <2>1, <2>2 DEF Services, Noticed
  <2>4. \A d \in Cpus : pc'[d] = "inject" /\ arg'[d] \in Hw =>
                           pc[d] = "inject" /\ arg'[d] = arg[d]
    BY <2>1, <2>2
  <2> QED
    BY <1>0, <2>1, <2>3, <2>4, SignalFrame
<1>4. ASSUME NEW c \in Cpus, vplic_inject(c) PROVE Signalled'
  <2>0. PICK k : k = arg[c]
    OBVIOUS
  <2>1. /\ pc[c] = "inject" /\ k \in Irqs /\ Goto(c, "guest", 0)
        /\ UNCHANGED <<enbl, threshold, prio, resets, writes, drained, claimed>>
        /\ InjectPending(c) \/ InjectAllowed(c) \/ InjectDeferred(c)
    BY <1>0, <1>4, <2>0, InjectCases
  <2>2. \A d \in Cpus : /\ d # c => pc'[d] = pc[d] /\ arg'[d] = arg[d]
                        /\ pc'[c] = "guest"
    BY <1>1, <2>1 DEF Goto
  <2>3. \A d \in Cpus, j \in Irqs : Services(d, j)' => Services(d, j)
    BY <2>1, <2>2 DEF Services
  <2>4. \A d \in Cpus : pc'[d] = "inject" => pc[d] = "inject" /\ arg'[d] = arg[d]
    BY <2>2
  <2>5. CASE InjectPending(c) \/ InjectDeferred(c)
    <3>1. UNCHANGED <<pend, act, vseip, lineMsg>>
      BY <2>5 DEF InjectPending, InjectDeferred
    <3>2. \A d \in Cpus : Noticed(d) => Noticed(d)'
      BY <2>1, <2>2, <3>1 DEF Noticed
    <3> QED
      BY <1>0, <2>1, <2>3, <2>4, <3>1, <3>2, SignalFrame
  <2>6. CASE InjectAllowed(c)
    <3>0. PICK X : X = IF k \in Hw THEN {c} ELSE {x \in Cpus : Passes(x, k)}
      OBVIOUS
    <3>1. /\ pend' = pend \cup {k} /\ UNCHANGED act
          /\ vplic_update_hart_line(c, X)
      BY <2>0, <2>6, <3>0 DEF InjectAllowed
    <3>2. \A j \in pend' \ act', d \in Cpus :
             Passes(d, j) /\ (d \in X \/ Noticed(d)) => Noticed(d)'
      <4> SUFFICES ASSUME NEW j \in pend' \ act', NEW d \in Cpus, Passes(d, j),
                          d \in X \/ Noticed(d)
                   PROVE  Noticed(d)'
        OBVIOUS
      <4>1. (vplic_next_pending(d) # 0)'
        BY <1>0, <2>1, NextPendingAfter
      <4>2. CASE d = c
        <5>1. CASE c \in X
          BY <3>1, <4>1, <4>2, <5>1 DEF vplic_update_hart_line, Noticed
        <5>2. CASE c \notin X
          BY <1>1, <2>1, <3>1, <4>2, <5>2 DEF vplic_update_hart_line, Noticed
        <5> QED
          BY <5>1, <5>2
      <4>3. CASE d # c
        BY <1>1, <2>2, <3>1, <4>3 DEF vplic_update_hart_line, Noticed
      <4> QED
        BY <4>2, <4>3
    <3>3. \A d \in Cpus : \A j : Passes(d, j)' <=> Passes(d, j)
      BY <2>1 DEF Passes
    <3> SUFFICES ASSUME writes = 0, resets = 0
                 PROVE  /\ \A d \in Cpus, i \in Irqs : Services(d, i)' => Passes(d, i)'
                        /\ \A d \in Cpus : pc'[d] = "inject" /\ arg'[d] \in Hw =>
                                              Passes(d, arg[d])'
                        /\ \A i \in pend' \ (act' \cup drained'), d \in Cpus :
                             Passes(d, i)' => \E e \in Cpus : Passes(e, i)' /\ Noticed(e)'
      BY <2>1 DEF Signalled
    <3>4. \A d \in Cpus, i \in Irqs : Services(d, i)' => Passes(d, i)'
      BY <1>0, <2>3, <3>3 DEF Signalled
    <3>5. ASSUME NEW d \in Cpus, pc'[d] = "inject", arg'[d] \in Hw PROVE Passes(d, arg[d])'
      <4>1. Passes(d, arg'[d])
        BY <1>0, <2>4, <3>5 DEF Signalled
      <4> QED
        BY <2>1, <4>1 DEF Passes
    <3>6. ASSUME NEW i \in pend' \ (act' \cup drained'), NEW d \in Cpus, Passes(d, i)'
          PROVE  \E e \in Cpus : Passes(e, i)' /\ Noticed(e)'
      <4>1. CASE i = k
        <5>1. PICK e \in Cpus : Passes(e, k) /\ e \in X
          <6>1. CASE k \in Hw
            BY <1>0, <2>0, <2>1, <3>0, <6>1 DEF Signalled
          <6>2. CASE k \notin Hw
            BY <3>0, <3>3, <3>6, <4>1, <6>2
          <6> QED
            BY <6>1, <6>2
        <5> QED
          BY <3>2, <3>3, <4>1, <5>1
      <4>2. CASE i # k
        <5>1. i \in pend \ (act \cup drained)
          BY <2>1, <3>1, <4>2
        <5>2. PICK e \in Cpus : Passes(e, i) /\ Noticed(e)
          BY <1>0, <3>3, <3>6, <5>1 DEF Signalled
        <5> QED
          BY <3>2, <3>3, <5>2
      <4> QED
        BY <4>1, <4>2
    <3> QED
      BY <3>4, <3>5, <3>6
  <2> QED
    BY <2>1, <2>5, <2>6
<1>5. ASSUME NEW c \in Cpus, vplic_ipi_handler(c) PROVE Signalled'
  <2>1. /\ lineMsg' = lineMsg \ {c} /\ vseip' = [vseip EXCEPT ![c] = vplic_next_pending(c) # 0]
        /\ UNCHANGED <<pend, act, enbl, threshold, prio, resets, writes, drained, claimed, pc,
                       arg>>
    BY <1>5 DEF vplic_ipi_handler, bits, regs, history
  <2>2. \A d \in Cpus, j \in Irqs : Services(d, j)' => Services(d, j)
    BY <2>1 DEF Services
  <2>3. \A i \in pend \ act, d \in Cpus : Passes(d, i) /\ Noticed(d) => Noticed(d)'
    <3> SUFFICES ASSUME NEW i \in pend \ act, NEW d \in Cpus, Passes(d, i), Noticed(d)
                 PROVE  Noticed(d)'
      OBVIOUS
    <3>1. vplic_next_pending(d) # 0
      BY <1>0, NextPending
    <3> QED
      BY <1>1, <2>1, <3>1 DEF Noticed
  <2> QED
    BY <1>0, <2>1, <2>2, <2>3, SignalFrame
<1>6. ASSUME NEW c \in Cpus, ClearActive(c) PROVE Signalled'
  <2>0. PICK k : k = arg[c]
    OBVIOUS
  <2>1. /\ pc[c] = "clear" /\ Goto(c, "line", 0) /\ act' = act \ {k} /\ k \in Irqs
        /\ UNCHANGED <<pend, enbl, threshold, prio, resets, writes, drained, claimed, vseip,
                       lineMsg>>
    BY <1>0, <1>6, <2>0 DEF ClearActive, regs, history, Types
  <2>2. \A d \in Cpus : /\ d # c => pc'[d] = pc[d] /\ arg'[d] = arg[d]
                        /\ pc'[c] = "line"
    BY <1>1, <2>1 DEF Goto
  <2>3. /\ \A d \in Cpus, j \in Irqs : Services(d, j)' => Services(d, j)
        /\ \A d \in Cpus : Noticed(d) => Noticed(d)'
        /\ \A d \in Cpus : \A j : Passes(d, j)' <=> Passes(d, j)
    BY <2>1, <2>2 DEF Services, Noticed, Passes
  <2> SUFFICES ASSUME writes = 0, resets = 0
               PROVE  /\ \A d \in Cpus, i \in Irqs : Services(d, i)' => Passes(d, i)'
                      /\ \A d \in Cpus : pc'[d] = "inject" /\ arg'[d] \in Hw =>
                                            Passes(d, arg[d])'
                      /\ \A i \in pend' \ (act' \cup drained'), d \in Cpus :
                           Passes(d, i)' => \E e \in Cpus : Passes(e, i)' /\ Noticed(e)'
    BY <2>1 DEF Signalled
  <2>4. \A d \in Cpus, i \in Irqs : Services(d, i)' => Passes(d, i)'
    BY <1>0, <2>3 DEF Signalled
  <2>5. ASSUME NEW d \in Cpus, pc'[d] = "inject", arg'[d] \in Hw PROVE Passes(d, arg[d])'
    <3>1. Passes(d, arg'[d])
      BY <1>0, <2>2, <2>5 DEF Signalled
    <3> QED
      BY <2>1, <3>1 DEF Passes
  <2>6. ASSUME NEW i \in pend' \ (act' \cup drained'), NEW d \in Cpus, Passes(d, i)'
        PROVE  \E e \in Cpus : Passes(e, i)' /\ Noticed(e)'
    <3>1. CASE i = k
      <4>1. Passes(c, k)
        BY <1>0, <2>0, <2>1 DEF Signalled, Services
      <4> QED
        BY <2>2, <2>3, <3>1, <4>1 DEF Noticed
    <3>2. CASE i # k
      BY <1>0, <2>1, <2>3, <2>6, <3>2 DEF Signalled
    <3> QED
      BY <3>1, <3>2
  <2> QED
    BY <2>4, <2>5, <2>6
<1>7. ASSUME NEW c \in Cpus, UpdateOwnLine(c) PROVE Signalled'
  <2>1. /\ pc[c] = "line" /\ Goto(c, "guest", 0) /\ vplic_update_hart_line(c, {c})
        /\ UNCHANGED <<pend, act, enbl, threshold, prio, resets, writes, drained, claimed>>
    BY <1>7 DEF UpdateOwnLine, bits, regs, history
  <2>2. \A d \in Cpus : /\ d # c => pc'[d] = pc[d] /\ arg'[d] = arg[d]
                        /\ pc'[c] = "guest"
    BY <1>1, <2>1 DEF Goto
  <2>3. \A d \in Cpus, j \in Irqs : Services(d, j)' => Services(d, j)
    BY <2>1, <2>2 DEF Services
  <2>4. \A d \in Cpus : pc'[d] = "inject" => pc[d] = "inject" /\ arg'[d] = arg[d]
    BY <2>2
  <2>5. \A i \in pend' \ act', d \in Cpus : Passes(d, i) /\ Noticed(d) => Noticed(d)'
    <3> SUFFICES ASSUME NEW i \in pend' \ act', NEW d \in Cpus, Passes(d, i), Noticed(d)
                 PROVE  Noticed(d)'
      OBVIOUS
    <3>1. (vplic_next_pending(d) # 0)'
      BY <1>0, <2>1, NextPendingAfter
    <3>2. CASE d = c
      BY <2>1, <3>1, <3>2 DEF vplic_update_hart_line, Noticed
    <3>3. CASE d # c
      BY <1>1, <2>1, <2>2, <3>3 DEF vplic_update_hart_line, Noticed
    <3> QED
      BY <3>2, <3>3
  <2> QED
    BY <1>0, <2>1, <2>3, <2>4, <2>5, SignalFrame
<1>8. ASSUME NEW c \in Cpus, vplic_claim(c) PROVE Signalled'
  <2>0. PICK n : n = vplic_next_pending(c)
    OBVIOUS
  <2>1. /\ pc[c] = "guest" /\ Goto(c, "line", 0)
        /\ UNCHANGED <<enbl, threshold, prio, vseip, lineMsg, resets, writes>>
    BY <1>0, <1>8, ClaimFacts
  <2>2. PICK back \in SUBSET (Irqs \cap deferred) : Claimed(c, n, back)
    BY <1>0, <1>8, <2>0, ClaimFacts
  <2>3. n # 0 => Passes(c, n)
    BY <1>0, <2>0, NextPending
  <2>4. 0 \notin Irqs
    BY VplicAssumption
  <2>5. \A d \in Cpus : /\ d # c => pc'[d] = pc[d] /\ arg'[d] = arg[d]
                        /\ pc'[c] = "line"
    BY <1>1, <2>1 DEF Goto
  <2>6. \A d \in Cpus, i \in Irqs : Services(d, i)' => Services(d, i) \/ (d = c /\ i = n)
    BY <1>1, <2>2, <2>5 DEF Services, Claimed
  <2>7. /\ \A d \in Cpus : Noticed(d) => Noticed(d)'
        /\ \A d \in Cpus : \A j : Passes(d, j)' <=> Passes(d, j)
    BY <2>1, <2>5 DEF Noticed, Passes
  <2>8. pend' \ (act' \cup drained') \subseteq pend \ (act \cup drained)
    BY <2>2 DEF Claimed
  <2> SUFFICES ASSUME writes = 0, resets = 0
               PROVE  /\ \A d \in Cpus, i \in Irqs : Services(d, i)' => Passes(d, i)'
                      /\ \A d \in Cpus : pc'[d] = "inject" /\ arg'[d] \in Hw =>
                                            Passes(d, arg[d])'
                      /\ \A i \in pend' \ (act' \cup drained'), d \in Cpus :
                           Passes(d, i)' => \E e \in Cpus : Passes(e, i)' /\ Noticed(e)'
    BY <2>1 DEF Signalled
  <2>9. \A d \in Cpus, i \in Irqs : Services(d, i)' => Passes(d, i)'
    BY <1>0, <2>3, <2>4, <2>6, <2>7 DEF Signalled
  <2>10. ASSUME NEW d \in Cpus, pc'[d] = "inject", arg'[d] \in Hw PROVE Passes(d, arg[d])'
    <3>1. Passes(d, arg'[d])
      BY <1>0, <2>5, <2>10 DEF Signalled
    <3> QED
      BY <2>1, <3>1 DEF Passes
  <2>11. ASSUME NEW i \in pend' \ (act' \cup drained'), NEW d \in Cpus, Passes(d, i)'
         PROVE  \E e \in Cpus : Passes(e, i)' /\ Noticed(e)'
    <3>1. PICK e \in Cpus : Passes(e, i) /\ Noticed(e)
      BY <1>0, <2>7, <2>8, <2>11 DEF Signalled
    <3> QED
      BY <2>7, <3>1
  <2> QED
    BY <2>9, <2>10, <2>11
<1>9. ASSUME NEW c \in Cpus, NEW i \in Irqs, vplic_complete(c, i) PROVE Signalled'
  <2>1. /\ pc[c] = "guest" /\ i \in claimed[c] /\ Goto(c, "clear", i)
        /\ claimed' = [claimed EXCEPT ![c] = @ \ {i}]
        /\ UNCHANGED <<pend, act, enbl, threshold, prio, resets, writes, drained, vseip,
                       lineMsg>>
    BY <1>9 DEF vplic_complete, bits, regs, history
  <2>2. \A d \in Cpus : /\ d # c => pc'[d] = pc[d] /\ arg'[d] = arg[d]
                        /\ pc'[c] = "clear" /\ arg'[c] = i
    BY <1>1, <2>1 DEF Goto
  <2>3. \A d \in Cpus, j \in Irqs : Services(d, j)' => Services(d, j)
    BY <1>1, <2>1, <2>2 DEF Services
  <2>4. /\ \A d \in Cpus : Noticed(d) => Noticed(d)'
        /\ \A d \in Cpus : pc'[d] = "inject" => pc[d] = "inject" /\ arg'[d] = arg[d]
    BY <2>1, <2>2 DEF Noticed
  <2> QED
    BY <1>0, <2>1, <2>3, <2>4, SignalFrame
<1>10. ASSUME NEW c \in Cpus,
              \/ \E x \in Cpus, i \in Irqs : vplic_set_enbl(c, x, i)
              \/ \E i \in Irqs, p \in 0 .. MaxPrio : vplic_set_prio(c, i, p)
              \/ \E x \in Cpus, p \in 0 .. MaxPrio : vplic_set_threshold(c, x, p)
       PROVE  Signalled'
  <2>1. writes' = writes + 1
    BY <1>10 DEF vplic_set_enbl, vplic_set_prio, vplic_set_threshold, GuestWrites
  <2> QED
    BY <1>1, <2>1 DEF Signalled
<1>11. CASE VmRecovers
  BY <1>1, <1>11 DEF VmRecovers, Signalled
<1>12. ASSUME (\E i \in Irqs : Request(i)) \/ UNCHANGED vars PROVE Signalled'
  <2>1. UNCHANGED <<pend, act, enbl, threshold, prio, resets, writes, drained, claimed, vseip,
                    lineMsg, pc, arg>>
    BY <1>12 DEF Request, vars, bits, regs, history
  <2>2. /\ \A d \in Cpus, j \in Irqs : Services(d, j)' => Services(d, j)
        /\ \A d \in Cpus : Noticed(d) => Noticed(d)'
    BY <2>1 DEF Services, Noticed
  <2> QED
    BY <1>0, <2>1, <2>2, SignalFrame
<1> QED
  BY <1>2, <1>3, <1>4, <1>5, <1>6, <1>7, <1>8, <1>9, <1>10, <1>11, <1>12
  DEF Next, Hypervisor, Guest

-----------------------------------------------------------------------------
\* The invariant holds in every reachable state.
LEMMA SpecVplicInv == Spec => []VplicInv
<1>1. Init => VplicInv
  BY InitVplicInv
<1>2. VplicInv /\ [Next]_vars => VplicInv'
  BY NextTypes, NextExclusive, NextRemembered, NextSignalled DEF VplicInv
<1> QED
  BY <1>1, <1>2, PTL DEF Spec

\* Whatever the cores do under vplic_claim, vplic_complete and vplic_inject, an
\* interrupt is serviced by one vCPU at a time and is masked meanwhile, and until a
\* recovery what is masked is serviced.
THEOREM OneServer == Spec => []ServiceIsExclusive
<1>1. VplicInv => ServiceIsExclusive
  BY DEF VplicInv, Types, Exclusive, Unmasked, ServiceIsExclusive
<1> QED
  BY <1>1, SpecVplicInv, PTL

\* A device interrupt that plic_handle claimed is never forgotten by vplic_inject,
\* vplic_claim or vplic_complete, however the rate limiter decides.
THEOREM ClaimedIsHeld == Spec => []PhysicalIrqIsHeld
<1>1. VplicInv => PhysicalIrqIsHeld
  BY DEF VplicInv, Remembered, Held, PhysicalIrqIsHeld
<1> QED
  BY <1>1, SpecVplicInv, PTL

\* While the guest leaves its configuration alone, an interrupt that some vCPU
\* could claim has the line of such a vCPU raised or about to be looked at by
\* vplic_update_hart_line, except for what vplic_claim took out of the deferred ones.
THEOREM LineFollowsPending == Spec => []PendingIsSignalled
<1>1. ASSUME VplicInv PROVE PendingIsSignalled
  <2>1. Types /\ Signalled /\ pend \subseteq Irqs
    BY <1>1 DEF VplicInv, Types, TypeOK
  <2>2. \A i \in pend, c \in Cpus : Best(c, {i}) = i <=> Passes(c, i)
    <3> SUFFICES ASSUME NEW i \in pend, NEW c \in Cpus
                 PROVE  Best(c, {i}) = i <=> Passes(c, i)
      OBVIOUS
    <3>1. i \in Irqs /\ i # 0 /\ {i} \subseteq Irqs
      BY <2>1, VplicAssumption
    <3> QED
      BY <2>1, <3>1, BestPasses
  <2> QED
    BY <2>1, <2>2 DEF Signalled, PendingIsSignalled, Noticed
<1> QED
  BY <1>1, SpecVplicInv, PTL
=============================================================================
