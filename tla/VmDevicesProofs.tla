--------------------------- MODULE VmDevicesProofs ---------------------------
(***************************************************************************)
(* DmaConfined of VmDevices, for any VMs, configurations and sizes of the  *)
(* SMMU and of the ring.  DeviceInv is inductive:                          *)
(*                                                                         *)
(*   Shapes       the list of a master is in order: a step that relies on  *)
(*                the local variable comes right behind the one that set   *)
(*                it, and is about something the configuration has.        *)
(*   Contexts     a context is valid only after its page table is there.   *)
(*   BankInv      a bank is in one place, and written before it is known.  *)
(*   EntryInv     an entry is one master's until its bank is written, and  *)
(*                then carries streams of the VM that has the bank.  It    *)
(*                needs that the VMs share no stream and that no search    *)
(*                has read an entry before it was written.                 *)
(***************************************************************************)
EXTENDS VmDevices, TLAPS

-----------------------------------------------------------------------------
(* The list of a master. *)

\* A step that relies on what the step before it has left in a variable.
Link == {<<"load", "store">>, <<"iohgatp", "tc">>,
         <<"tail", "inval">>, <<"tail", "iofence">>, <<"tail", "wait">>,
         <<"inval", "cqt">>, <<"iofence", "cqt">>,
         <<"alloc_ctxbnk", "write_ctxbnk">>, <<"write_ctxbnk", "compatible">>,
         <<"write_sme", "write_s2c">>}
Linked == {"store", "tc", "inval", "iofence", "wait", "cqt", "write_ctxbnk", "compatible",
           "write_s2c"}

\* A step that prepares the one behind it.
Opening == {"alloc_ctxbnk", "write_sme"}

Chained(t) ==
    \A i \in DOMAIN t :
        /\ t[i].op \in Opening => i < Len(t) /\ <<t[i].op, t[i + 1].op>> \in Link
        /\ i > 1 => /\ t[i].op \notin {"alloc_sme", "write_sme"}
                    /\ t[i].op \in Linked => <<t[i - 1].op, t[i].op>> \in Link
                    /\ t[i].op = "tc" => t[i - 1].of = t[i].of

\* What a step can be about.
Wanted(vm) ==
    {Group(g) : g \in Elements(config.groups[vm])}
    \cup {Device(d) : d \in Elements(config.devs[vm]) \ {{}}}

RiscvOps == {"iohgatp", "tc", "tail", "inval", "cqt", "iofence", "wait"}
ArmOps == {"alloc_ctxbnk", "write_ctxbnk", "compatible", "alloc_sme", "write_sme", "write_s2c"}

Allowed(vm) ==
    [op : {"conflict", "load", "store"}, of : Elements(config.irqs[vm])]
    \cup {Step("io_vm_init", {})}
    \cup [op : {"add"}, of : Elements(config.devs[vm])]
    \cup [op : RiscvOps, of : Elements(config.devs[vm]) \cap Devices]
    \cup [op : ArmOps, of : Wanted(vm)]

Orderly(vm) == todo[vm] \in Seq(Allowed(vm)) /\ Chained(todo[vm])

Shapes ==
    /\ TypeOK
    /\ DOMAIN todo = VMs /\ DOMAIN reg = VMs /\ DOMAIN cache = Devices
    /\ \A vm \in VMs : Orderly(vm)
    /\ mistaken \in BOOLEAN
    /\ sme_num \in Nat /\ ctx_num \in Nat
    /\ DOMAIN cntxt = Banks
    /\ smr \in [Smes -> [valid : BOOLEAN, mask : SUBSET Bits, id : SUBSET Bits]]
    /\ DOMAIN s2cr = Smes
    /\ \A vm \in VMs :
          /\ At(vm, "store") => Reserved \subseteq reg[vm]
          /\ At(vm, "inval") \/ At(vm, "iofence") \/ At(vm, "cqt") =>
                reg[vm] \in 0..(CQ_NUM - 1)

-----------------------------------------------------------------------------
(* The RISC-V IOMMU. *)

\* A page table is that of a VM the device was configured for, and it is there before the
\* context is valid.
Contexts ==
    /\ \A d \in Devices :
          /\ ddt[d].root # None => d \in Elements(config.devs[ddt[d].root])
          /\ ddt[d].v => ddt[d].root # None
          /\ cache[d] # None => ContextConfined(cache[d], d)
    /\ \A vm \in VMs : At(vm, "tc") => ddt[Of(vm)].root # None

-----------------------------------------------------------------------------
(* The SMMU. *)

Bound(vm) == \E op \in {"compatible", "alloc_sme", "write_sme", "write_s2c"} : At(vm, op)

\* A bank is one VM's: from its allocation on it is in one place, and when the VM knows it
\* it has been written for it.
BankInv ==
    /\ \A v \in VMs : ctx_id[v] # None => ctx_id[v] \in ctxbank_bitmap /\ cntxt[ctx_id[v]] = {v}
    /\ \A v, w \in VMs : v # w /\ ctx_id[v] # None => ctx_id[v] # ctx_id[w]
    /\ \A v \in VMs : At(v, "write_ctxbnk") =>
          /\ ctx_id[v] = None
          /\ reg[v] \in ctxbank_bitmap
          /\ \A w \in VMs : /\ ctx_id[w] # reg[v]
                            /\ w # v /\ At(w, "write_ctxbnk") => reg[w] # reg[v]
    /\ \A v \in VMs : Bound(v) => ctx_id[v] # None

Holds(vm) == At(vm, "write_sme") \/ At(vm, "write_s2c")

\* All streams that match the entry are the VM's.
Carries(e, vm) ==
    \A s \in Streams : Covers(smr[e].mask, smr[e].id, s) => s \in StreamsOf(vm)

\* An entry that a master has taken is its own until the bank is written, and an entry that
\* is in use has streams of the VM whose bank it has.
EntryInv ==
    /\ \A v \in VMs : Holds(v) => reg[v] \in sme_bitmap
    /\ \A v, w \in VMs : v # w /\ Holds(v) /\ Holds(w) => reg[v] # reg[w]
    /\ \A v \in VMs : At(v, "write_s2c") => Carries(reg[v], v)
    /\ \A e \in Smes \ Unbound : smr[e].valid =>
          \E vm \in VMs : ctx_id[vm] # None /\ s2cr[e] = ctx_id[vm] /\ Carries(e, vm)

DeviceInv == Shapes /\ Contexts /\ BankInv /\ (Disjoint /\ ~mistaken => EntryInv)

-----------------------------------------------------------------------------
(* Lemmas about the lists. *)

\* The head of a list.
LEMMA FirstOf ==
    ASSUME NEW S, NEW t \in Seq(S), Len(t) > 0
    PROVE  t # <<>> /\ Head(t) = t[1]
OBVIOUS

\* What a list of the configuration has is of its kind.
LEMMA ElementsOf ==
    ASSUME NEW S, NEW t \in Seq(S)
    PROVE  Elements(t) \subseteq S
BY DEF Elements

\* What is left of a list is in order, and a step that relies on the one before comes first
\* only when that one was the first.
LEMMA PopChained ==
    ASSUME NEW S, NEW t \in Seq(S), t # <<>>, Chained(t)
    PROVE  /\ Tail(t) \in Seq(S)
           /\ Chained(Tail(t))
           /\ Tail(t) # <<>> =>
                 /\ Head(Tail(t)).op \notin {"alloc_sme", "write_sme"}
                 /\ Head(Tail(t)).op \in Linked => <<Head(t).op, Head(Tail(t)).op>> \in Link
                 /\ Head(Tail(t)).op = "tc" => Head(t).of = Head(Tail(t)).of
<1>1. /\ Tail(t) \in Seq(S)
      /\ Len(Tail(t)) = Len(t) - 1
      /\ \A i \in DOMAIN Tail(t) : i \in Nat \ {0} /\ i + 1 \in DOMAIN t /\ Tail(t)[i] = t[i + 1]
      /\ DOMAIN Tail(t) = 1..(Len(t) - 1) /\ DOMAIN t = 1..Len(t) /\ Len(t) \in Nat
    OBVIOUS
<1>2. ASSUME NEW i \in DOMAIN Tail(t)
      PROVE  /\ Tail(t)[i].op \in Opening =>
                   i < Len(Tail(t)) /\ <<Tail(t)[i].op, Tail(t)[i + 1].op>> \in Link
             /\ t[i + 1].op \notin {"alloc_sme", "write_sme"}
             /\ t[i + 1].op \in Linked => <<t[i].op, t[i + 1].op>> \in Link
             /\ t[i + 1].op = "tc" => t[i].of = t[i + 1].of
    <2>1. i \in Nat /\ i + 1 > 1 /\ i + 1 \in DOMAIN t /\ (i + 1) - 1 = i
        BY <1>1
    <2>2. /\ t[i + 1].op \in Opening =>
                i + 1 < Len(t) /\ <<t[i + 1].op, t[(i + 1) + 1].op>> \in Link
          /\ t[i + 1].op \notin {"alloc_sme", "write_sme"}
          /\ t[i + 1].op \in Linked => <<t[(i + 1) - 1].op, t[i + 1].op>> \in Link
          /\ t[i + 1].op = "tc" => t[(i + 1) - 1].of = t[i + 1].of
        BY <2>1 DEF Chained
    <2>3. i + 1 < Len(t) => i + 1 \in DOMAIN Tail(t)
        BY <1>1, <2>1
    <2> QED
        BY <1>1, <2>1, <2>2, <2>3
<1>3. Chained(Tail(t))
    <2> SUFFICES ASSUME NEW i \in DOMAIN Tail(t)
                 PROVE  /\ Tail(t)[i].op \in Opening =>
                              i < Len(Tail(t)) /\ <<Tail(t)[i].op, Tail(t)[i + 1].op>> \in Link
                        /\ i > 1 =>
                             /\ Tail(t)[i].op \notin {"alloc_sme", "write_sme"}
                             /\ Tail(t)[i].op \in Linked =>
                                   <<Tail(t)[i - 1].op, Tail(t)[i].op>> \in Link
                             /\ Tail(t)[i].op = "tc" => Tail(t)[i - 1].of = Tail(t)[i].of
        BY DEF Chained
    <2>1. i > 1 => i - 1 \in DOMAIN Tail(t) /\ Tail(t)[i - 1] = t[i]
        BY <1>1
    <2> QED
        BY <1>1, <1>2, <2>1
<1>4. Tail(t) # <<>> => 1 \in DOMAIN Tail(t) /\ Head(Tail(t)) = t[2] /\ Head(t) = t[1]
    BY <1>1
<1>5. ASSUME Tail(t) # <<>>
      PROVE  /\ Head(Tail(t)).op \notin {"alloc_sme", "write_sme"}
             /\ Head(Tail(t)).op \in Linked => <<Head(t).op, Head(Tail(t)).op>> \in Link
             /\ Head(Tail(t)).op = "tc" => Head(t).of = Head(Tail(t)).of
    <2>1. /\ t[1 + 1].op \notin {"alloc_sme", "write_sme"}
          /\ t[1 + 1].op \in Linked => <<t[1].op, t[1 + 1].op>> \in Link
          /\ t[1 + 1].op = "tc" => t[1].of = t[1 + 1].of
        BY <1>2, <1>4, <1>5
    <2>2. 1 + 1 = 2
        OBVIOUS
    <2> QED
        BY <2>1, <2>2, <1>4, <1>5
<1> QED
    BY <1>1, <1>3, <1>5

\* Lists in order stay in order behind each other if the second does not rely on the first.
LEMMA ConcatChained ==
    ASSUME NEW S, NEW f \in Seq(S), NEW g \in Seq(S), Chained(f), Chained(g),
           g # <<>> => Head(g).op \notin Linked \cup {"alloc_sme", "write_sme"}
    PROVE  f \o g \in Seq(S) /\ Chained(f \o g)
<1> DEFINE h == f \o g
<1>1. /\ h \in Seq(S) /\ Len(h) = Len(f) + Len(g)
      /\ DOMAIN h = 1..(Len(f) + Len(g)) /\ Len(f) \in Nat /\ Len(g) \in Nat
      /\ DOMAIN f = 1..Len(f) /\ DOMAIN g = 1..Len(g)
      /\ \A i \in 1..Len(f) : h[i] = f[i]
      /\ \A i \in 1..Len(g) : h[Len(f) + i] = g[i]
    OBVIOUS
<1> HIDE DEF h
<1>2. ASSUME NEW i \in DOMAIN h
      PROVE  /\ h[i].op \in Opening => i < Len(h) /\ <<h[i].op, h[i + 1].op>> \in Link
             /\ i > 1 => /\ h[i].op \notin {"alloc_sme", "write_sme"}
                         /\ h[i].op \in Linked => <<h[i - 1].op, h[i].op>> \in Link
                         /\ h[i].op = "tc" => h[i - 1].of = h[i].of
    <2>1. CASE i <= Len(f)
        <3>1. i \in DOMAIN f /\ h[i] = f[i] /\ (i < Len(f) => h[i + 1] = f[i + 1])
              /\ (i > 1 => h[i - 1] = f[i - 1])
            BY <1>1, <2>1
        <3>2. /\ f[i].op \in Opening => i < Len(f) /\ <<f[i].op, f[i + 1].op>> \in Link
              /\ i > 1 => /\ f[i].op \notin {"alloc_sme", "write_sme"}
                          /\ f[i].op \in Linked => <<f[i - 1].op, f[i].op>> \in Link
                          /\ f[i].op = "tc" => f[i - 1].of = f[i].of
            BY <3>1 DEF Chained
        <3>3. i < Len(f) => i < Len(h)
            BY <1>1, <2>1
        <3> QED
            BY <3>1, <3>2, <3>3
    <2>2. CASE i > Len(f)
        <3> DEFINE j == i - Len(f)
        <3>1. j \in DOMAIN g /\ h[i] = g[j] /\ (j < Len(g) => h[i + 1] = g[j + 1])
              /\ (j > 1 => h[i - 1] = g[j - 1]) /\ (j < Len(g) => i < Len(h))
            <4>1. j \in 1..Len(g) /\ i = Len(f) + j
                BY <1>1, <2>2
            <4>2. h[i] = g[j]
                BY <1>1, <4>1
            <4>3. ASSUME j < Len(g) PROVE h[i + 1] = g[j + 1] /\ i < Len(h)
                <5>1. j + 1 \in 1..Len(g) /\ i + 1 = Len(f) + (j + 1)
                    BY <1>1, <4>1, <4>3
                <5> HIDE DEF j
                <5> QED
                    BY <1>1, <5>1, <4>1, <4>3
            <4>4. ASSUME j > 1 PROVE h[i - 1] = g[j - 1]
                <5>1. j - 1 \in 1..Len(g) /\ i - 1 = Len(f) + (j - 1)
                    BY <1>1, <4>1, <4>4
                <5> HIDE DEF j
                <5> QED
                    BY <1>1, <5>1
            <4> QED
                BY <1>1, <4>1, <4>2, <4>3, <4>4
        <3>2. j = 1 => h[i].op \notin Linked \cup {"alloc_sme", "write_sme"}
            <4> SUFFICES ASSUME j = 1 PROVE h[i].op \notin Linked \cup {"alloc_sme", "write_sme"}
                OBVIOUS
            <4>1. g # <<>> /\ Head(g) = g[1]
                BY <1>1, <3>1
            <4> QED
                BY <3>1, <4>1
        <3>3. j \in Nat \ {0}
            BY <1>1, <3>1
        <3>4. j > 1 => /\ g[j].op \notin {"alloc_sme", "write_sme"}
                       /\ g[j].op \in Linked => <<g[j - 1].op, g[j].op>> \in Link
                       /\ g[j].op = "tc" => g[j - 1].of = g[j].of
            BY <3>1 DEF Chained
        <3>5. g[j].op \in Opening => j < Len(g) /\ <<g[j].op, g[j + 1].op>> \in Link
            BY <3>1 DEF Chained
        <3>6. j = 1 \/ j > 1
            BY <3>3
        <3> HIDE DEF j
        <3> QED
            BY <3>1, <3>2, <3>4, <3>5, <3>6 DEF Linked
    <2> QED
        BY <1>1, <2>1, <2>2
<1> QED
    BY <1>1, <1>2 DEF Chained, h

\* The steps that are put in front of a list.
LEMMA ForAllOne ==
    ASSUME NEW X, NEW s \in Seq(X), NEW op, 
           op \notin Opening \cup Linked \cup {"alloc_sme"}
    PROVE  /\ ForAll(<<op>>, s) \in Seq([op : {op}, of : Elements(s)])
           /\ Chained(ForAll(<<op>>, s))
           /\ ForAll(<<op>>, s) # <<>> => Head(ForAll(<<op>>, s)).op = op
<1> DEFINE f == ForAll(<<op>>, s)
<1>1. f = [i \in 1..Len(s) |-> Step(op, s[i])]
    <2>1. f = [i \in 1..(1 * Len(s)) |-> Step(<<op>>[((i - 1) % 1) + 1], s[((i - 1) \div 1) + 1])]
        BY DEF ForAll
    <2>2. \A i \in 1..Len(s) : (i - 1) % 1 = 0 /\ (i - 1) \div 1 = i - 1 /\ ((i - 1) + 1) = i
        OBVIOUS
    <2>3. 1 * Len(s) = Len(s)
        OBVIOUS
    <2> QED
        BY <2>1, <2>2, <2>3
<1>2. Len(s) \in Nat /\ DOMAIN s = 1..Len(s)
    OBVIOUS
<1> HIDE DEF f
<1>3. f \in Seq([op : {op}, of : Elements(s)]) /\ DOMAIN f = 1..Len(s)
    BY <1>1, <1>2 DEF Step, Elements
<1>4. \A i \in DOMAIN f : f[i].op = op
    BY <1>1, <1>3 DEF Step
<1>5. f # <<>> => Head(f) = f[1] /\ 1 \in DOMAIN f
    BY <1>3
<1>6. Chained(f)
    BY <1>4 DEF Chained, Linked, Opening
<1>7. f # <<>> => Head(f).op = op
    BY <1>4, <1>5
<1> QED
    BY <1>3, <1>6, <1>7 DEF f

\* A list over a set is one over any larger set.
LEMMA SeqSubset ==
    ASSUME NEW S, NEW T, S \subseteq T, NEW t \in Seq(S)
    PROVE  t \in Seq(T)
<1>1. Len(t) \in Nat /\ t \in [1..Len(t) -> S]
    OBVIOUS
<1>2. t \in [1..Len(t) -> T]
    BY <1>1
<1> QED
    BY <1>1, <1>2

\* Three steps for each element of a list: each comes behind the one it belongs to.
LEMMA ForAllThree ==
    ASSUME NEW X, NEW s \in Seq(X), NEW a, NEW b, NEW c
    PROVE  \E f : /\ f = ForAll(<<a, b, c>>, s)
                  /\ f \in Seq([op : {a, b, c}, of : Elements(s)])
                  /\ f # <<>> => Head(f).op = a
                  /\ \A i \in DOMAIN f :
                        \/ f[i].op = a /\ i < Len(f) /\ f[i + 1].op = b
                        \/ f[i].op = b /\ i > 1 /\ f[i - 1].op = a
                        \/ f[i].op = c /\ i > 1 /\ f[i - 1].op = b
<1> DEFINE f == ForAll(<<a, b, c>>, s)
           Op(i) == <<a, b, c>>[((i - 1) % 3) + 1]
           Of_(i) == s[((i - 1) \div 3) + 1]
           N == 3 * Len(s)
<1>1. f = [i \in 1..N |-> Step(Op(i), Of_(i))]
    BY DEF ForAll
<1>2. Len(s) \in Nat /\ DOMAIN s = 1..Len(s) /\ N \in Nat
    OBVIOUS
<1>3. ASSUME NEW i \in 1..N
      PROVE  /\ ((i - 1) \div 3) + 1 \in 1..Len(s)
             /\ \/ (i - 1) % 3 = 0 /\ i < N /\ ((i + 1) - 1) % 3 = 1
                \/ (i - 1) % 3 = 1 /\ i > 1 /\ ((i - 1) - 1) % 3 = 0
                \/ (i - 1) % 3 = 2 /\ i > 1 /\ ((i - 1) - 1) % 3 = 1
    BY <1>2
<1> HIDE DEF f, N
<1>4. ASSUME NEW i \in 1..N
      PROVE  /\ f[i].op = Op(i) /\ f[i].of = Of_(i)
             /\ f[i] \in [op : {a, b, c}, of : Elements(s)]
    <2>1. f[i] = Step(Op(i), Of_(i))
        BY <1>1
    <2>2. Of_(i) \in Elements(s)
        BY <1>2, <1>3 DEF Elements
    <2>3. Op(i) \in {a, b, c}
        BY <1>3
    <2> QED
        BY <2>1, <2>2, <2>3 DEF Step
<1>5. f \in Seq([op : {a, b, c}, of : Elements(s)]) /\ DOMAIN f = 1..N /\ Len(f) = N
    BY <1>1, <1>2, <1>4
<1>6. f # <<>> => Head(f).op = a
    <2> SUFFICES ASSUME f # <<>> PROVE Head(f).op = a
        OBVIOUS
    <2>1. 1 \in 1..N /\ Head(f) = f[1]
        BY <1>2, <1>5
    <2>2. Op(1) = a
        OBVIOUS
    <2> QED
        BY <1>4, <2>1, <2>2
<1>7. ASSUME NEW i \in DOMAIN f
      PROVE  \/ f[i].op = a /\ i < Len(f) /\ f[i + 1].op = b
             \/ f[i].op = b /\ i > 1 /\ f[i - 1].op = a
             \/ f[i].op = c /\ i > 1 /\ f[i - 1].op = b
    <2>1. i \in 1..N
        BY <1>5
    <2>2. CASE (i - 1) % 3 = 0 /\ i < N /\ ((i + 1) - 1) % 3 = 1
        <3>0. i < N
            BY <2>2
        <3>1. i + 1 \in 1..N
            BY <1>2, <2>1, <3>0
        <3>2. Op(i) = a /\ Op(i + 1) = b
            BY <2>2
        <3> QED
            BY <1>4, <1>5, <2>1, <2>2, <3>1, <3>2
    <2>3. CASE (i - 1) % 3 = 1 /\ i > 1 /\ ((i - 1) - 1) % 3 = 0
        <3>0. i > 1
            BY <2>3
        <3>1. i - 1 \in 1..N
            BY <1>2, <2>1, <3>0
        <3>2. Op(i) = b /\ Op(i - 1) = a
            BY <2>3
        <3> QED
            BY <1>4, <1>5, <2>1, <2>3, <3>1, <3>2
    <2>4. CASE (i - 1) % 3 = 2 /\ i > 1 /\ ((i - 1) - 1) % 3 = 1
        <3>0. i > 1
            BY <2>4
        <3>1. i - 1 \in 1..N
            BY <1>2, <2>1, <3>0
        <3>2. Op(i) = c /\ Op(i - 1) = b
            BY <2>4
        <3> QED
            BY <1>4, <1>5, <2>1, <2>4, <3>1, <3>2
    <2> QED
        BY <1>3, <2>1, <2>2, <2>3, <2>4
<1> QED
    BY <1>5, <1>6, <1>7 DEF f

\* The steps of interrupts_vm_assign for all interrupts of a VM.
LEMMA IrqSteps ==
    ASSUME NEW X, NEW s \in Seq(X)
    PROVE  /\ ForAll(<<"conflict", "load", "store">>, s)
                \in Seq([op : {"conflict", "load", "store"}, of : Elements(s)])
           /\ Chained(ForAll(<<"conflict", "load", "store">>, s))
           /\ ForAll(<<"conflict", "load", "store">>, s) # <<>> =>
                 Head(ForAll(<<"conflict", "load", "store">>, s)).op = "conflict"
<1> DEFINE f == ForAll(<<"conflict", "load", "store">>, s)
<1> HIDE DEF f
<1>1. /\ f \in Seq([op : {"conflict", "load", "store"}, of : Elements(s)])
      /\ f # <<>> => Head(f).op = "conflict"
      /\ \A i \in DOMAIN f :
            \/ f[i].op = "conflict" /\ i < Len(f) /\ f[i + 1].op = "load"
            \/ f[i].op = "load" /\ i > 1 /\ f[i - 1].op = "conflict"
            \/ f[i].op = "store" /\ i > 1 /\ f[i - 1].op = "load"
    <2>1. PICK g : /\ g = ForAll(<<"conflict", "load", "store">>, s)
                   /\ g \in Seq([op : {"conflict", "load", "store"}, of : Elements(s)])
                   /\ g # <<>> => Head(g).op = "conflict"
                   /\ \A i \in DOMAIN g :
                         \/ g[i].op = "conflict" /\ i < Len(g) /\ g[i + 1].op = "load"
                         \/ g[i].op = "load" /\ i > 1 /\ g[i - 1].op = "conflict"
                         \/ g[i].op = "store" /\ i > 1 /\ g[i - 1].op = "load"
        BY ForAllThree
    <2> QED
        BY <2>1 DEF f
<1>2. Chained(f)
    BY <1>1 DEF Chained, Opening, Linked, Link
<1> QED
    BY <1>1, <1>2 DEF f

\* The steps of iommu_vm_arch_add for several groups.
LEMMA ArmSteps ==
    ASSUME NEW X, NEW s \in Seq(X)
    PROVE  /\ ForAll(ArmAdd, s) \in Seq([op : ArmOps, of : Elements(s)])
           /\ Chained(ForAll(ArmAdd, s))
           /\ ForAll(ArmAdd, s) # <<>> => Head(ForAll(ArmAdd, s)).op = "alloc_ctxbnk"
<1> DEFINE f == ForAll(ArmAdd, s)
<1> HIDE DEF f
<1>1. /\ f \in Seq([op : {"alloc_ctxbnk", "write_ctxbnk", "compatible"}, of : Elements(s)])
      /\ f # <<>> => Head(f).op = "alloc_ctxbnk"
      /\ \A i \in DOMAIN f :
            \/ f[i].op = "alloc_ctxbnk" /\ i < Len(f) /\ f[i + 1].op = "write_ctxbnk"
            \/ f[i].op = "write_ctxbnk" /\ i > 1 /\ f[i - 1].op = "alloc_ctxbnk"
            \/ f[i].op = "compatible" /\ i > 1 /\ f[i - 1].op = "write_ctxbnk"
    BY ForAllThree DEF f, ArmAdd
<1>2. f \in Seq([op : ArmOps, of : Elements(s)])
    <2>1. [op : {"alloc_ctxbnk", "write_ctxbnk", "compatible"}, of : Elements(s)]
             \subseteq [op : ArmOps, of : Elements(s)]
        BY DEF ArmOps
    <2> DEFINE S == [op : {"alloc_ctxbnk", "write_ctxbnk", "compatible"}, of : Elements(s)]
               T == [op : ArmOps, of : Elements(s)]
    <2>2. f \in Seq(S) /\ S \subseteq T
        BY <1>1, <2>1
    <2> HIDE DEF S, T
    <2>3. f \in Seq(T)
        BY <2>2, SeqSubset
    <2> QED
        BY <2>3 DEF T
<1>3. Chained(f)
    BY <1>1 DEF Chained, Opening, Linked, Link
<1> QED
    BY <1>1, <1>2, <1>3 DEF f

-----------------------------------------------------------------------------
(* What a step does to the lists, and to where the masters are. *)

\* The first step of a list is one that the configuration asks for.
LEMMA HeadAllowed ==
    ASSUME Shapes, NEW vm \in VMs, NEW o, At(vm, o)
    PROVE  /\ Head(todo[vm]) \in Allowed(vm)
           /\ o \in {"conflict", "load", "store"} => Of(vm) \in Elements(config.irqs[vm])
           /\ o = "add" => Of(vm) \in Elements(config.devs[vm])
           /\ o \in RiscvOps => Of(vm) \in Elements(config.devs[vm]) /\ Of(vm) \in Devices
           /\ o \in ArmOps => Of(vm) \in Wanted(vm)
<1>1. todo[vm] \in Seq(Allowed(vm)) /\ todo[vm] # <<>> /\ Head(todo[vm]).op = o
    BY DEF Shapes, Orderly, At
<1>2. Head(todo[vm]) \in Allowed(vm)
    BY <1>1
<1> QED
    BY <1>1, <1>2 DEF Allowed, Of, Step, RiscvOps, ArmOps

\* The other masters are where they were.
Unmoved(vm) ==
    \A v \in VMs \ {vm} : Of(v)' = Of(v) /\ \A op : At(v, op)' <=> At(v, op)

\* A step that is taken and brings no others.
LEMMA Pops ==
    ASSUME Shapes, NEW vm \in VMs, NEW o, At(vm, o), Searches(vm, <<>>)
    PROVE  /\ DOMAIN todo' = VMs
           /\ \A v \in VMs : Orderly(v)'
           /\ Unmoved(vm)
           /\ \A op : At(vm, op)' => /\ op \notin {"alloc_sme", "write_sme"}
                                     /\ op \in Linked => <<o, op>> \in Link
                                     /\ op = "tc" => Of(vm)' = Of(vm)
<1>1. /\ config' = config /\ stopped' = stopped
      /\ DOMAIN todo' = VMs
      /\ \A v \in VMs \ {vm} : todo'[v] = todo[v]
      /\ todo'[vm] = <<>> \o Tail(todo[vm])
    BY DEF Searches, Shapes
<1>2. /\ todo[vm] \in Seq(Allowed(vm)) /\ Chained(todo[vm]) /\ todo[vm] # <<>>
      /\ Head(todo[vm]).op = o
    BY DEF Shapes, Orderly, At
<1>3. /\ Tail(todo[vm]) \in Seq(Allowed(vm))
      /\ Chained(Tail(todo[vm]))
      /\ Tail(todo[vm]) # <<>> =>
            /\ Head(Tail(todo[vm])).op \notin {"alloc_sme", "write_sme"}
            /\ Head(Tail(todo[vm])).op \in Linked => <<o, Head(Tail(todo[vm])).op>> \in Link
            /\ Head(Tail(todo[vm])).op = "tc" => Head(todo[vm]).of = Head(Tail(todo[vm])).of
    BY <1>2, PopChained
<1>4. todo'[vm] = Tail(todo[vm])
    BY <1>1, <1>3
<1>5. ASSUME NEW v \in VMs PROVE Orderly(v)'
    <2>1. Allowed(v)' = Allowed(v)
        BY <1>1 DEF Allowed, Wanted
    <2>2. Orderly(v)
        BY DEF Shapes
    <2>3. todo'[v] \in Seq(Allowed(v)) /\ Chained(todo'[v])
        BY <1>1, <1>3, <1>4, <2>2 DEF Orderly
    <2>4. Chained(todo[v])' <=> Chained(todo'[v])
        BY DEF Chained, Linked, Link
    <2> QED
        BY <2>1, <2>3, <2>4 DEF Orderly
<1>6. Unmoved(vm)
    BY <1>1 DEF Unmoved, At, Of
<1>7. ASSUME NEW op, At(vm, op)'
      PROVE  /\ op \notin {"alloc_sme", "write_sme"}
             /\ op \in Linked => <<o, op>> \in Link
             /\ op = "tc" => Of(vm)' = Of(vm)
    <2>1. Tail(todo[vm]) # <<>> /\ Head(Tail(todo[vm])).op = op
        BY <1>4, <1>7 DEF At
    <2>2. Of(vm)' = Head(Tail(todo[vm])).of
        BY <1>4 DEF Of
    <2> QED
        BY <1>3, <2>1, <2>2 DEF Of
<1> QED
    BY <1>1, <1>5, <1>6, <1>7

\* A step that brings others, and on which none relies.
LEMMA Pushes ==
    ASSUME Shapes, NEW vm \in VMs, NEW o, At(vm, o), NEW first, Searches(vm, first),
           first \in Seq(Allowed(vm)), Chained(first), first # <<>>,
           \A op : <<o, op>> \notin Link
    PROVE  /\ DOMAIN todo' = VMs
           /\ \A v \in VMs : Orderly(v)'
           /\ Unmoved(vm)
           /\ \A op : At(vm, op)' => op = Head(first).op
           /\ Of(vm)' = Head(first).of
<1>1. /\ config' = config /\ stopped' = stopped
      /\ DOMAIN todo' = VMs
      /\ \A v \in VMs \ {vm} : todo'[v] = todo[v]
      /\ todo'[vm] = first \o Tail(todo[vm])
    BY DEF Searches, Shapes
<1>2. /\ todo[vm] \in Seq(Allowed(vm)) /\ Chained(todo[vm]) /\ todo[vm] # <<>>
      /\ Head(todo[vm]).op = o
    BY DEF Shapes, Orderly, At
<1>3. /\ Tail(todo[vm]) \in Seq(Allowed(vm))
      /\ Chained(Tail(todo[vm]))
      /\ Tail(todo[vm]) # <<>> =>
            /\ Head(Tail(todo[vm])).op \notin {"alloc_sme", "write_sme"}
            /\ Head(Tail(todo[vm])).op \in Linked => <<o, Head(Tail(todo[vm])).op>> \in Link
    BY <1>2, PopChained
<1>4. first \o Tail(todo[vm]) \in Seq(Allowed(vm)) /\ Chained(first \o Tail(todo[vm]))
    <2>1. Tail(todo[vm]) # <<>> =>
             Head(Tail(todo[vm])).op \notin Linked \cup {"alloc_sme", "write_sme"}
        BY <1>3
    <2> QED
        BY <1>3, <2>1, ConcatChained
<1>5. ASSUME NEW v \in VMs PROVE Orderly(v)'
    <2>1. Allowed(v)' = Allowed(v)
        BY <1>1 DEF Allowed, Wanted
    <2>2. Orderly(v)
        BY DEF Shapes
    <2>3. todo'[v] \in Seq(Allowed(v)) /\ Chained(todo'[v])
        BY <1>1, <1>4, <2>2 DEF Orderly
    <2>4. Chained(todo[v])' <=> Chained(todo'[v])
        BY DEF Chained, Linked, Link
    <2> QED
        BY <2>1, <2>3, <2>4 DEF Orderly
<1>6. Unmoved(vm)
    BY <1>1 DEF Unmoved, At, Of
<1>7. todo'[vm] # <<>> /\ Head(todo'[vm]) = Head(first)
    BY <1>1, <1>3
<1>8. Of(vm)' = Head(first).of /\ \A op : At(vm, op)' => op = Head(first).op
    BY <1>7 DEF At, Of
<1> QED
    BY <1>1, <1>5, <1>6, <1>8

\* A master that ends in ERROR or in a fault.
LEMMA Stops ==
    ASSUME Shapes, NEW vm \in VMs, Stop(vm)
    PROVE  /\ DOMAIN todo' = VMs
           /\ \A v \in VMs : Orderly(v)'
           /\ Unmoved(vm)
           /\ \A op : ~At(vm, op)'
<1>1. config' = config /\ todo' = todo /\ stopped' = stopped \cup {vm}
    BY DEF Stop
<1>2. ASSUME NEW v \in VMs PROVE Orderly(v)'
    <2>1. Allowed(v)' = Allowed(v) /\ (Chained(todo[v])' <=> Chained(todo[v]))
        BY <1>1 DEF Allowed, Wanted, Chained, Linked, Link
    <2> QED
        BY <1>1, <2>1 DEF Orderly, Shapes
<1> QED
    BY <1>1, <1>2 DEF Shapes, Unmoved, At, Of

\* The steps of a device or a group that cannot be added are left out.
LEMMA Cuts ==
    ASSUME Shapes, NEW vm \in VMs, config' = config, stopped' = stopped,
           todo' = [todo EXCEPT ![vm] = <<>>]
    PROVE  /\ DOMAIN todo' = VMs
           /\ \A v \in VMs : Orderly(v)'
           /\ Unmoved(vm)
           /\ \A op : ~At(vm, op)'
<1>1. /\ DOMAIN todo' = VMs
      /\ \A v \in VMs \ {vm} : todo'[v] = todo[v]
      /\ todo'[vm] = <<>>
    BY DEF Shapes
<1>2. ASSUME NEW v \in VMs PROVE Orderly(v)'
    <2>1. Allowed(v)' = Allowed(v)
        BY DEF Allowed, Wanted
    <2>2. CASE v = vm
        <3>1. todo'[v] \in Seq(Allowed(v)) /\ DOMAIN todo'[v] = {}
            BY <1>1, <2>2
        <3> QED
            BY <2>1, <3>1 DEF Orderly, Chained
    <2>3. CASE v # vm
        <3>1. Chained(todo[v])' <=> Chained(todo[v])
            BY <1>1, <2>3 DEF Chained, Linked, Link
        <3> QED
            BY <1>1, <2>1, <2>3, <3>1 DEF Orderly, Shapes
    <2> QED
        BY <2>2, <2>3
<1> QED
    BY <1>1, <1>2 DEF Unmoved, At, Of

\* The head of the rest of a list.
LEMMA SecondOf ==
    ASSUME NEW S, NEW t \in Seq(S), 1 < Len(t)
    PROVE  Tail(t) # <<>> /\ Head(Tail(t)) = t[2]
<1>1. /\ Len(Tail(t)) = Len(t) - 1 /\ Len(t) \in Nat /\ Tail(t) \in Seq(S)
      /\ \A i \in 1..(Len(t) - 1) : Tail(t)[i] = t[i + 1]
    OBVIOUS
<1>2. 1 \in 1..(Len(t) - 1) /\ 1 + 1 = 2
    BY <1>1
<1>3. Tail(t)[1] = t[2]
    BY <1>1, <1>2
<1>4. Tail(t) \in Seq(S) /\ Len(Tail(t)) > 0
    BY <1>1
<1> QED
    BY <1>3, <1>4, FirstOf

\* A VM that has a bank goes on after the two steps that get one.
LEMMA Skips ==
    ASSUME Shapes, NEW vm \in VMs, At(vm, "alloc_ctxbnk"), config' = config, stopped' = stopped,
           todo' = [todo EXCEPT ![vm] = Tail(Tail(@))]
    PROVE  /\ DOMAIN todo' = VMs
           /\ \A v \in VMs : Orderly(v)'
           /\ Unmoved(vm)
           /\ \A op : At(vm, op)' => /\ op \notin {"alloc_sme", "write_sme"}
                                     /\ op \in Linked => <<"write_ctxbnk", op>> \in Link
                                     /\ op # "tc"
<1> DEFINE t == todo[vm]
<1>1. /\ DOMAIN todo' = VMs
      /\ \A v \in VMs \ {vm} : todo'[v] = todo[v]
      /\ todo'[vm] = Tail(Tail(t))
    BY DEF Shapes
<1>2. t \in Seq(Allowed(vm)) /\ Chained(t) /\ t # <<>> /\ Head(t).op = "alloc_ctxbnk"
    BY DEF Shapes, Orderly, At
<1> HIDE DEF t
<1>3. 1 \in DOMAIN t /\ Head(t) = t[1] /\ Len(t) \in Nat
    BY <1>2
<1>4. 1 < Len(t) /\ t[1 + 1].op = "write_ctxbnk"
    <2>1. 1 < Len(t) /\ <<"alloc_ctxbnk", t[1 + 1].op>> \in Link
        BY <1>2, <1>3 DEF Chained, Opening
    <2>2. \A op : <<"alloc_ctxbnk", op>> \in Link => op = "write_ctxbnk"
        BY DEF Link
    <2> QED
        BY <2>1, <2>2
<1>5. Tail(t) # <<>> /\ Head(Tail(t)) = t[2] /\ t[2].op = "write_ctxbnk"
    <2>1. 1 + 1 = 2 /\ Len(Tail(t)) = Len(t) - 1 /\ Len(t) - 1 > 0
        BY <1>2, <1>3, <1>4
    <2>2. Tail(t) # <<>> /\ Head(Tail(t)) = t[2]
        BY <1>2, <1>3, <1>4, SecondOf
    <2> QED
        BY <1>4, <2>1, <2>2
<1>6. Tail(t) \in Seq(Allowed(vm)) /\ Chained(Tail(t))
    BY <1>2, PopChained
<1>7. /\ Tail(Tail(t)) \in Seq(Allowed(vm))
      /\ Chained(Tail(Tail(t)))
      /\ Tail(Tail(t)) # <<>> =>
            /\ Head(Tail(Tail(t))).op \notin {"alloc_sme", "write_sme"}
            /\ Head(Tail(Tail(t))).op \in Linked =>
                  <<Head(Tail(t)).op, Head(Tail(Tail(t))).op>> \in Link
    BY <1>5, <1>6, PopChained
<1>8. ASSUME NEW v \in VMs PROVE Orderly(v)'
    <2>1. Allowed(v)' = Allowed(v)
        BY DEF Allowed, Wanted
    <2>2. todo'[v] \in Seq(Allowed(v)) /\ Chained(todo'[v])
        BY <1>1, <1>7 DEF Orderly, Shapes
    <2>3. Chained(todo[v])' <=> Chained(todo'[v])
        BY DEF Chained, Linked, Link
    <2> QED
        BY <2>1, <2>2, <2>3 DEF Orderly
<1>9. ASSUME NEW op, At(vm, op)'
      PROVE  /\ op \notin {"alloc_sme", "write_sme"}
             /\ op \in Linked => <<"write_ctxbnk", op>> \in Link
             /\ op # "tc"
    <2>1. Tail(Tail(t)) # <<>> /\ Head(Tail(Tail(t))).op = op
        BY <1>1, <1>9 DEF At
    <2>2. op \in Linked => <<"write_ctxbnk", op>> \in Link
        BY <1>5, <1>7, <2>1
    <2>3. <<"write_ctxbnk", "tc">> \notin Link /\ "tc" \in Linked
        BY DEF Link, Linked
    <2> QED
        BY <1>7, <2>1, <2>2, <2>3
<1>10. Unmoved(vm)
    BY <1>1 DEF Unmoved, At, Of
<1> QED
    BY <1>1, <1>8, <1>9, <1>10

-----------------------------------------------------------------------------
(* The initial states, and that Shapes is kept. *)

\* Before vm_init_dev nobody has anything.
LEMMA Initial == Init => DeviceInv
<1> SUFFICES ASSUME Init PROVE DeviceInv
    OBVIOUS
<1> USE DEF Init, iommu_arch_init, smmu_init
<1>1. ASSUME NEW vm \in VMs
      PROVE  Orderly(vm) /\ \A op : At(vm, op) => op \in {"conflict", "io_vm_init"}
    <2>1. config.irqs[vm] \in Seq(Nat) /\ config.devs[vm] \in Seq(SUBSET Bits)
        BY VmDevicesAssumption
    <2> DEFINE f == ForAll(<<"conflict", "load", "store">>, config.irqs[vm])
               g == ForAll(<<"add">>, config.devs[vm])
               i == <<Step("io_vm_init", {})>>
               S == Allowed(vm)
    <2>2. f \in Seq([op : {"conflict", "load", "store"}, of : Elements(config.irqs[vm])])
          /\ Chained(f) /\ (f # <<>> => Head(f).op = "conflict")
        BY <2>1, IrqSteps
    <2>3. /\ g \in Seq([op : {"add"}, of : Elements(config.devs[vm])])
          /\ Chained(g)
          /\ g # <<>> => Head(g).op = "add"
        BY <2>1, ForAllOne DEF Linked, Opening
    <2>4. i \in Seq(S) /\ Chained(i) /\ i # <<>> /\ Head(i).op = "io_vm_init"
        <3>1. Step("io_vm_init", {}) \in S /\ Step("io_vm_init", {}).op = "io_vm_init"
            BY DEF Allowed, Step
        <3>2. i \in Seq(S) /\ i # <<>> /\ Head(i) = Step("io_vm_init", {})
              /\ DOMAIN i = {1} /\ i[1] = Step("io_vm_init", {})
            BY <3>1
        <3> QED
            BY <3>1, <3>2 DEF Chained, Opening
    <2> HIDE DEF f, g, i
    <2>5. f \in Seq(S)
        <3> DEFINE T == [op : {"conflict", "load", "store"}, of : Elements(config.irqs[vm])]
        <3>1. T \subseteq S /\ f \in Seq(T)
            BY <2>2 DEF Allowed
        <3> HIDE DEF T, S
        <3> QED
            BY <3>1, SeqSubset
    <2>6. g \in Seq(S)
        <3> DEFINE T == [op : {"add"}, of : Elements(config.devs[vm])]
        <3>1. T \subseteq S /\ g \in Seq(T)
            BY <2>3 DEF Allowed
        <3> HIDE DEF T, S
        <3> QED
            BY <3>1, SeqSubset
    <2> HIDE DEF S
    <2>7. f \o i \in Seq(S) /\ Chained(f \o i)
        <3>1. Head(i).op \notin Linked \cup {"alloc_sme", "write_sme"}
            BY <2>4 DEF Linked
        <3> QED
            BY <2>2, <2>4, <2>5, <3>1, ConcatChained
    <2>8. (f \o i) \o g \in Seq(S) /\ Chained((f \o i) \o g)
        <3>1. g # <<>> => Head(g).op \notin Linked \cup {"alloc_sme", "write_sme"}
            BY <2>3 DEF Linked
        <3> DEFINE h == f \o i
        <3> HIDE DEF h
        <3>2. h \in Seq(S) /\ Chained(h)
            BY <2>7 DEF h
        <3>3. h \o g \in Seq(S) /\ Chained(h \o g)
            BY <2>3, <2>6, <3>1, <3>2, ConcatChained
        <3> QED
            BY <3>3 DEF h
    <2>9. todo[vm] = (f \o i) \o g
        BY DEF vm_init_dev, f, g, i
    <2>10. Head((f \o i) \o g).op \in {"conflict", "io_vm_init"}
        <3>1. CASE f = <<>>
            <4>1. Head((f \o i) \o g) = Head(i)
                BY <2>4, <2>6, <3>1
            <4> QED
                BY <2>4, <4>1
        <3>2. CASE f # <<>>
            <4>1. Head((f \o i) \o g) = Head(f)
                BY <2>4, <2>5, <2>6, <3>2
            <4> QED
                BY <2>2, <3>2, <4>1
        <3> QED
            BY <3>1, <3>2
    <2> QED
        BY <2>8, <2>9, <2>10 DEF Orderly, S, At
<1>2. Shapes
    <2>1. config \in Configs /\ config.smes \in Nat /\ config.banks \in Nat
        BY VmDevicesAssumption
    <2>2. TypeOK
        BY <2>1, IommuAssumption DEF TypeOK, Invalid
    <2>3. /\ DOMAIN todo = VMs /\ DOMAIN reg = VMs /\ DOMAIN cache = Devices
          /\ mistaken \in BOOLEAN /\ sme_num \in Nat /\ ctx_num \in Nat
          /\ DOMAIN cntxt = Banks /\ DOMAIN s2cr = Smes
        BY <2>1
    <2>4. smr \in [Smes -> [valid : BOOLEAN, mask : SUBSET Bits, id : SUBSET Bits]]
        <3>1. [valid |-> FALSE, mask |-> {}, id |-> {}]
                 \in [valid : BOOLEAN, mask : SUBSET Bits, id : SUBSET Bits]
            OBVIOUS
        <3>2. smr = [e \in Smes |-> [valid |-> FALSE, mask |-> {}, id |-> {}]]
            OBVIOUS
        <3> QED
            BY ONLY <3>1, <3>2
    <2> QED
        BY ONLY <1>1, <2>2, <2>3, <2>4 DEF Shapes
<1>3. Contexts
    BY <1>1 DEF Contexts, Invalid
<1>4. BankInv
    BY <1>1 DEF BankInv, Bound
<1>5. EntryInv
    BY <1>1 DEF EntryInv, Holds
<1> QED
    BY <1>2, <1>3, <1>4, <1>5 DEF DeviceInv

\* What the masters hold in their registers.
Locals ==
    \A vm \in VMs :
        /\ At(vm, "store") => Reserved \subseteq reg[vm]
        /\ At(vm, "inval") \/ At(vm, "iofence") \/ At(vm, "cqt") => reg[vm] \in 0..(CQ_NUM - 1)

\* Only the master that takes the step changes its local variable.
LEMMA LocalsKept ==
    ASSUME Shapes, NEW vm \in VMs, Unmoved(vm), \A v \in VMs \ {vm} : reg'[v] = reg[v],
           At(vm, "store")' => Reserved \subseteq reg'[vm],
           At(vm, "inval")' \/ At(vm, "iofence")' \/ At(vm, "cqt")' =>
              reg'[vm] \in 0..(CQ_NUM - 1)
    PROVE  Locals'
<1>1. \A v \in VMs :
          /\ At(v, "store") => Reserved \subseteq reg[v]
          /\ At(v, "inval") \/ At(v, "iofence") \/ At(v, "cqt") => reg[v] \in 0..(CQ_NUM - 1)
    BY DEF Shapes
<1>2. ASSUME NEW v \in VMs
      PROVE  /\ At(v, "store")' => Reserved \subseteq reg'[v]
             /\ At(v, "inval")' \/ At(v, "iofence")' \/ At(v, "cqt")' =>
                   reg'[v] \in 0..(CQ_NUM - 1)
    <2>1. CASE v = vm
        BY <2>1
    <2>2. CASE v # vm
        BY <1>1, <2>2 DEF Unmoved
    <2> QED
        BY <2>1, <2>2
<1> QED
    BY <1>2 DEF Locals

\* interrupts_vm_assign keeps Shapes: what a master writes back has the reserved interrupts.
LEMMA InterruptShapes ==
    ASSUME Shapes, NEW vm \in VMs,
           AssignInterrupt(vm) \/ InterruptConflict(vm) \/ LoadWord(vm) \/ StoreWord(vm)
    PROVE  Shapes'
<1> USE DEF irqVars, iommuVars, smmuVars
<1>1. CASE AssignInterrupt(vm)
    <2> USE <1>1 DEF AssignInterrupt
    <2>1. Searches(vm, <<>>)
        BY DEF Done
    <2>2. /\ DOMAIN todo' = VMs /\ \A v \in VMs : Orderly(v)'
          /\ Unmoved(vm)
          /\ \A op : At(vm, op)' => (op \in Linked => <<"conflict", op>> \in Link)
        BY <2>1, Pops
    <2>3. Locals'
        BY <2>2, LocalsKept DEF Linked, Link
    <2> QED
        BY <2>1, <2>2, <2>3 DEF Shapes, TypeOK, Locals, Done, Searches, Smes, Banks
<1>2. CASE InterruptConflict(vm)
    <2> USE <1>2 DEF InterruptConflict, Stop
    <2>1. /\ DOMAIN todo' = VMs /\ \A v \in VMs : Orderly(v)'
          /\ Unmoved(vm) /\ \A op : ~At(vm, op)'
        BY Stops
    <2>2. Locals'
        BY <2>1, LocalsKept
    <2> QED
        BY <2>1, <2>2 DEF Shapes, TypeOK, Locals, Smes, Banks
<1>3. CASE LoadWord(vm)
    <2> USE <1>3 DEF LoadWord
    <2>1. Searches(vm, <<>>)
        BY DEF Done
    <2>2. /\ DOMAIN todo' = VMs /\ \A v \in VMs : Orderly(v)'
          /\ Unmoved(vm)
          /\ \A op : At(vm, op)' => (op \in Linked => <<"load", op>> \in Link)
        BY <2>1, Pops
    <2>3. reg'[vm] = global_interrupt_bitmap /\ Reserved \subseteq global_interrupt_bitmap
        BY DEF Shapes, TypeOK
    <2>4. Locals'
        BY <2>2, <2>3, LocalsKept DEF Linked, Link
    <2> QED
        BY <2>1, <2>2, <2>4 DEF Shapes, TypeOK, Locals, Done, Searches, Smes, Banks
<1>4. CASE StoreWord(vm)
    <2> USE <1>4 DEF StoreWord
    <2>1. Searches(vm, <<>>)
        BY DEF Done
    <2>2. /\ DOMAIN todo' = VMs /\ \A v \in VMs : Orderly(v)'
          /\ Unmoved(vm)
          /\ \A op : At(vm, op)' => (op \in Linked => <<"store", op>> \in Link)
        BY <2>1, Pops
    <2>3. Locals'
        BY <2>2, LocalsKept DEF Linked, Link
    <2>4. Reserved \subseteq reg[vm]
        BY DEF Shapes
    <2> QED
        BY <2>1, <2>2, <2>3, <2>4 DEF Shapes, TypeOK, Locals, Done, Searches, Smes, Banks
<1> QED
    BY <1>1, <1>2, <1>3, <1>4

\* The next slot is one of the ring.
LEMMA NextInRing ==
    ASSUME NEW tail \in 0..(CQ_NUM - 1)
    PROVE  NextOf(tail) \in 0..(CQ_NUM - 1)
<1>1. CQ_NUM \in Nat /\ CQ_NUM > 0 /\ tail + 1 \in Int
    BY IommuAssumption
<1> QED
    BY <1>1 DEF NextOf

\* The commands of a device come behind each other.
LEMMA RiscvSteps ==
    ASSUME NEW vm \in VMs, NEW d, d \in Elements(config.devs[vm]), d \in Devices
    PROVE  /\ AllSteps(RiscvAdd, d) \in Seq(Allowed(vm))
           /\ Chained(AllSteps(RiscvAdd, d))
           /\ AllSteps(RiscvAdd, d) # <<>>
           /\ Head(AllSteps(RiscvAdd, d)).op = "iohgatp"
<1> DEFINE f == AllSteps(RiscvAdd, d)
<1>1. DOMAIN RiscvAdd = 1..10
    BY DEF RiscvAdd
<1>2. f = [i \in 1..10 |-> Step(RiscvAdd[i], d)]
    BY <1>1 DEF AllSteps
<1>3. ASSUME NEW i \in 1..10
      PROVE  f[i] \in Allowed(vm) /\ f[i].op = RiscvAdd[i] /\ f[i].of = d
    <2>1. RiscvAdd[i] \in RiscvOps
        BY DEF RiscvAdd, RiscvOps
    <2> QED
        BY <1>2, <2>1 DEF Step, Allowed
<1> HIDE DEF f
<1>4. f \in Seq(Allowed(vm)) /\ DOMAIN f = 1..10 /\ Len(f) = 10
    BY <1>2, <1>3
<1>5. ASSUME NEW i \in 1..10, i > 1
      PROVE  RiscvAdd[i] \in Linked => <<RiscvAdd[i - 1], RiscvAdd[i]>> \in Link
    <2>1. i \in {2, 3, 4, 5, 6, 7, 8, 9, 10}
        BY <1>5
    <2> QED
        BY <2>1 DEF RiscvAdd, Linked, Link
<1>6. \A i \in 1..10 : RiscvAdd[i] \notin Opening \cup {"alloc_sme", "write_sme"}
    BY DEF RiscvAdd, Opening
<1>7. ASSUME NEW i \in 1..10, i > 1 PROVE i - 1 \in 1..10
    BY <1>7
<1>8. Chained(f)
    BY <1>3, <1>4, <1>5, <1>6, <1>7 DEF Chained
<1> DEFINE S == Allowed(vm)
<1> HIDE DEF S
<1>9. f # <<>> /\ Head(f) = f[1] /\ 1 \in 1..10
    <2>1. f \in Seq(S) /\ Len(f) > 0
        BY <1>4 DEF S
    <2>2. f # <<>> /\ Head(f) = f[1]
        BY <2>1, FirstOf
    <2> QED
        BY <2>2
<1>10. RiscvAdd[1] = "iohgatp"
    BY DEF RiscvAdd
<1> QED
    BY <1>3, <1>4, <1>8, <1>9, <1>10 DEF f

\* So does the start of iommu_arch_vm_add_device of the RISC-V driver.
LEMMA DeviceShapes ==
    ASSUME Shapes, NEW vm \in VMs, SkipDevice(vm) \/ AddDevice(vm) \/ WriteContext(vm)
    PROVE  Shapes'
<1> USE DEF irqVars, iommuVars, smmuVars
<1>1. CASE SkipDevice(vm) \/ (At(vm, "add") /\ Done(vm, <<>>) /\
                              UNCHANGED <<reg, irqVars, ctx_id, iommuVars, smmuVars>>)
    <2> USE <1>1 DEF SkipDevice
    <2>1. Searches(vm, <<>>) /\ At(vm, "add")
        BY DEF Done
    <2>2. /\ DOMAIN todo' = VMs /\ \A v \in VMs : Orderly(v)'
          /\ Unmoved(vm)
          /\ \A op : At(vm, op)' => (op \in Linked => <<"add", op>> \in Link)
        BY <2>1, Pops
    <2>3. Locals'
        BY <2>2, LocalsKept DEF Linked, Link
    <2> QED
        BY <2>1, <2>2, <2>3 DEF Shapes, TypeOK, Locals, Done, Searches, Smes, Banks
<1>2. CASE /\ At(vm, "add") /\ Of(vm) \in Devices /\ Done(vm, AllSteps(RiscvAdd, Of(vm)))
           /\ UNCHANGED <<reg, irqVars, ctx_id, iommuVars, smmuVars>>
    <2>1. Searches(vm, AllSteps(RiscvAdd, Of(vm))) /\ Of(vm) \in Elements(config.devs[vm])
        BY <1>2, HeadAllowed DEF Done
    <2>2. \A op : <<"add", op>> \notin Link
        BY DEF Link
    <2> DEFINE first == AllSteps(RiscvAdd, Of(vm))
    <2>3. /\ first \in Seq(Allowed(vm)) /\ Chained(first) /\ first # <<>>
          /\ Head(first).op = "iohgatp"
        BY <1>2, <2>1, RiscvSteps
    <2> HIDE DEF first
    <2>4. Searches(vm, first) /\ At(vm, "add")
        BY <1>2, <2>1 DEF first
    <2>5. /\ DOMAIN todo' = VMs /\ \A v \in VMs : Orderly(v)'
          /\ Unmoved(vm)
          /\ \A op : At(vm, op)' => op = "iohgatp"
        BY <2>2, <2>3, <2>4, Pushes
    <2>6. Locals'
        BY <1>2, <2>5, LocalsKept
    <2> QED
        BY <1>2, <2>5, <2>6 DEF Shapes, TypeOK, Locals, Done, Searches, Smes, Banks
<1>3. CASE At(vm, "add") /\ Stop(vm) /\ UNCHANGED mistaken
    <2> USE <1>3 DEF Stop
    <2>1. /\ DOMAIN todo' = VMs /\ \A v \in VMs : Orderly(v)'
          /\ Unmoved(vm) /\ \A op : ~At(vm, op)'
        BY Stops
    <2>2. Locals'
        BY <2>1, LocalsKept
    <2> QED
        BY <2>1, <2>2 DEF Shapes, TypeOK, Locals, Smes, Banks
<1>4. CASE WriteContext(vm)
    <2>1. PICK o \in {"iohgatp", "tc"} :
             /\ At(vm, o) /\ Searches(vm, <<>>) /\ UNCHANGED mistaken
             /\ UNCHANGED <<irqVars, ctx_id, smmuVars, reg>>
             /\ UNCHANGED <<present, cache, cq, cqh, cqt, cqon>>
             /\ \/ ddt' = [ddt EXCEPT ![Of(vm)].root = vm]
                \/ ddt' = [ddt EXCEPT ![Of(vm)].v = TRUE]
        BY <1>4 DEF WriteContext, DriverStep, Done, WriteIohgatp, WriteTc
    <2>2. /\ DOMAIN todo' = VMs /\ \A v \in VMs : Orderly(v)'
          /\ Unmoved(vm)
          /\ \A op : At(vm, op)' => (op \in Linked => <<o, op>> \in Link)
        BY <2>1, Pops
    <2>3. Locals'
        BY <2>1, <2>2, LocalsKept DEF Linked, Link
    <2>4. ddt' \in [Devices -> [v : BOOLEAN, root : VMs \cup {None}]]
        <3> DEFINE C == [v : BOOLEAN, root : VMs \cup {None}]
        <3>1. ddt \in [Devices -> C]
            BY DEF Shapes, TypeOK
        <3>2. \A dc \in C : [dc EXCEPT !.root = vm] \in C /\ [dc EXCEPT !.v = TRUE] \in C
            OBVIOUS
        <3>3. \/ ddt' = [ddt EXCEPT ![Of(vm)] = [ddt[Of(vm)] EXCEPT !.root = vm]]
              \/ ddt' = [ddt EXCEPT ![Of(vm)] = [ddt[Of(vm)] EXCEPT !.v = TRUE]]
            BY <2>1
        <3>4. Of(vm) \in Devices
            BY <2>1, HeadAllowed DEF RiscvOps
        <3> HIDE DEF C
        <3>5. ddt' \in [Devices -> C]
            BY <3>1, <3>2, <3>3, <3>4
        <3> QED
            BY <3>5 DEF C
    <2> QED
        BY <2>1, <2>2, <2>3, <2>4 DEF Shapes, TypeOK, Locals, Searches, Smes, Banks
<1> QED
    BY <1>1, <1>2, <1>3, <1>4 DEF AddDevice

\* So do the commands of a device.
LEMMA RingShapes ==
    ASSUME Shapes, NEW vm \in VMs, ReadTail(vm) \/ SubmitCmd(vm) \/ WaitForHead(vm)
    PROVE  Shapes'
<1> USE DEF irqVars, iommuVars, smmuVars
<1>1. CASE ReadTail(vm)
    <2>1. /\ At(vm, "tail") /\ Searches(vm, <<>>) /\ UNCHANGED mistaken
          /\ UNCHANGED <<irqVars, ctx_id, smmuVars, iommuVars>>
          /\ reg' = [reg EXCEPT ![vm] = cqt]
        BY <1>1 DEF ReadTail, DriverStep, Done
    <2>2. /\ DOMAIN todo' = VMs /\ \A v \in VMs : Orderly(v)'
          /\ Unmoved(vm)
          /\ \A op : At(vm, op)' => (op \in Linked => <<"tail", op>> \in Link)
        BY <2>1, Pops
    <2>3. reg'[vm] \in 0..(CQ_NUM - 1)
        BY <2>1 DEF Shapes, TypeOK
    <2>4. Locals'
        BY <2>1, <2>2, <2>3, LocalsKept DEF Linked, Link
    <2> QED
        BY <2>1, <2>2, <2>4 DEF Shapes, TypeOK, Locals, Searches, Smes, Banks
<1>2. CASE SubmitCmd(vm)
    <2>1. PICK o \in {"inval", "iofence", "cqt"} :
             /\ At(vm, o) /\ Searches(vm, <<>>) /\ UNCHANGED mistaken
             /\ UNCHANGED <<irqVars, ctx_id, smmuVars, reg>>
             /\ UNCHANGED <<present, ddt, cache, cqh, cqon>>
             /\ cqt' \in {cqt, NextOf(reg[vm])}
        BY <1>2 DEF SubmitCmd, DriverStep, Done, WriteCmd, WriteCqt
    <2>2. /\ DOMAIN todo' = VMs /\ \A v \in VMs : Orderly(v)'
          /\ Unmoved(vm)
          /\ \A op : At(vm, op)' => (op \in Linked => <<o, op>> \in Link)
        BY <2>1, Pops
    <2>3. reg[vm] \in 0..(CQ_NUM - 1)
        BY <2>1 DEF Shapes
    <2>4. Locals'
        BY <2>1, <2>2, <2>3, LocalsKept DEF Linked, Link
    <2>5. cqt' \in 0..(CQ_NUM - 1)
        BY <2>1, <2>3, NextInRing DEF Shapes, TypeOK
    <2> QED
        BY <2>1, <2>2, <2>4, <2>5 DEF Shapes, TypeOK, Locals, Searches, Smes, Banks
<1>3. CASE WaitForHead(vm)
    <2>1. /\ At(vm, "wait") /\ Searches(vm, <<>>) /\ UNCHANGED mistaken
          /\ UNCHANGED <<irqVars, ctx_id, smmuVars, iommuVars>>
          /\ reg' = [reg EXCEPT ![vm] = None]
        BY <1>3 DEF WaitForHead, DriverStep, Done
    <2>2. /\ DOMAIN todo' = VMs /\ \A v \in VMs : Orderly(v)'
          /\ Unmoved(vm)
          /\ \A op : At(vm, op)' => (op \in Linked => <<"wait", op>> \in Link)
        BY <2>1, Pops
    <2>3. Locals'
        BY <2>1, <2>2, LocalsKept DEF Linked, Link
    <2> QED
        BY <2>1, <2>2, <2>3 DEF Shapes, TypeOK, Locals, Searches, Smes, Banks
<1> QED
    BY <1>1, <1>2, <1>3

\* The hardware moves no master.
LEMMA HardwareShapes == ASSUME Shapes, Hardware PROVE Shapes'
<1>1. UNCHANGED <<vmVars, smmuVars, present, ddt, cqt>>
    BY DEF Hardware, Consume, Fetch
<1>2. cqh' \in 0..(CQ_NUM - 1)
    BY NextInRing DEF Hardware, Consume, Fetch, Shapes, TypeOK
<1>3. DOMAIN cache' = Devices
    BY DEF Hardware, Consume, Fetch, Shapes
<1> USE <1>1 DEF vmVars, smmuVars
<1>4. \A v \in VMs : Of(v)' = Of(v) /\ \A op : At(v, op)' <=> At(v, op)
    BY DEF At, Of
<1>5. ASSUME NEW v \in VMs PROVE Orderly(v)'
    <2>1. Allowed(v)' = Allowed(v) /\ (Chained(todo[v])' <=> Chained(todo[v]))
        BY DEF Allowed, Wanted, Chained, Linked, Link
    <2> QED
        BY <2>1 DEF Orderly, Shapes
<1> QED
    BY <1>2, <1>3, <1>4, <1>5 DEF Shapes, TypeOK, Smes, Banks

\* A VM that has been given a device or a group wants its streams.
LEMMA WantedBits ==
    ASSUME Shapes, NEW vm \in VMs, NEW of \in Wanted(vm)
    PROVE  /\ of.mask \in SUBSET Bits /\ of.id \in SUBSET Bits
           /\ of.mask \cup config.gmask[vm] \in SUBSET Bits
           /\ \A s \in Streams : Covers(of.mask \cup config.gmask[vm], of.id, s) =>
                 s \in StreamsOf(vm)
<1>1. config \in Configs
    BY DEF Shapes, TypeOK
<1>2. /\ config.groups[vm] \in Seq([mask : SUBSET Bits, id : SUBSET Bits])
      /\ config.devs[vm] \in Seq(SUBSET Bits)
      /\ config.gmask[vm] \in SUBSET Bits
    BY <1>1, VmDevicesAssumption
<1>3. CASE \E g \in Elements(config.groups[vm]) : of = Group(g)
    <2>1. PICK g \in Elements(config.groups[vm]) : of = Group(g)
        BY <1>3
    <2>2. g \in [mask : SUBSET Bits, id : SUBSET Bits]
        BY <1>2, ElementsOf
    <2> QED
        BY <1>2, <2>1, <2>2 DEF Group, StreamsOf
<1>4. CASE \E d \in Elements(config.devs[vm]) \ {{}} : of = Device(d)
    <2>1. PICK d \in Elements(config.devs[vm]) \ {{}} : of = Device(d)
        BY <1>4
    <2>2. d \in SUBSET Bits
        BY <1>2, ElementsOf
    <2>3. of.mask \cup config.gmask[vm] = config.gmask[vm]
        BY <2>1 DEF Device
    <2> QED
        BY <1>2, <2>1, <2>2, <2>3 DEF Device, StreamsOf
<1> QED
    BY <1>3, <1>4 DEF Wanted

\* What io_vm_init of the SMMU driver has to do for the groups of a VM.
LEMMA GroupSteps ==
    ASSUME Shapes, NEW vm \in VMs
    PROVE  LET s == [i \in DOMAIN config.groups[vm] |-> Group(config.groups[vm][i])] IN
           /\ ForAll(ArmAdd, s) \in Seq(Allowed(vm))
           /\ Chained(ForAll(ArmAdd, s))
           /\ ForAll(ArmAdd, s) # <<>> => Head(ForAll(ArmAdd, s)).op = "alloc_ctxbnk"
<1> DEFINE s == [i \in DOMAIN config.groups[vm] |-> Group(config.groups[vm][i])]
           T == [op : ArmOps, of : Elements(s)]
<1>1. config.groups[vm] \in Seq([mask : SUBSET Bits, id : SUBSET Bits])
    BY VmDevicesAssumption DEF Shapes, TypeOK
<1>2. s \in Seq(Wanted(vm))
    BY <1>1 DEF Wanted, Elements
<1> HIDE DEF s
<1>3. /\ ForAll(ArmAdd, s) \in Seq(T)
      /\ Chained(ForAll(ArmAdd, s))
      /\ ForAll(ArmAdd, s) # <<>> => Head(ForAll(ArmAdd, s)).op = "alloc_ctxbnk"
    BY <1>2, ArmSteps
<1>4. Elements(s) \subseteq Wanted(vm)
    BY <1>2 DEF Elements
<1>5. T \subseteq Allowed(vm)
    BY <1>4 DEF Allowed
<1> HIDE DEF T
<1>6. ForAll(ArmAdd, s) \in Seq(Allowed(vm))
    BY <1>3, <1>5, SeqSubset
<1> QED
    BY <1>3, <1>6 DEF s

\* Two or three steps for one device or group.
LEMMA ShortSteps ==
    ASSUME NEW vm \in VMs, NEW of \in Wanted(vm)
    PROVE  /\ AllSteps(ArmAdd, of) \in Seq(Allowed(vm))
           /\ Chained(AllSteps(ArmAdd, of))
           /\ AllSteps(ArmAdd, of) # <<>>
           /\ Head(AllSteps(ArmAdd, of)).op = "alloc_ctxbnk"
           /\ AllSteps(<<"write_sme", "write_s2c">>, of) \in Seq(Allowed(vm))
           /\ Chained(AllSteps(<<"write_sme", "write_s2c">>, of))
           /\ AllSteps(<<"write_sme", "write_s2c">>, of) # <<>>
           /\ Head(AllSteps(<<"write_sme", "write_s2c">>, of)) = Step("write_sme", of)
           /\ <<Step("alloc_sme", of)>> \in Seq(Allowed(vm))
           /\ Chained(<<Step("alloc_sme", of)>>)
           /\ <<Step("alloc_sme", of)>> # <<>>
           /\ Head(<<Step("alloc_sme", of)>>).op = "alloc_sme"
<1>1. \A op \in ArmOps : Step(op, of) \in Allowed(vm) /\ Step(op, of).op = op /\ Step(op, of).of = of
    BY DEF Step, Allowed
<1>2. AllSteps(ArmAdd, of) = <<Step("alloc_ctxbnk", of), Step("write_ctxbnk", of), Step("compatible", of)>>
    BY DEF AllSteps, ArmAdd
<1>3. AllSteps(<<"write_sme", "write_s2c">>, of) = <<Step("write_sme", of), Step("write_s2c", of)>>
    BY DEF AllSteps
<1>4. ASSUME NEW a, NEW b, NEW c, a = Step("alloc_ctxbnk", of), b = Step("write_ctxbnk", of),
             c = Step("compatible", of)
      PROVE  /\ <<a, b, c>> \in Seq(Allowed(vm)) /\ Chained(<<a, b, c>>) /\ <<a, b, c>> # <<>>
             /\ Head(<<a, b, c>>) = a
    <2>1. a \in Allowed(vm) /\ b \in Allowed(vm) /\ c \in Allowed(vm)
          /\ a.op = "alloc_ctxbnk" /\ b.op = "write_ctxbnk" /\ c.op = "compatible"
        BY <1>1, <1>4 DEF ArmOps
    <2> QED
        BY <2>1 DEF Chained, Opening, Linked, Link
<1>5. ASSUME NEW a, NEW b, a = Step("write_sme", of), b = Step("write_s2c", of)
      PROVE  /\ <<a, b>> \in Seq(Allowed(vm)) /\ Chained(<<a, b>>) /\ <<a, b>> # <<>>
             /\ Head(<<a, b>>) = a
    <2>1. a \in Allowed(vm) /\ b \in Allowed(vm) /\ a.op = "write_sme" /\ b.op = "write_s2c"
        BY <1>1, <1>5 DEF ArmOps
    <2> QED
        BY <2>1 DEF Chained, Opening, Linked, Link
<1>6. ASSUME NEW a, a = Step("alloc_sme", of)
      PROVE  /\ <<a>> \in Seq(Allowed(vm)) /\ Chained(<<a>>) /\ <<a>> # <<>> /\ Head(<<a>>) = a
    <2>1. a \in Allowed(vm) /\ a.op = "alloc_sme"
        BY <1>1, <1>6 DEF ArmOps
    <2> QED
        BY <2>1 DEF Chained, Opening, Linked, Link
<1>7. /\ Step("alloc_ctxbnk", of).op = "alloc_ctxbnk" /\ Step("alloc_sme", of).op = "alloc_sme"
    BY DEF Step
<1>8. /\ AllSteps(ArmAdd, of) \in Seq(Allowed(vm)) /\ Chained(AllSteps(ArmAdd, of))
      /\ AllSteps(ArmAdd, of) # <<>> /\ Head(AllSteps(ArmAdd, of)) = Step("alloc_ctxbnk", of)
    BY <1>2, <1>4
<1>9. /\ AllSteps(<<"write_sme", "write_s2c">>, of) \in Seq(Allowed(vm))
      /\ Chained(AllSteps(<<"write_sme", "write_s2c">>, of))
      /\ AllSteps(<<"write_sme", "write_s2c">>, of) # <<>>
      /\ Head(AllSteps(<<"write_sme", "write_s2c">>, of)) = Step("write_sme", of)
    BY <1>3, <1>5
<1>10. /\ <<Step("alloc_sme", of)>> \in Seq(Allowed(vm))
       /\ Chained(<<Step("alloc_sme", of)>>)
       /\ <<Step("alloc_sme", of)>> # <<>>
       /\ Head(<<Step("alloc_sme", of)>>) = Step("alloc_sme", of)
    BY <1>6
<1> QED
    BY <1>7, <1>8, <1>9, <1>10

\* Where a step may take a master, of the steps that rely on something.
Reaches(vm, A) ==
    \A op : At(vm, op)' => op \in A \/ op \notin Linked \cup {"alloc_sme", "write_sme"}
Moved(vm) == DOMAIN todo' = VMs /\ (\A v \in VMs : Orderly(v)') /\ Unmoved(vm)

\* iommu_vm_arch_add returns false: the master stops, or has nothing to do any more.
LEMMA FailureMoves ==
    ASSUME Shapes, NEW vm \in VMs, AddFails(vm)
    PROVE  /\ Moved(vm) /\ Reaches(vm, {})
           /\ UNCHANGED <<config, mistaken, reg, irqVars, ctx_id, iommuVars, smmuVars>>
           /\ stopped' \in {stopped, stopped \cup {vm}}
<1>1. CASE Stop(vm) /\ UNCHANGED mistaken
    BY <1>1, Stops DEF Moved, Reaches, Stop
<1>2. CASE /\ todo' = [todo EXCEPT ![vm] = <<>>]
           /\ UNCHANGED <<config, stopped, mistaken, reg, irqVars, ctx_id, iommuVars, smmuVars>>
    BY <1>2, Cuts DEF Moved, Reaches
<1> QED
    BY <1>1, <1>2 DEF AddFails

\* A step that is taken and brings no others, as Reaches has it.
LEMMA PopMoves ==
    ASSUME Shapes, NEW vm \in VMs, NEW o, At(vm, o), Searches(vm, <<>>)
    PROVE  Moved(vm) /\ Reaches(vm, {op \in Linked : <<o, op>> \in Link})
<1>1. /\ DOMAIN todo' = VMs
      /\ \A v \in VMs : Orderly(v)'
      /\ Unmoved(vm)
      /\ \A op : At(vm, op)' => /\ op \notin {"alloc_sme", "write_sme"}
                                /\ op \in Linked => <<o, op>> \in Link
    BY Pops
<1> QED
    BY <1>1 DEF Moved, Reaches

\* io_vm_init and io_vm_add_device of the SMMU driver start with the VM's bank.
LEMMA AddMoves ==
    ASSUME Shapes, NEW vm \in VMs, IoVmInit(vm) \/ ArmAddDevice(vm)
    PROVE  Moved(vm) /\ Reaches(vm, {})
<1>1. CASE IoVmInit(vm)
    <2> DEFINE s == [i \in DOMAIN config.groups[vm] |-> Group(config.groups[vm][i])]
               f == ForAll(ArmAdd, s)
    <2>1. At(vm, "io_vm_init") /\ (Searches(vm, <<>>) \/ Searches(vm, f))
        BY <1>1 DEF IoVmInit, Done
    <2>2. f \in Seq(Allowed(vm)) /\ Chained(f) /\ (f # <<>> => Head(f).op = "alloc_ctxbnk")
        BY GroupSteps
    <2> HIDE DEF f
    <2>3. CASE Searches(vm, <<>>)
        BY <2>1, <2>3, PopMoves DEF Link, Reaches
    <2>4. CASE Searches(vm, f) /\ f # <<>>
        <3>1. \A op : <<"io_vm_init", op>> \notin Link
            BY DEF Link
        <3>2. /\ DOMAIN todo' = VMs /\ \A v \in VMs : Orderly(v)'
              /\ Unmoved(vm) /\ \A op : At(vm, op)' => op = "alloc_ctxbnk"
            BY <2>1, <2>2, <2>4, <3>1, Pushes
        <3> QED
            BY <3>2 DEF Moved, Reaches, Linked
    <2> QED
        BY <2>1, <2>3, <2>4
<1>2. CASE ArmAddDevice(vm)
    <2> DEFINE f == AllSteps(ArmAdd, Device(Of(vm)))
    <2>1. At(vm, "add") /\ Of(vm) # {} /\ Searches(vm, f)
        BY <1>2 DEF ArmAddDevice, Done
    <2>2. Device(Of(vm)) \in Wanted(vm)
        BY <2>1, HeadAllowed DEF Wanted
    <2>3. f \in Seq(Allowed(vm)) /\ Chained(f) /\ f # <<>> /\ Head(f).op = "alloc_ctxbnk"
        BY <2>2, ShortSteps
    <2> HIDE DEF f
    <2>4. \A op : <<"add", op>> \notin Link
        BY DEF Link
    <2>5. /\ DOMAIN todo' = VMs /\ \A v \in VMs : Orderly(v)'
          /\ Unmoved(vm) /\ \A op : At(vm, op)' => op = "alloc_ctxbnk"
        BY <2>1, <2>3, <2>4, Pushes
    <2> QED
        BY <2>5 DEF Moved, Reaches, Linked
<1> QED
    BY <1>1, <1>2

\* From one step of iommu_vm_arch_add to the next, once the VM has a bank.
LEMMA SmeMoves ==
    ASSUME Shapes, NEW vm \in VMs
    PROVE  /\ CompatibleSme(vm) => Moved(vm) /\ Reaches(vm, {"alloc_sme"})
           /\ ConflictingSme(vm) \/ EntryGone(vm) => Moved(vm) /\ Reaches(vm, {})
           /\ AllocSme(vm) /\ ~AddFails(vm) =>
                 Moved(vm) /\ Reaches(vm, {"write_sme"}) /\ Of(vm)' = Of(vm)
           /\ WriteSme(vm) => Moved(vm) /\ Reaches(vm, {"write_s2c"})
           /\ WriteS2c(vm) => Moved(vm) /\ Reaches(vm, {})
<1>1. ASSUME CompatibleSme(vm) PROVE Moved(vm) /\ Reaches(vm, {"alloc_sme"})
    <2>1. /\ At(vm, "compatible") /\ Of(vm) \in Wanted(vm)
          /\ Searches(vm, <<>>) \/ Searches(vm, <<Step("alloc_sme", Of(vm))>>)
        BY <1>1, HeadAllowed DEF CompatibleSme, AtSme, ArmOps
    <2>2. CASE Searches(vm, <<>>)
        BY <2>1, <2>2, PopMoves DEF Link, Reaches
    <2>3. CASE Searches(vm, <<Step("alloc_sme", Of(vm))>>)
        <3> DEFINE f == <<Step("alloc_sme", Of(vm))>>
        <3>1. f \in Seq(Allowed(vm)) /\ Chained(f) /\ f # <<>> /\ Head(f).op = "alloc_sme"
            BY <2>1, ShortSteps
        <3>2. \A op : <<"compatible", op>> \notin Link
            BY DEF Link
        <3>3. Searches(vm, f)
            BY <2>3
        <3> HIDE DEF f
        <3>4. /\ DOMAIN todo' = VMs /\ \A v \in VMs : Orderly(v)'
              /\ Unmoved(vm) /\ \A op : At(vm, op)' => op = "alloc_sme"
            BY <2>1, <3>1, <3>2, <3>3, Pushes
        <3> QED
            BY <3>4 DEF Moved, Reaches
    <2> QED
        BY <2>1, <2>2, <2>3
<1>2. ASSUME ConflictingSme(vm) \/ EntryGone(vm) PROVE Moved(vm) /\ Reaches(vm, {})
    BY <1>2, Stops DEF ConflictingSme, EntryGone, Moved, Reaches
<1>3. ASSUME AllocSme(vm), ~AddFails(vm)
      PROVE  Moved(vm) /\ Reaches(vm, {"write_sme"}) /\ Of(vm)' = Of(vm)
    <2> DEFINE f == AllSteps(<<"write_sme", "write_s2c">>, Of(vm))
    <2>1. At(vm, "alloc_sme") /\ Of(vm) \in Wanted(vm) /\ Searches(vm, f)
        BY <1>3, HeadAllowed DEF AllocSme, AtSme, ArmOps, Done
    <2>2. f \in Seq(Allowed(vm)) /\ Chained(f) /\ f # <<>> /\ Head(f) = Step("write_sme", Of(vm))
        BY <2>1, ShortSteps
    <2>3. \A op : <<"alloc_sme", op>> \notin Link
        BY DEF Link
    <2> HIDE DEF f
    <2>4. Head(f).op = "write_sme" /\ Head(f).of = Of(vm)
        BY <2>2 DEF Step
    <2>5. /\ DOMAIN todo' = VMs /\ \A v \in VMs : Orderly(v)'
          /\ Unmoved(vm) /\ (\A op : At(vm, op)' => op = "write_sme") /\ Of(vm)' = Of(vm)
        BY <2>1, <2>2, <2>3, <2>4, Pushes
    <2> QED
        BY <2>5 DEF Moved, Reaches
<1>4. ASSUME WriteSme(vm) PROVE Moved(vm) /\ Reaches(vm, {"write_s2c"})
    <2>1. At(vm, "write_sme") /\ Searches(vm, <<>>)
        BY <1>4 DEF WriteSme, AtSme, Done
    <2> QED
        BY <2>1, PopMoves DEF Link, Reaches
<1>5. ASSUME WriteS2c(vm) PROVE Moved(vm) /\ Reaches(vm, {})
    <2>1. At(vm, "write_s2c") /\ Searches(vm, <<>>)
        BY <1>5 DEF WriteS2c, AtSme, Done
    <2> QED
        BY <2>1, PopMoves DEF Link, Reaches
<1> QED
    BY <1>1, <1>2, <1>3, <1>4, <1>5

\* The four outcomes of iommu_vm_arch_init_ctx.
TakesBank(vm, b) ==
    /\ At(vm, "alloc_ctxbnk") /\ ctx_id[vm] = None
    /\ smmu_alloc_ctxbnk(b) /\ reg' = [reg EXCEPT ![vm] = b]
    /\ Done(vm, <<>>)
    /\ UNCHANGED <<irqVars, ctx_id, iommuVars>>
HasBank(vm) ==
    /\ At(vm, "alloc_ctxbnk") /\ ctx_id[vm] # None
    /\ todo' = [todo EXCEPT ![vm] = Tail(Tail(@))]
    /\ UNCHANGED <<config, stopped, mistaken, reg, irqVars, ctx_id, iommuVars, smmuVars>>
WritesBank(vm) ==
    /\ At(vm, "write_ctxbnk")
    /\ smmu_write_ctxbnk(reg[vm], vm)
    /\ ctx_id' = [ctx_id EXCEPT ![vm] = reg[vm]]
    /\ reg' = [reg EXCEPT ![vm] = None]
    /\ Done(vm, <<>>)
    /\ UNCHANGED <<irqVars, iommuVars>>

\* From one step of iommu_vm_arch_init_ctx to the next.
LEMMA BankMoves ==
    ASSUME Shapes, NEW vm \in VMs
    PROVE  /\ InitCtx(vm) => \/ \E b \in Banks : TakesBank(vm, b)
                             \/ At(vm, "alloc_ctxbnk") /\ AddFails(vm)
                             \/ HasBank(vm) \/ WritesBank(vm)
           /\ \A b \in Banks : TakesBank(vm, b) => Moved(vm) /\ Reaches(vm, {"write_ctxbnk"})
           /\ HasBank(vm) \/ WritesBank(vm) => Moved(vm) /\ Reaches(vm, {"compatible"})
<1>1. InitCtx(vm) => \/ \E b \in Banks : TakesBank(vm, b)
                     \/ At(vm, "alloc_ctxbnk") /\ AddFails(vm)
                     \/ HasBank(vm) \/ WritesBank(vm)
    BY DEF InitCtx, TakesBank, HasBank, WritesBank
<1>2. ASSUME NEW b \in Banks, TakesBank(vm, b)
      PROVE  Moved(vm) /\ Reaches(vm, {"write_ctxbnk"})
    <2>1. At(vm, "alloc_ctxbnk") /\ Searches(vm, <<>>)
        BY <1>2 DEF TakesBank, Done
    <2>2. \A op : <<"alloc_ctxbnk", op>> \in Link => op = "write_ctxbnk"
        BY DEF Link
    <2> QED
        BY <2>1, <2>2, PopMoves DEF Reaches
<1>3. ASSUME HasBank(vm) PROVE Moved(vm) /\ Reaches(vm, {"compatible"})
    <2>1. /\ DOMAIN todo' = VMs
          /\ \A v \in VMs : Orderly(v)'
          /\ Unmoved(vm)
          /\ \A op : At(vm, op)' => /\ op \notin {"alloc_sme", "write_sme"}
                                    /\ op \in Linked => <<"write_ctxbnk", op>> \in Link
        BY <1>3, Skips DEF HasBank
    <2>2. \A op : <<"write_ctxbnk", op>> \in Link => op = "compatible"
        BY DEF Link
    <2> QED
        BY <2>1, <2>2 DEF Moved, Reaches
<1>4. ASSUME WritesBank(vm) PROVE Moved(vm) /\ Reaches(vm, {"compatible"})
    <2>1. At(vm, "write_ctxbnk") /\ Searches(vm, <<>>)
        BY <1>4 DEF WritesBank, Done
    <2>2. \A op : <<"write_ctxbnk", op>> \in Link => op = "compatible"
        BY DEF Link
    <2> QED
        BY <2>1, <2>2, PopMoves DEF Reaches
<1> QED
    BY <1>1, <1>2, <1>3, <1>4

\* A step that takes a master to nothing of the RISC-V driver or of interrupts keeps Locals.
LEMMA ArmLocals ==
    ASSUME Shapes, NEW vm \in VMs, Moved(vm), \A v \in VMs \ {vm} : reg'[v] = reg[v],
           NEW A, Reaches(vm, A), A \cap {"store", "inval", "iofence", "cqt"} = {}
    PROVE  Locals'
<1>1. \A op \in {"store", "inval", "iofence", "cqt"} : ~At(vm, op)'
    BY DEF Reaches, Linked
<1> QED
    BY <1>1, LocalsKept DEF Moved

\* The SMMU driver keeps Shapes.
LEMMA SmmuShapes ==
    ASSUME Shapes, BankInv, NEW vm \in VMs,
           \/ IoVmInit(vm) \/ ArmAddDevice(vm) \/ InitCtx(vm) \/ CompatibleSme(vm)
           \/ ConflictingSme(vm) \/ AllocSme(vm) \/ WriteSme(vm) \/ EntryGone(vm) \/ WriteS2c(vm)
    PROVE  Shapes'
<1> USE DEF irqVars, iommuVars, smmuVars
<1>1. CASE IoVmInit(vm) \/ ArmAddDevice(vm)
    <2>1. Moved(vm) /\ Reaches(vm, {})
        BY <1>1, AddMoves
    <2>2. UNCHANGED <<config, stopped, mistaken, reg, irqVars, ctx_id, iommuVars, smmuVars>>
        BY <1>1 DEF IoVmInit, ArmAddDevice, Done, Searches
    <2>3. Locals'
        BY <2>1, <2>2, ArmLocals
    <2> QED
        BY <2>1, <2>2, <2>3 DEF Shapes, TypeOK, Locals, Moved, Smes, Banks
<1>2. CASE AddFails(vm)
    <2>1. /\ Moved(vm) /\ Reaches(vm, {})
          /\ UNCHANGED <<config, mistaken, reg, irqVars, ctx_id, iommuVars, smmuVars>>
          /\ stopped' \subseteq stopped \cup {vm}
        BY <1>2, FailureMoves
    <2>2. Locals'
        BY <2>1, ArmLocals
    <2> QED
        BY <2>1, <2>2 DEF Shapes, TypeOK, Locals, Moved, Smes, Banks
<1>3. CASE InitCtx(vm) /\ ~AddFails(vm)
    <2>1. CASE \E b \in Banks : TakesBank(vm, b)
        <3>1. PICK b \in Banks : TakesBank(vm, b)
            BY <2>1
        <3>2. Moved(vm) /\ Reaches(vm, {"write_ctxbnk"})
            BY <3>1, BankMoves
        <3>3. /\ UNCHANGED <<config, stopped, mistaken, irqVars, ctx_id, iommuVars>>
              /\ UNCHANGED <<sme_num, ctx_num, cntxt, sme_bitmap, grp_bitmap, smr, s2cr>>
              /\ ctxbank_bitmap' = ctxbank_bitmap \cup {b}
              /\ reg' = [reg EXCEPT ![vm] = b]
            BY <3>1 DEF TakesBank, Done, Searches, smmu_alloc_ctxbnk
        <3>4. Locals'
            BY <3>2, <3>3, ArmLocals
        <3> QED
            BY <3>1, <3>2, <3>3, <3>4 DEF Shapes, TypeOK, Locals, Moved, Smes, Banks
    <2>2. CASE HasBank(vm)
        <3>1. Moved(vm) /\ Reaches(vm, {"compatible"})
            BY <2>2, BankMoves
        <3>2. UNCHANGED <<config, stopped, mistaken, reg, irqVars, ctx_id, iommuVars, smmuVars>>
            BY <2>2 DEF HasBank
        <3>3. Locals'
            BY <3>1, <3>2, ArmLocals
        <3> QED
            BY <3>1, <3>2, <3>3 DEF Shapes, TypeOK, Locals, Moved, Smes, Banks
    <2>3. CASE WritesBank(vm)
        <3>1. Moved(vm) /\ Reaches(vm, {"compatible"})
            BY <2>3, BankMoves
        <3>2. /\ UNCHANGED <<config, stopped, mistaken, irqVars, iommuVars>>
              /\ UNCHANGED <<sme_num, ctx_num, ctxbank_bitmap, sme_bitmap, grp_bitmap, smr, s2cr>>
              /\ cntxt' = [cntxt EXCEPT ![reg[vm]] = {vm}]
              /\ ctx_id' = [ctx_id EXCEPT ![vm] = reg[vm]]
              /\ reg' = [reg EXCEPT ![vm] = None]
            BY <2>3 DEF WritesBank, Done, Searches, smmu_write_ctxbnk
        <3>3. Locals'
            BY <3>1, <3>2, ArmLocals
        <3>4. reg[vm] \in Banks
            BY <2>3 DEF WritesBank, BankInv, Shapes, TypeOK
        <3> QED
            BY <3>1, <3>2, <3>3, <3>4 DEF Shapes, TypeOK, Locals, Moved, Smes, Banks
    <2> QED
        BY <1>3, <2>1, <2>2, <2>3, BankMoves
<1>4. CASE CompatibleSme(vm)
    <2>1. Moved(vm) /\ Reaches(vm, {"alloc_sme"})
        BY <1>4, SmeMoves
    <2>2. /\ UNCHANGED <<config, stopped, reg, irqVars, ctx_id, iommuVars>>
          /\ UNCHANGED <<sme_num, ctx_num, ctxbank_bitmap, cntxt, grp_bitmap, smr, s2cr>>
          /\ sme_bitmap' \subseteq sme_bitmap
          /\ mistaken' \in BOOLEAN
        BY <1>4 DEF CompatibleSme, Searches, smmu_compatible_sme_exists, Remember
    <2>3. Locals'
        BY <2>1, <2>2, ArmLocals
    <2> QED
        BY <2>1, <2>2, <2>3 DEF Shapes, TypeOK, Locals, Moved, Smes, Banks
<1>5. CASE ConflictingSme(vm) \/ EntryGone(vm)
    <2>1. Moved(vm) /\ Reaches(vm, {})
        BY <1>5, SmeMoves
    <2>2. /\ UNCHANGED <<config, todo, reg, irqVars, ctx_id, iommuVars, smmuVars>>
          /\ stopped' = stopped \cup {vm}
        BY <1>5 DEF ConflictingSme, EntryGone, Stop
    <2>3. mistaken' \in BOOLEAN
        BY <1>5 DEF ConflictingSme, EntryGone, Remember, Shapes
    <2>4. Locals'
        BY <2>1, <2>2, ArmLocals
    <2> QED
        BY <2>1, <2>2, <2>3, <2>4 DEF Shapes, TypeOK, Locals, Moved, Smes, Banks
<1>6. CASE AllocSme(vm) /\ ~AddFails(vm)
    <2>1. Moved(vm) /\ Reaches(vm, {"write_sme"})
        BY <1>6, SmeMoves
    <2>2. PICK e \in Smes :
             /\ UNCHANGED <<config, stopped, mistaken, irqVars, ctx_id, iommuVars>>
             /\ UNCHANGED <<sme_num, ctx_num, ctxbank_bitmap, cntxt, grp_bitmap, smr, s2cr>>
             /\ sme_bitmap' = sme_bitmap \cup {e}
             /\ reg' = [reg EXCEPT ![vm] = e]
        BY <1>6 DEF AllocSme, Done, Searches, smmu_alloc_sme
    <2>3. Locals'
        BY <2>1, <2>2, ArmLocals
    <2> QED
        BY <2>1, <2>2, <2>3 DEF Shapes, TypeOK, Locals, Moved, Smes, Banks
<1>7. CASE WriteSme(vm)
    <2>1. Moved(vm) /\ Reaches(vm, {"write_s2c"})
        BY <1>7, SmeMoves
    <2>2. /\ UNCHANGED <<config, stopped, mistaken, reg, irqVars, ctx_id, iommuVars>>
          /\ UNCHANGED <<sme_num, ctx_num, ctxbank_bitmap, cntxt, sme_bitmap, s2cr>>
          /\ smr' = [smr EXCEPT ![reg[vm]] =
                        [valid |-> TRUE, mask |-> prep_mask(vm), id |-> Of(vm).id]]
        BY <1>7 DEF WriteSme, Done, Searches, smmu_write_sme
    <2>3. prep_mask(vm) \in SUBSET Bits /\ Of(vm).id \in SUBSET Bits
        <3>1. Of(vm) \in Wanted(vm)
            BY <1>7, HeadAllowed DEF WriteSme, AtSme, ArmOps
        <3> QED
            BY <3>1, WantedBits DEF prep_mask
    <2>4. smr' \in [Smes -> [valid : BOOLEAN, mask : SUBSET Bits, id : SUBSET Bits]]
        BY <2>2, <2>3 DEF Shapes
    <2>5. Locals'
        BY <2>1, <2>2, ArmLocals
    <2> QED
        BY <2>1, <2>2, <2>4, <2>5 DEF Shapes, TypeOK, Locals, Moved, Smes, Banks
<1>8. CASE WriteS2c(vm)
    <2>1. Moved(vm) /\ Reaches(vm, {})
        BY <1>8, SmeMoves
    <2>2. /\ UNCHANGED <<config, stopped, mistaken, irqVars, ctx_id, iommuVars>>
          /\ UNCHANGED <<sme_num, ctx_num, ctxbank_bitmap, cntxt, sme_bitmap, grp_bitmap, smr>>
          /\ s2cr' = [s2cr EXCEPT ![reg[vm]] = ctx_id[vm]]
          /\ reg' = [reg EXCEPT ![vm] = None]
        BY <1>8 DEF WriteS2c, Done, Searches, smmu_write_s2c
    <2>3. Locals'
        BY <2>1, <2>2, ArmLocals
    <2> QED
        BY <2>1, <2>2, <2>3 DEF Shapes, TypeOK, Locals, Moved, Smes, Banks
<1> QED
    BY <1>1, <1>2, <1>3, <1>4, <1>5, <1>6, <1>7, <1>8

-----------------------------------------------------------------------------
(* The steps that have nothing to do with the SMMU. *)

Elsewhere == {"store", "tc", "inval", "iofence", "wait", "cqt"}

Quiet(vm) ==
    /\ Unmoved(vm) /\ Reaches(vm, Elsewhere)
    /\ UNCHANGED <<config, smmuVars, ctx_id, mistaken>>
    /\ \A v \in VMs \ {vm} : reg'[v] = reg[v]
    /\ \A op \in ArmOps : ~At(vm, op)

\* A step of another part that brings no others is quiet.
LEMMA PopIsQuiet ==
    ASSUME Shapes, NEW vm \in VMs, NEW o, At(vm, o), o \notin ArmOps, Searches(vm, <<>>),
           UNCHANGED <<smmuVars, ctx_id, mistaken>>, \A v \in VMs \ {vm} : reg'[v] = reg[v]
    PROVE  Quiet(vm)
<1>1. Moved(vm) /\ Reaches(vm, {op \in Linked : <<o, op>> \in Link})
    BY PopMoves
<1>2. \A op \in Linked : <<o, op>> \in Link => op \in Elsewhere
    BY DEF Link, Linked, Elsewhere, ArmOps
<1>3. \A op \in ArmOps : ~At(vm, op)
    BY DEF At
<1> QED
    BY <1>1, <1>2, <1>3 DEF Quiet, Moved, Reaches, Searches

\* So is the end of a master in another part.
LEMMA StopIsQuiet ==
    ASSUME Shapes, NEW vm \in VMs, NEW o, At(vm, o), o \notin ArmOps, Stop(vm), UNCHANGED mistaken
    PROVE  Quiet(vm)
<1>1. Unmoved(vm) /\ \A op : ~At(vm, op)'
    BY Stops
<1>2. \A op \in ArmOps : ~At(vm, op)
    BY DEF At
<1> QED
    BY <1>1, <1>2 DEF Quiet, Reaches, Stop, smmuVars

\* Interrupts, the RISC-V driver and the start of io_vm_init leave the SMMU alone.
LEMMA Quiets ==
    ASSUME Shapes, NEW vm \in VMs,
           \/ AssignInterrupt(vm) \/ InterruptConflict(vm) \/ LoadWord(vm) \/ StoreWord(vm)
           \/ IoVmInit(vm) \/ SkipDevice(vm) \/ AddDevice(vm) \/ WriteContext(vm)
           \/ ReadTail(vm) \/ SubmitCmd(vm) \/ WaitForHead(vm) \/ ArmAddDevice(vm)
    PROVE  Quiet(vm)
<1>1. CASE AssignInterrupt(vm)
    BY <1>1, PopIsQuiet DEF AssignInterrupt, Done, ArmOps
<1>2. CASE InterruptConflict(vm)
    BY <1>2, StopIsQuiet DEF InterruptConflict, ArmOps
<1>3. CASE LoadWord(vm)
    BY <1>3, PopIsQuiet DEF LoadWord, Done, ArmOps, Shapes
<1>4. CASE StoreWord(vm)
    BY <1>4, PopIsQuiet DEF StoreWord, Done, ArmOps, Shapes
<1>5. CASE IoVmInit(vm) \/ ArmAddDevice(vm)
    <2>1. Moved(vm) /\ Reaches(vm, {})
        BY <1>5, AddMoves
    <2>2. UNCHANGED <<config, mistaken, reg, ctx_id, smmuVars>>
        BY <1>5 DEF IoVmInit, ArmAddDevice, Done, Searches
    <2>3. At(vm, "io_vm_init") \/ At(vm, "add")
        BY <1>5 DEF IoVmInit, ArmAddDevice
    <2>4. \A op \in ArmOps : ~At(vm, op)
        BY <2>3 DEF At, ArmOps
    <2> QED
        BY <2>1, <2>2, <2>4 DEF Quiet, Moved, Reaches
<1>6. CASE SkipDevice(vm)
    BY <1>6, PopIsQuiet DEF SkipDevice, Done, ArmOps
<1>7. CASE AddDevice(vm)
    <2>1. CASE Done(vm, <<>>) /\ UNCHANGED <<reg, irqVars, ctx_id, iommuVars, smmuVars>>
        BY <1>7, <2>1, PopIsQuiet DEF AddDevice, Done, ArmOps
    <2>2. CASE /\ Of(vm) \in Devices /\ Done(vm, AllSteps(RiscvAdd, Of(vm)))
               /\ UNCHANGED <<reg, irqVars, ctx_id, iommuVars, smmuVars>>
        <3> DEFINE first == AllSteps(RiscvAdd, Of(vm))
        <3>1. At(vm, "add") /\ Searches(vm, first) /\ UNCHANGED mistaken
            BY <1>7, <2>2 DEF AddDevice, Done
        <3>2. Of(vm) \in Elements(config.devs[vm])
            BY <3>1, HeadAllowed
        <3>3. /\ first \in Seq(Allowed(vm)) /\ Chained(first) /\ first # <<>>
              /\ Head(first).op = "iohgatp"
            BY <2>2, <3>2, RiscvSteps
        <3>4. \A op : <<"add", op>> \notin Link
            BY DEF Link
        <3> HIDE DEF first
        <3>5. Unmoved(vm) /\ \A op : At(vm, op)' => op = "iohgatp"
            BY <3>1, <3>3, <3>4, Pushes
        <3>6. \A op \in ArmOps : ~At(vm, op)
            BY <3>1 DEF At, ArmOps
        <3> QED
            BY <2>2, <3>1, <3>5, <3>6 DEF Quiet, Reaches, Linked, Searches
    <2>3. CASE Stop(vm) /\ UNCHANGED mistaken
        BY <1>7, <2>3, StopIsQuiet DEF AddDevice, ArmOps
    <2> QED
        BY <1>7, <2>1, <2>2, <2>3 DEF AddDevice
<1>8. CASE WriteContext(vm)
    <2>1. PICK o \in {"iohgatp", "tc"} :
             /\ At(vm, o) /\ Searches(vm, <<>>) /\ UNCHANGED <<mistaken, ctx_id, smmuVars, reg>>
        BY <1>8 DEF WriteContext, DriverStep, Done
    <2> QED
        BY <2>1, PopIsQuiet DEF ArmOps
<1>9. CASE ReadTail(vm)
    BY <1>9, PopIsQuiet DEF ReadTail, DriverStep, Done, ArmOps, Shapes
<1>10. CASE SubmitCmd(vm)
    <2>1. PICK o \in {"inval", "iofence", "cqt"} :
             /\ At(vm, o) /\ Searches(vm, <<>>) /\ UNCHANGED <<mistaken, ctx_id, smmuVars, reg>>
        BY <1>10 DEF SubmitCmd, DriverStep, Done
    <2> QED
        BY <2>1, PopIsQuiet DEF ArmOps
<1>11. CASE WaitForHead(vm)
    BY <1>11, PopIsQuiet DEF WaitForHead, DriverStep, Done, ArmOps, Shapes
<1> QED
    BY <1>1, <1>2, <1>3, <1>4, <1>5, <1>6, <1>7, <1>8, <1>9, <1>10, <1>11

-----------------------------------------------------------------------------
(* Contexts are kept. *)

\* A step that writes no context and is not followed by the second write of one.
LEMMA ContextsKept ==
    ASSUME Contexts, NEW vm \in VMs, Unmoved(vm), ~At(vm, "tc")', UNCHANGED <<config, ddt, cache>>
    PROVE  Contexts'
<1>1. ASSUME NEW v \in VMs, At(v, "tc")' PROVE ddt'[Of(v)'].root # None
    <2>1. v # vm /\ At(v, "tc") /\ Of(v)' = Of(v)
        BY <1>1 DEF Unmoved
    <2> QED
        BY <2>1 DEF Contexts
<1>2. ASSUME NEW d \in Devices
      PROVE  /\ ddt'[d].root # None => d \in Elements(config'.devs[ddt'[d].root])
             /\ ddt'[d].v => ddt'[d].root # None
             /\ cache'[d] # None => ContextConfined(cache[d], d)'
    BY DEF Contexts, ContextConfined
<1> QED
    BY <1>1, <1>2 DEF Contexts

\* iommu_arch_vm_add_device writes the page table, then the valid bit.
LEMMA ContextWritten ==
    ASSUME Shapes, Contexts, NEW vm \in VMs, WriteContext(vm)
    PROVE  Contexts'
<1> DEFINE d == Of(vm)
<1>1. Unmoved(vm)
    BY Quiets DEF Quiet
<1>2. /\ At(vm, "iohgatp") \/ At(vm, "tc")
      /\ d \in Devices /\ d \in Elements(config.devs[vm])
    BY HeadAllowed DEF WriteContext, DriverStep, RiscvOps
<1>3. ddt \in [Devices -> [v : BOOLEAN, root : VMs \cup {None}]] /\ vm # None
    BY IommuAssumption DEF Shapes, TypeOK
<1>4. UNCHANGED <<config, cache>>
    BY DEF WriteContext, DriverStep, Done, Searches, WriteIohgatp, WriteTc
<1>5. CASE At(vm, "iohgatp") /\ ddt' = [ddt EXCEPT ![d].root = vm]
    <2>1. ddt' = [ddt EXCEPT ![d] = [ddt[d] EXCEPT !.root = vm]]
        BY <1>5
    <2>2. ddt'[d].root = vm /\ ddt'[d].v = ddt[d].v /\ \A c \in Devices \ {d} : ddt'[c] = ddt[c]
        BY <1>2, <1>3, <2>1
    <2>3. ASSUME NEW c \in Devices
          PROVE  /\ ddt'[c].root # None => c \in Elements(config'.devs[ddt'[c].root])
                 /\ ddt'[c].v => ddt'[c].root # None
                 /\ cache'[c] # None => ContextConfined(cache[c], c)'
        <3>1. CASE c = d
            BY <1>2, <1>3, <1>4, <2>2, <3>1 DEF Contexts, ContextConfined
        <3>2. CASE c # d
            BY <1>4, <2>2, <3>2 DEF Contexts, ContextConfined
        <3> QED
            BY <3>1, <3>2
    <2>4. ASSUME NEW v \in VMs, At(v, "tc")' PROVE ddt'[Of(v)'].root # None
        <3>1. CASE v = vm
            <4>1. Searches(vm, <<>>)
                BY <1>5 DEF WriteContext, DriverStep, Done
            <4>2. Of(vm)' = Of(vm)
                BY <1>5, <2>4, <3>1, <4>1, Pops
            <4> QED
                BY <1>3, <2>2, <3>1, <4>2
        <3>2. CASE v # vm
            <4>1. At(v, "tc") /\ Of(v)' = Of(v)
                BY <1>1, <2>4, <3>2 DEF Unmoved
            <4>2. Of(v) \in Devices
                BY <4>1, HeadAllowed DEF RiscvOps
            <4> QED
                BY <1>3, <2>2, <4>1, <4>2 DEF Contexts
        <3> QED
            BY <3>1, <3>2
    <2> QED
        BY <2>3, <2>4 DEF Contexts
<1>6. CASE At(vm, "tc") /\ ddt' = [ddt EXCEPT ![d].v = TRUE]
    <2>1. ddt' = [ddt EXCEPT ![d] = [ddt[d] EXCEPT !.v = TRUE]]
        BY <1>6
    <2>2. \A c \in Devices : ddt'[c].root = ddt[c].root /\ (c # d => ddt'[c] = ddt[c])
        BY <1>2, <1>3, <2>1
    <2>3. ddt[d].root # None
        BY <1>6 DEF Contexts
    <2>4. ASSUME NEW c \in Devices
          PROVE  /\ ddt'[c].root # None => c \in Elements(config'.devs[ddt'[c].root])
                 /\ ddt'[c].v => ddt'[c].root # None
                 /\ cache'[c] # None => ContextConfined(cache[c], c)'
        BY <1>4, <2>2, <2>3 DEF Contexts, ContextConfined
    <2>5. ASSUME NEW v \in VMs, At(v, "tc")' PROVE ddt'[Of(v)'].root # None
        <3>1. Searches(vm, <<>>)
            BY <1>6 DEF WriteContext, DriverStep, Done
        <3>2. ~At(vm, "tc")'
            BY <1>6, <3>1, Pops DEF Link, Linked
        <3>3. At(v, "tc") /\ Of(v)' = Of(v)
            BY <1>1, <2>5, <3>2 DEF Unmoved
        <3>4. Of(v) \in Devices
            BY <3>3, HeadAllowed DEF RiscvOps
        <3> QED
            BY <2>2, <3>3, <3>4 DEF Contexts
    <2> QED
        BY <2>4, <2>5 DEF Contexts
<1> QED
    BY <1>5, <1>6 DEF WriteContext, DriverStep, WriteIohgatp, WriteTc

\* The IOMMU takes a copy of what is in memory.
LEMMA HardwareContexts == ASSUME Shapes, Contexts, Hardware PROVE Contexts'
<1>1. UNCHANGED <<vmVars, ddt>>
    BY DEF Hardware, Consume, Fetch
<1>2. \A v \in VMs : Of(v)' = Of(v) /\ \A op : At(v, op)' <=> At(v, op)
    BY <1>1 DEF At, Of, vmVars
<1>3. ASSUME NEW d \in Devices, cache'[d] # None PROVE ContextConfined(cache[d], d)'
    <2>1. cache'[d] = cache[d] \/ cache'[d] = ddt[d]
        BY <1>3 DEF Hardware, Consume, Fetch, Shapes
    <2>2. ContextConfined(ddt[d], d)
        BY DEF Contexts, ContextConfined, Shapes, TypeOK
    <2>3. \A dc : ContextConfined(dc, d) => ContextConfined(dc, d)'
        BY <1>1 DEF ContextConfined, vmVars
    <2>4. cache[d] # None => ContextConfined(cache[d], d)
        BY DEF Contexts
    <2>5. ContextConfined(cache'[d], d)
        BY <1>3, <2>1, <2>2, <2>4
    <2> QED
        BY <1>1, <2>5 DEF ContextConfined, vmVars
<1> QED
    BY <1>1, <1>2, <1>3 DEF Contexts, vmVars

\* The masters that do nothing are where they were.
LEMMA AllUnmoved ==
    ASSUME UNCHANGED vmVars
    PROVE  /\ \A vm \in VMs : Unmoved(vm)
           /\ \A v \in VMs : Of(v)' = Of(v) /\ \A op : At(v, op)' <=> At(v, op)
BY DEF vmVars, Unmoved, At, Of

\* Shapes is kept by every step.
LEMMA ShapesKept == ASSUME Shapes, BankInv, [Next]_vars PROVE Shapes'
<1>1. CASE Hardware
    BY <1>1, HardwareShapes
<1>2. ASSUME NEW vm \in VMs, Master(vm) PROVE Shapes'
    BY <1>2, InterruptShapes, DeviceShapes, RingShapes, SmmuShapes DEF Master
<1>3. CASE UNCHANGED vars
    <2> USE <1>3 DEF vars, vmVars, iommuVars, smmuVars
    <2>1. \A v \in VMs : Of(v)' = Of(v) /\ \A op : At(v, op)' <=> At(v, op)
        BY AllUnmoved
    <2>2. ASSUME NEW v \in VMs PROVE Orderly(v)'
        <3>1. Allowed(v)' = Allowed(v) /\ (Chained(todo[v])' <=> Chained(todo[v]))
            BY DEF Allowed, Wanted, Chained, Linked, Link
        <3> QED
            BY <3>1 DEF Orderly, Shapes
    <2> QED
        BY <2>1, <2>2 DEF Shapes, TypeOK, Smes, Banks
<1> QED
    BY <1>1, <1>2, <1>3 DEF Next

\* No step of the SMMU driver leads to the second write of a device context.
LEMMA ArmContexts ==
    ASSUME Shapes, Contexts, NEW vm \in VMs,
           \/ InitCtx(vm) \/ CompatibleSme(vm) \/ ConflictingSme(vm)
           \/ AllocSme(vm) \/ WriteSme(vm) \/ EntryGone(vm) \/ WriteS2c(vm)
    PROVE  Contexts'
<1>1. ASSUME NEW A, Reaches(vm, A), "tc" \notin A PROVE ~At(vm, "tc")'
    BY <1>1 DEF Reaches, Linked
<1>2. CASE AddFails(vm)
    <2>1. Unmoved(vm) /\ ~At(vm, "tc")' /\ UNCHANGED <<config, iommuVars>>
        BY <1>1, <1>2, FailureMoves DEF Moved
    <2> QED
        BY <2>1, ContextsKept DEF iommuVars
<1>3. CASE InitCtx(vm) /\ ~AddFails(vm)
    <2>1. Unmoved(vm) /\ ~At(vm, "tc")'
        BY <1>1, <1>3, BankMoves DEF Moved
    <2>2. UNCHANGED <<config, iommuVars>>
        BY <1>3 DEF InitCtx, Done, Searches
    <2> QED
        BY <2>1, <2>2, ContextsKept DEF iommuVars
<1>4. CASE CompatibleSme(vm) \/ ConflictingSme(vm) \/ WriteSme(vm) \/ EntryGone(vm) \/ WriteS2c(vm)
    <2>1. Unmoved(vm) /\ ~At(vm, "tc")'
        BY <1>1, <1>4, SmeMoves DEF Moved
    <2>2. UNCHANGED <<config, iommuVars>>
        BY <1>4 DEF CompatibleSme, ConflictingSme, WriteSme, EntryGone, WriteS2c, Done, Searches, Stop
    <2> QED
        BY <2>1, <2>2, ContextsKept DEF iommuVars
<1>5. CASE AllocSme(vm) /\ ~AddFails(vm)
    <2>1. Unmoved(vm) /\ ~At(vm, "tc")'
        BY <1>1, <1>5, SmeMoves DEF Moved
    <2>2. UNCHANGED <<config, iommuVars>>
        BY <1>5 DEF AllocSme, Done, Searches
    <2> QED
        BY <2>1, <2>2, ContextsKept DEF iommuVars
<1> QED
    BY <1>2, <1>3, <1>4, <1>5

\* Of the other steps only the first write of a device context leads to the second.
LEMMA QuietContexts ==
    ASSUME Shapes, Contexts, NEW vm \in VMs,
           \/ AssignInterrupt(vm) \/ InterruptConflict(vm) \/ LoadWord(vm) \/ StoreWord(vm)
           \/ IoVmInit(vm) \/ SkipDevice(vm) \/ AddDevice(vm)
           \/ ReadTail(vm) \/ SubmitCmd(vm) \/ WaitForHead(vm) \/ ArmAddDevice(vm)
    PROVE  Contexts'
<1>1. Unmoved(vm) /\ UNCHANGED config
    BY Quiets DEF Quiet
<1>2. UNCHANGED <<ddt, cache>>
    BY DEF AssignInterrupt, InterruptConflict, LoadWord, StoreWord, IoVmInit, SkipDevice, AddDevice,
           ReadTail, SubmitCmd, WaitForHead, ArmAddDevice, Stop, DriverStep, WriteCmd, WriteCqt,
           iommuVars
<1>3. ~At(vm, "tc")'
    <2>1. CASE \E o : o # "iohgatp" /\ At(vm, o) /\ Searches(vm, <<>>)
        <3>1. PICK o : o # "iohgatp" /\ At(vm, o) /\ Searches(vm, <<>>)
            BY <2>1
        <3>2. \A op : At(vm, op)' => (op \in Linked => <<o, op>> \in Link)
            BY <3>1, Pops
        <3>3. <<o, "tc">> \notin Link /\ "tc" \in Linked
            BY <3>1 DEF Link, Linked
        <3> QED
            BY <3>2, <3>3
    <2>2. CASE Stop(vm)
        BY <2>2, Stops
    <2>3. CASE IoVmInit(vm) \/ ArmAddDevice(vm)
        BY <2>3, AddMoves DEF Reaches, Linked
    <2>4. CASE AddDevice(vm) /\ Of(vm) \in Devices /\ Done(vm, AllSteps(RiscvAdd, Of(vm)))
        <3> DEFINE first == AllSteps(RiscvAdd, Of(vm))
        <3>1. At(vm, "add") /\ Searches(vm, first)
            BY <2>4 DEF AddDevice, Done
        <3>2. Of(vm) \in Elements(config.devs[vm])
            BY <3>1, HeadAllowed
        <3>3. /\ first \in Seq(Allowed(vm)) /\ Chained(first) /\ first # <<>>
              /\ Head(first).op = "iohgatp"
            BY <2>4, <3>2, RiscvSteps
        <3>4. \A op : <<"add", op>> \notin Link
            BY DEF Link
        <3> HIDE DEF first
        <3>5. \A op : At(vm, op)' => op = "iohgatp"
            BY <3>1, <3>3, <3>4, Pushes
        <3> QED
            BY <3>5
    <2>5. \/ \E o : o # "iohgatp" /\ At(vm, o) /\ Searches(vm, <<>>)
          \/ Stop(vm) \/ IoVmInit(vm) \/ ArmAddDevice(vm)
          \/ AddDevice(vm) /\ Of(vm) \in Devices /\ Done(vm, AllSteps(RiscvAdd, Of(vm)))
        <3>1. ASSUME \/ AssignInterrupt(vm) \/ LoadWord(vm) \/ StoreWord(vm)
                     \/ SkipDevice(vm) \/ ReadTail(vm) \/ SubmitCmd(vm) \/ WaitForHead(vm)
              PROVE  \E o : o # "iohgatp" /\ At(vm, o) /\ Searches(vm, <<>>)
            <4>1. \E o \in {"conflict", "load", "store", "add", "tail", "inval", "iofence",
                           "cqt", "wait"} : At(vm, o) /\ Searches(vm, <<>>)
                BY <3>1 DEF AssignInterrupt, LoadWord, StoreWord, SkipDevice, ReadTail, SubmitCmd,
                       WaitForHead, DriverStep, Done
            <4> QED
                BY <4>1
        <3>2. AddDevice(vm) =>
                 \/ \E o : o # "iohgatp" /\ At(vm, o) /\ Searches(vm, <<>>)
                 \/ Stop(vm)
                 \/ AddDevice(vm) /\ Of(vm) \in Devices /\ Done(vm, AllSteps(RiscvAdd, Of(vm)))
            <4>1. AddDevice(vm) =>
                     \/ At(vm, "add") /\ Searches(vm, <<>>)
                     \/ Stop(vm)
                     \/ AddDevice(vm) /\ Of(vm) \in Devices /\ Done(vm, AllSteps(RiscvAdd, Of(vm)))
                BY DEF AddDevice, Done
            <4> QED
                BY <4>1
        <3>3. InterruptConflict(vm) => Stop(vm)
            BY DEF InterruptConflict
        <3> QED
            BY <3>1, <3>2, <3>3
    <2> QED
        BY <2>1, <2>2, <2>3, <2>4, <2>5
<1> QED
    BY <1>1, <1>2, <1>3, ContextsKept

\* Contexts is kept by every step.
LEMMA AllContexts == ASSUME Shapes, Contexts, [Next]_vars PROVE Contexts'
<1>1. CASE Hardware
    BY <1>1, HardwareContexts
<1>2. ASSUME NEW vm \in VMs, Master(vm) PROVE Contexts'
    BY <1>2, ArmContexts, QuietContexts, ContextWritten DEF Master
<1>3. CASE UNCHANGED vars
    <2>1. UNCHANGED <<vmVars, config, ddt, cache>>
        BY <1>3 DEF vars, vmVars, iommuVars
    <2>2. \A v \in VMs : Of(v)' = Of(v) /\ \A op : At(v, op)' <=> At(v, op)
        BY <2>1, AllUnmoved
    <2> QED
        BY <2>1, <2>2 DEF Contexts, ContextConfined
<1> QED
    BY <1>1, <1>2, <1>3 DEF Next

-----------------------------------------------------------------------------
(* BankInv is kept. *)

\* A step that changes no bank, and takes its master nowhere it needs one it does not have.
LEMMA SameBanks ==
    ASSUME BankInv, NEW vm \in VMs, Unmoved(vm), UNCHANGED <<ctx_id, ctxbank_bitmap, cntxt>>,
           \A v \in VMs \ {vm} : reg'[v] = reg[v], ~At(vm, "write_ctxbnk")',
           Bound(vm)' => ctx_id[vm] # None
    PROVE  BankInv'
<1>1. ASSUME NEW v \in VMs, v # vm PROVE (Bound(v)' <=> Bound(v)) /\ reg'[v] = reg[v]
    BY <1>1 DEF Bound, Unmoved
<1>2. \A v \in VMs : At(v, "write_ctxbnk")' => v # vm /\ At(v, "write_ctxbnk")
    BY DEF Unmoved
<1>3. ASSUME NEW v \in VMs, At(v, "write_ctxbnk")'
      PROVE  /\ ctx_id'[v] = None /\ reg'[v] \in ctxbank_bitmap'
             /\ \A w \in VMs : /\ ctx_id'[w] # reg'[v]
                               /\ w # v /\ At(w, "write_ctxbnk")' => reg'[w] # reg'[v]
    <2>1. v # vm /\ At(v, "write_ctxbnk")
        BY <1>2, <1>3
    <2>2. ASSUME NEW w \in VMs
          PROVE  /\ ctx_id'[w] # reg'[v]
                 /\ w # v /\ At(w, "write_ctxbnk")' => reg'[w] # reg'[v]
        BY <1>1, <1>2, <2>1 DEF BankInv
    <2> QED
        BY <1>1, <2>1, <2>2 DEF BankInv
<1>4. \A v \in VMs : Bound(v)' => ctx_id'[v] # None
    BY <1>1 DEF BankInv
<1>5. /\ \A v \in VMs : ctx_id'[v] # None => ctx_id'[v] \in ctxbank_bitmap' /\ cntxt'[ctx_id'[v]] = {v}
      /\ \A v, w \in VMs : v # w /\ ctx_id'[v] # None => ctx_id'[v] # ctx_id'[w]
    BY DEF BankInv
<1> QED
    BY <1>3, <1>4, <1>5 DEF BankInv

\* Steps that leave the SMMU alone keep BankInv.
LEMMA QuietBanks == ASSUME BankInv, NEW vm \in VMs, Quiet(vm) PROVE BankInv'
<1>1. ~At(vm, "write_ctxbnk")' /\ ~Bound(vm)'
    BY DEF Quiet, Reaches, Elsewhere, Linked, Bound
<1>2. UNCHANGED <<ctx_id, ctxbank_bitmap, cntxt>> /\ \A v \in VMs \ {vm} : reg'[v] = reg[v]
    BY DEF Quiet, smmuVars
<1> QED
    BY <1>1, <1>2, SameBanks DEF Quiet

\* A bank that is taken is nobody's.
LEMMA BankTaken ==
    ASSUME Shapes, BankInv, NEW vm \in VMs, NEW b \in Banks, TakesBank(vm, b)
    PROVE  BankInv'
<1>1. Unmoved(vm) /\ Reaches(vm, {"write_ctxbnk"})
    BY BankMoves DEF Moved
<1>2. /\ ctx_id' = ctx_id /\ cntxt' = cntxt /\ ctxbank_bitmap' = ctxbank_bitmap \cup {b}
      /\ b \notin ctxbank_bitmap /\ b # None /\ ctx_id[vm] = None
    BY VmDevicesAssumption DEF TakesBank, smmu_alloc_ctxbnk, FirstFree, Banks, Shapes
<1>3. reg'[vm] = b /\ \A v \in VMs \ {vm} : reg'[v] = reg[v]
    BY DEF TakesBank, Shapes
<1>4. ~Bound(vm)'
    BY <1>1 DEF Bound, Reaches, Linked
<1>5. \A v \in VMs \ {vm} : /\ Bound(v)' <=> Bound(v)
                            /\ At(v, "write_ctxbnk")' <=> At(v, "write_ctxbnk")
    BY <1>1 DEF Bound, Unmoved
<1>6. /\ \A v \in VMs : ctx_id[v] # b
      /\ \A v \in VMs : At(v, "write_ctxbnk") => reg[v] # b
    BY <1>2 DEF BankInv
<1>7. ASSUME NEW v \in VMs, At(v, "write_ctxbnk")'
      PROVE  /\ ctx_id'[v] = None /\ reg'[v] \in ctxbank_bitmap'
             /\ \A w \in VMs : /\ ctx_id'[w] # reg'[v]
                               /\ w # v /\ At(w, "write_ctxbnk")' => reg'[w] # reg'[v]
    <2>1. CASE v = vm
        <3>1. \A w \in VMs : w # v /\ At(w, "write_ctxbnk")' => At(w, "write_ctxbnk") /\ reg'[w] = reg[w]
            BY <1>3, <1>5, <2>1
        <3> QED
            BY <1>2, <1>3, <1>6, <2>1, <3>1
    <2>2. CASE v # vm
        <3>1. At(v, "write_ctxbnk") /\ reg'[v] = reg[v]
            BY <1>3, <1>5, <1>7, <2>2
        <3>2. ASSUME NEW w \in VMs
              PROVE  /\ ctx_id'[w] # reg'[v]
                     /\ w # v /\ At(w, "write_ctxbnk")' => reg'[w] # reg'[v]
            <4>1. ctx_id[w] # reg[v] /\ (w # v /\ At(w, "write_ctxbnk") => reg[w] # reg[v])
                BY <3>1 DEF BankInv
            <4>2. w # vm => (At(w, "write_ctxbnk")' => At(w, "write_ctxbnk")) /\ reg'[w] = reg[w]
                BY <1>3, <1>5
            <4>3. w = vm => reg'[w] # reg'[v]
                BY <1>3, <1>6, <3>1
            <4> QED
                BY <1>2, <3>1, <4>1, <4>2, <4>3
        <3> QED
            BY <1>2, <3>1, <3>2 DEF BankInv
    <2> QED
        BY <2>1, <2>2
<1>8. \A v \in VMs : Bound(v)' => ctx_id'[v] # None
    BY <1>2, <1>4, <1>5 DEF BankInv
<1>9. /\ \A v \in VMs : ctx_id'[v] # None => ctx_id'[v] \in ctxbank_bitmap' /\ cntxt'[ctx_id'[v]] = {v}
      /\ \A v, w \in VMs : v # w /\ ctx_id'[v] # None => ctx_id'[v] # ctx_id'[w]
    BY <1>2 DEF BankInv
<1> QED
    BY <1>7, <1>8, <1>9 DEF BankInv

\* A bank is the VM's when it has been written.
LEMMA BankWritten ==
    ASSUME Shapes, BankInv, NEW vm \in VMs, WritesBank(vm)
    PROVE  BankInv'
<1> DEFINE b == reg[vm]
<1>1. Unmoved(vm) /\ Reaches(vm, {"compatible"})
    BY BankMoves DEF Moved
<1>2. /\ At(vm, "write_ctxbnk") /\ b \in ctxbank_bitmap /\ ctxbank_bitmap' = ctxbank_bitmap
      /\ \A w \in VMs : /\ ctx_id[w] # b
                        /\ w # vm /\ At(w, "write_ctxbnk") => reg[w] # b
    BY DEF WritesBank, smmu_write_ctxbnk, BankInv
<1>3. b \in Banks /\ b # None
    <2>1. b \in Banks /\ ctx_num \in Nat
        BY <1>2 DEF Shapes, TypeOK
    <2>2. Banks \subseteq Nat /\ None \notin Nat
        BY <2>1, VmDevicesAssumption DEF Banks
    <2> QED
        BY <2>1, <2>2
<1>4. /\ ctx_id'[vm] = b /\ \A v \in VMs \ {vm} : ctx_id'[v] = ctx_id[v] /\ reg'[v] = reg[v]
      /\ cntxt'[b] = {vm} /\ \A c \in Banks \ {b} : cntxt'[c] = cntxt[c]
    BY <1>3 DEF WritesBank, smmu_write_ctxbnk, Shapes, TypeOK
<1>5. ~At(vm, "write_ctxbnk")'
    BY <1>1 DEF Reaches, Linked
<1>6. \A v \in VMs \ {vm} : /\ Bound(v)' <=> Bound(v)
                            /\ At(v, "write_ctxbnk")' <=> At(v, "write_ctxbnk")
    BY <1>1 DEF Bound, Unmoved
<1> HIDE DEF b
<1>7. ASSUME NEW v \in VMs, At(v, "write_ctxbnk")'
      PROVE  /\ ctx_id'[v] = None /\ reg'[v] \in ctxbank_bitmap'
             /\ \A w \in VMs : /\ ctx_id'[w] # reg'[v]
                               /\ w # v /\ At(w, "write_ctxbnk")' => reg'[w] # reg'[v]
    <2>1. v # vm /\ At(v, "write_ctxbnk") /\ reg'[v] = reg[v] /\ reg[v] # b
        BY <1>2, <1>4, <1>5, <1>6, <1>7
    <2>2. ASSUME NEW w \in VMs
          PROVE  /\ ctx_id'[w] # reg'[v]
                 /\ w # v /\ At(w, "write_ctxbnk")' => reg'[w] # reg'[v]
        <3>1. ctx_id[w] # reg[v] /\ (w # v /\ At(w, "write_ctxbnk") => reg[w] # reg[v])
            BY <2>1 DEF BankInv
        <3> QED
            BY <1>4, <1>5, <1>6, <2>1, <3>1
    <2> QED
        BY <1>2, <1>4, <2>1, <2>2 DEF BankInv
<1>8. \A v \in VMs : Bound(v)' => ctx_id'[v] # None
    BY <1>3, <1>4, <1>6 DEF BankInv
<1>9. ASSUME NEW v \in VMs, ctx_id'[v] # None
      PROVE  ctx_id'[v] \in ctxbank_bitmap' /\ cntxt'[ctx_id'[v]] = {v}
    <2>1. CASE v = vm
        BY <1>2, <1>4, <2>1
    <2>2. CASE v # vm
        <3>1. ctx_id[v] \in Banks
            BY <1>4, <1>9, <2>2 DEF Shapes, TypeOK
        <3> QED
            BY <1>2, <1>4, <1>9, <2>2, <3>1 DEF BankInv
    <2> QED
        BY <2>1, <2>2
<1>10. ASSUME NEW v \in VMs, NEW w \in VMs, v # w, ctx_id'[v] # None
       PROVE  ctx_id'[v] # ctx_id'[w]
    <2>1. CASE v = vm
        BY <1>2, <1>4, <1>10, <2>1
    <2>2. CASE w = vm
        BY <1>2, <1>4, <1>10, <2>2
    <2>3. CASE v # vm /\ w # vm
        BY <1>4, <1>10, <2>3 DEF BankInv
    <2> QED
        BY <2>1, <2>2, <2>3
<1> QED
    BY <1>7, <1>8, <1>9, <1>10 DEF BankInv

\* BankInv is kept by every step.
LEMMA BankInvKept == ASSUME Shapes, BankInv, [Next]_vars PROVE BankInv'
<1>1. CASE UNCHANGED <<vmVars, smmuVars>>
    <2>1. \A v \in VMs : Of(v)' = Of(v) /\ \A op : At(v, op)' <=> At(v, op)
        BY <1>1, AllUnmoved
    <2>2. \A v \in VMs : /\ Bound(v)' <=> Bound(v)
                         /\ At(v, "write_ctxbnk")' <=> At(v, "write_ctxbnk")
        BY <2>1 DEF Bound
    <2> QED
        BY <1>1, <2>2 DEF BankInv, vmVars, smmuVars
<1>2. ASSUME NEW vm \in VMs, Master(vm) PROVE BankInv'
    <2>1. CASE \/ AssignInterrupt(vm) \/ InterruptConflict(vm) \/ LoadWord(vm) \/ StoreWord(vm)
               \/ IoVmInit(vm) \/ SkipDevice(vm) \/ AddDevice(vm) \/ WriteContext(vm)
               \/ ReadTail(vm) \/ SubmitCmd(vm) \/ WaitForHead(vm) \/ ArmAddDevice(vm)
        BY <2>1, Quiets, QuietBanks
    <2>2. CASE AddFails(vm)
        <3>1. Unmoved(vm) /\ Reaches(vm, {}) /\ UNCHANGED <<ctx_id, reg, smmuVars>>
            BY <2>2, FailureMoves DEF Moved
        <3>2. ~At(vm, "write_ctxbnk")' /\ ~Bound(vm)'
            BY <3>1 DEF Reaches, Linked, Bound
        <3> QED
            BY <3>1, <3>2, SameBanks DEF smmuVars
    <2>3. CASE HasBank(vm)
        <3>1. Unmoved(vm) /\ Reaches(vm, {"compatible"})
            BY <2>3, BankMoves DEF Moved
        <3>2. ~At(vm, "write_ctxbnk")'
            BY <3>1 DEF Reaches, Linked
        <3>3. ctx_id[vm] # None /\ UNCHANGED <<ctx_id, reg, smmuVars>>
            BY <2>3 DEF HasBank
        <3> QED
            BY <3>1, <3>2, <3>3, SameBanks DEF smmuVars
    <2>4. CASE InitCtx(vm)
        <3>1. ~AddFails(vm) => (\E b \in Banks : TakesBank(vm, b)) \/ HasBank(vm) \/ WritesBank(vm)
            BY <2>4, BankMoves
        <3> QED
            BY <3>1, <2>2, <2>3, BankTaken, BankWritten
    <2>5. CASE \/ CompatibleSme(vm) \/ ConflictingSme(vm) \/ (AllocSme(vm) /\ ~AddFails(vm))
               \/ WriteSme(vm) \/ EntryGone(vm) \/ WriteS2c(vm)
        <3>1. Unmoved(vm) /\ \E A \in SUBSET {"alloc_sme", "write_sme", "write_s2c"} : Reaches(vm, A)
            <4>1. Unmoved(vm) /\ \E A \in {{"alloc_sme"}, {}, {"write_sme"}, {"write_s2c"}} : Reaches(vm, A)
                BY <2>5, SmeMoves DEF Moved
            <4> QED
                BY <4>1
        <3>2. ~At(vm, "write_ctxbnk")'
            BY <3>1 DEF Reaches, Linked
        <3>3. /\ UNCHANGED <<ctx_id, ctxbank_bitmap, cntxt>>
              /\ \A v \in VMs \ {vm} : reg'[v] = reg[v]
            BY <2>5 DEF CompatibleSme, ConflictingSme, AllocSme, WriteSme, EntryGone, WriteS2c,
                        Stop, smmuVars, smmu_compatible_sme_exists, smmu_alloc_sme, smmu_write_sme,
                        smmu_write_s2c, Shapes
        <3>4. Bound(vm)
            BY <2>5 DEF CompatibleSme, ConflictingSme, AllocSme, WriteSme, EntryGone, WriteS2c,
                        AtSme, Bound
        <3>5. ctx_id[vm] # None
            BY <3>4 DEF BankInv
        <3> QED
            BY <3>1, <3>2, <3>3, <3>5, SameBanks
    <2> QED
        BY <1>2, <2>1, <2>2, <2>4, <2>5 DEF Master
<1> QED
    BY <1>1, <1>2 DEF Next, Hardware, vars

-----------------------------------------------------------------------------
(* EntryInv is kept, when the VMs share no stream and no search was mistaken. *)

\* Entries that some stream matches along with others have a stream in common.
LEMMA TouchMeansShared ==
    ASSUME NEW m1 \in SUBSET Bits, NEW i1 \in SUBSET Bits,
           NEW m2 \in SUBSET Bits, NEW i2 \in SUBSET Bits,
           XOR(i1, i2) \ (m2 \cup m1) = {}
    PROVE  \E s \in Streams : Covers(m1, i1, s) /\ Covers(m2, i2, s)
<1> DEFINE s == (i1 \ m1) \cup (i2 \cap m1)
<1>1. s \in Streams
    BY DEF Streams
<1>2. Covers(m1, i1, s)
    BY DEF Covers, XOR
<1>3. Covers(m2, i2, s)
    <2>1. ASSUME NEW x, x \in XOR(i2, s), x \notin m2 PROVE FALSE
        <3>1. x \notin m1 => x \in XOR(i1, i2)
            BY <2>1 DEF XOR
        <3>2. x \in m1 => x \notin XOR(i2, s)
            BY DEF XOR
        <3> QED
            BY <2>1, <3>1, <3>2
    <2> QED
        BY <2>1 DEF Covers
<1> QED
    BY <1>1, <1>2, <1>3

\* What the configuration says does not change.
LEMMA SameStreams ==
    ASSUME config' = config
    PROVE  /\ \A v : StreamsOf(v)' = StreamsOf(v)
           /\ Disjoint' <=> Disjoint
<1>1. \A v : StreamsOf(v)' = StreamsOf(v)
    BY DEF StreamsOf, Streams, Covers, Elements, XOR
<1> QED
    BY <1>1 DEF Disjoint

\* What an entry carries depends on its mask and id only.
LEMMA SameCarries ==
    ASSUME config' = config, NEW e, smr'[e] = smr[e], NEW vm
    PROVE  Carries(e, vm)' <=> Carries(e, vm)
<1>1. StreamsOf(vm)' = StreamsOf(vm)
    BY SameStreams
<1> QED
    BY <1>1 DEF Carries, Streams, Covers, XOR

\* A VM keeps its bank.
BanksKept == \A v \in VMs : ctx_id[v] # None => ctx_id'[v] = ctx_id[v]

\* A step that leaves the entries as they were, of a master that has none or that has none after.
LEMMA SameEntries ==
    ASSUME EntryInv, NEW vm \in VMs, Unmoved(vm), ~Holds(vm)', ~At(vm, "write_s2c"),
           UNCHANGED <<config, sme_num, smr, s2cr>>, BanksKept,
           \A v \in VMs \ {vm} : reg'[v] = reg[v],
           \A v \in VMs \ {vm} : Holds(v) => reg[v] \in sme_bitmap'
    PROVE  EntryInv'
<1>1. \A v \in VMs : Holds(v)' => v # vm /\ Holds(v) /\ reg'[v] = reg[v]
    BY DEF Holds, Unmoved
<1>2. \A v \in VMs : At(v, "write_s2c")' => v # vm /\ At(v, "write_s2c")
    BY DEF Holds, Unmoved
<1>3. \A e, v : Carries(e, v)' <=> Carries(e, v)
    BY SameCarries
<1>4. Unbound \subseteq Unbound'
    BY DEF Unbound, Unmoved
<1>5. \A v \in VMs : Holds(v)' => reg'[v] \in sme_bitmap'
    BY <1>1
<1>6. \A v, w \in VMs : v # w /\ Holds(v)' /\ Holds(w)' => reg'[v] # reg'[w]
    BY <1>1 DEF EntryInv
<1>7. ASSUME NEW v \in VMs, At(v, "write_s2c")' PROVE Carries(reg[v], v)'
    <2>1. At(v, "write_s2c") /\ reg'[v] = reg[v]
        BY <1>2, <1>7
    <2>2. Carries(reg[v], v)
        BY <2>1 DEF EntryInv
    <2>3. StreamsOf(v)' = StreamsOf(v)
        BY SameStreams
    <2> QED
        BY <2>1, <2>2, <2>3 DEF Carries, Streams, Covers, XOR
<1>8. ASSUME NEW e \in Smes', e \notin Unbound', smr'[e].valid
      PROVE  \E v \in VMs : ctx_id'[v] # None /\ s2cr'[e] = ctx_id'[v] /\ Carries(e, v)'
    <2>1. e \in Smes \ Unbound /\ smr[e].valid
        BY <1>4, <1>8 DEF Smes
    <2>2. PICK v \in VMs : ctx_id[v] # None /\ s2cr[e] = ctx_id[v] /\ Carries(e, v)
        BY <2>1 DEF EntryInv
    <2> QED
        BY <1>3, <2>2 DEF BanksKept
<1> QED
    BY <1>5, <1>6, <1>7, <1>8 DEF EntryInv

\* A search gives up no entry that another master has taken: not one that is not written,
\* or the search was mistaken, and not one that is written, which has streams of its VM only.
LEMMA SearchKeepsEntries ==
    ASSUME Shapes, EntryInv, Disjoint, ~mistaken', NEW vm \in VMs, CompatibleSme(vm)
    PROVE  EntryInv'
<1> DEFINE mask == prep_mask(vm)
           id == Of(vm).id
<1>1. /\ Unmoved(vm) /\ Reaches(vm, {"alloc_sme"})
      /\ At(vm, "compatible") /\ Of(vm) \in Wanted(vm)
    BY SmeMoves, HeadAllowed DEF Moved, CompatibleSme, AtSme, ArmOps
<1>2. /\ UNCHANGED <<config, sme_num, smr, s2cr, ctx_id, reg>>
      /\ sme_bitmap' = sme_bitmap \ (Searched(mask, id) \ Including(mask, id))
      /\ Searched(mask, id) \cap Unwritten(vm) = {}
    BY DEF CompatibleSme, Searches, Remember, smmu_compatible_sme_exists
<1>3. /\ mask \in SUBSET Bits /\ id \in SUBSET Bits
      /\ \A s \in Streams : Covers(mask, id, s) => s \in StreamsOf(vm)
    BY <1>1, WantedBits DEF prep_mask
<1> HIDE DEF mask, id
<1>4. ASSUME NEW v \in VMs, v # vm, Holds(v), reg[v] \in Searched(mask, id) PROVE FALSE
    <2>1. CASE At(v, "write_sme")
        BY <1>2, <1>4, <2>1 DEF Unwritten
    <2>2. CASE At(v, "write_s2c")
        <3> DEFINE e == reg[v]
        <3>1. Carries(e, v) /\ e \in Smes
            BY <1>4, <2>2 DEF EntryInv, Shapes, TypeOK
        <3>2. /\ XOR(smr[e].id, id) \ (mask \cup smr[e].mask) = {}
              /\ smr[e].mask \in SUBSET Bits /\ smr[e].id \in SUBSET Bits
            BY <1>4, <3>1 DEF Searched, Touching, Shapes
        <3>3. PICK s \in Streams : Covers(smr[e].mask, smr[e].id, s) /\ Covers(mask, id, s)
            BY <1>3, <3>2, TouchMeansShared
        <3>4. s \in StreamsOf(v) /\ s \in StreamsOf(vm)
            BY <1>3, <3>1, <3>3 DEF Carries
        <3> QED
            BY <1>4, <3>4 DEF Disjoint
    <2> QED
        BY <1>4, <2>1, <2>2 DEF Holds
<1>5. \A v \in VMs \ {vm} : Holds(v) => reg[v] \in sme_bitmap'
    BY <1>2, <1>4 DEF EntryInv
<1>6. ~Holds(vm)' /\ ~At(vm, "write_s2c")
    BY <1>1 DEF Reaches, Linked, Holds, At
<1> QED
    BY <1>1, <1>2, <1>5, <1>6, SameEntries DEF BanksKept

\* An entry that is taken is nobody's.
LEMMA EntryTaken ==
    ASSUME Shapes, EntryInv, NEW vm \in VMs, AllocSme(vm), ~AddFails(vm)
    PROVE  EntryInv'
<1>1. /\ Unmoved(vm) /\ Reaches(vm, {"write_sme"}) /\ At(vm, "alloc_sme")
    BY SmeMoves DEF Moved, AllocSme, AtSme
<1>2. PICK e \in Smes : smmu_alloc_sme(e) /\ reg' = [reg EXCEPT ![vm] = e]
    BY DEF AllocSme
<1>3. /\ UNCHANGED <<config, ctx_id, sme_num, smr, s2cr>>
      /\ sme_bitmap' = sme_bitmap \cup {e} /\ e \notin sme_bitmap
      /\ reg'[vm] = e /\ \A v \in VMs \ {vm} : reg'[v] = reg[v]
    BY <1>2 DEF AllocSme, Done, Searches, smmu_alloc_sme, FirstFree, Shapes
<1>4. ~At(vm, "write_s2c")' /\ ~At(vm, "write_s2c") /\ ~Holds(vm)
    BY <1>1 DEF Reaches, Linked, At, Holds
<1>5. \A v \in VMs \ {vm} : (Holds(v)' <=> Holds(v)) /\ (At(v, "write_s2c")' <=> At(v, "write_s2c"))
    BY <1>1 DEF Holds, Unmoved
<1>6. \A v \in VMs : Holds(v)' => reg'[v] \in sme_bitmap'
    BY <1>3, <1>5 DEF EntryInv
<1>7. ASSUME NEW v \in VMs, NEW w \in VMs, v # w, Holds(v)', Holds(w)' PROVE reg'[v] # reg'[w]
    <2>1. \A u \in VMs \ {vm} : Holds(u)' => Holds(u) /\ reg'[u] = reg[u] /\ reg[u] # e
        BY <1>3, <1>5 DEF EntryInv
    <2>2. CASE v # vm /\ w # vm
        BY <1>7, <2>1, <2>2 DEF EntryInv
    <2> QED
        BY <1>3, <1>7, <2>1, <2>2
<1>8. ASSUME NEW v \in VMs, At(v, "write_s2c")' PROVE Carries(reg[v], v)'
    <2>1. At(v, "write_s2c") /\ reg'[v] = reg[v]
        BY <1>3, <1>4, <1>5, <1>8
    <2>2. Carries(reg[v], v) /\ StreamsOf(v)' = StreamsOf(v)
        BY <1>3, <2>1, SameStreams DEF EntryInv
    <2> QED
        BY <1>3, <2>1, <2>2 DEF Carries, Streams, Covers, XOR
<1>9. Unbound' = Unbound
    BY <1>3, <1>4, <1>5 DEF Unbound
<1>10. ASSUME NEW f \in Smes', f \notin Unbound', smr'[f].valid
       PROVE  \E v \in VMs : ctx_id'[v] # None /\ s2cr'[f] = ctx_id'[v] /\ Carries(f, v)'
    <2>1. f \in Smes \ Unbound /\ smr[f].valid
        BY <1>3, <1>9, <1>10 DEF Smes
    <2>2. PICK v \in VMs : ctx_id[v] # None /\ s2cr[f] = ctx_id[v] /\ Carries(f, v)
        BY <2>1 DEF EntryInv
    <2>3. Carries(f, v)'
        BY <1>3, <2>2, SameCarries
    <2> QED
        BY <1>3, <2>2, <2>3
<1> QED
    BY <1>6, <1>7, <1>8, <1>10 DEF EntryInv

\* The bank of an entry is written after its streams.
LEMMA BankComesNext ==
    ASSUME Shapes, NEW vm \in VMs, At(vm, "write_sme"), Searches(vm, <<>>)
    PROVE  At(vm, "write_s2c")'
<1> DEFINE t == todo[vm]
<1>1. t \in Seq(Allowed(vm)) /\ Chained(t) /\ t # <<>> /\ Head(t).op = "write_sme"
      /\ vm \notin stopped
    BY DEF Shapes, Orderly, At
<1>2. todo'[vm] = <<>> \o Tail(t) /\ stopped' = stopped
    BY DEF Searches, Shapes
<1> HIDE DEF t
<1>3. 1 \in DOMAIN t /\ Head(t) = t[1] /\ Tail(t) \in Seq(Allowed(vm))
    BY <1>1
<1>4. 1 < Len(t) /\ <<"write_sme", t[1 + 1].op>> \in Link
    BY <1>1, <1>3 DEF Chained, Opening
<1>5. \A op : <<"write_sme", op>> \in Link => op = "write_s2c"
    BY DEF Link
<1>6. t[2].op = "write_s2c"
    BY <1>4, <1>5
<1>7. Tail(t) # <<>> /\ Head(Tail(t)) = t[2]
    BY <1>1, <1>4, SecondOf
<1>8. todo'[vm] = Tail(t)
    BY <1>2, <1>3
<1> QED
    BY <1>1, <1>2, <1>6, <1>7, <1>8 DEF At

\* The streams that are written are those the configuration gives to the VM.
LEMMA StreamsWritten ==
    ASSUME Shapes, EntryInv, NEW vm \in VMs, WriteSme(vm)
    PROVE  EntryInv'
<1> DEFINE e == reg[vm]
<1>1. /\ Unmoved(vm) /\ At(vm, "write_sme") /\ At(vm, "write_s2c")' /\ Of(vm) \in Wanted(vm)
    BY SmeMoves, BankComesNext, HeadAllowed DEF Moved, WriteSme, AtSme, Done, ArmOps
<1>2. ~At(vm, "write_s2c") /\ Holds(vm) /\ Holds(vm)' /\ e \in sme_bitmap /\ e \in Smes
    BY <1>1 DEF At, Holds, EntryInv, Shapes, TypeOK
<1>3. /\ UNCHANGED <<config, ctx_id, reg, sme_num, sme_bitmap, s2cr>>
      /\ smr' = [smr EXCEPT ![e] = [valid |-> TRUE, mask |-> prep_mask(vm), id |-> Of(vm).id]]
    BY DEF WriteSme, Done, Searches, smmu_write_sme
<1>4. /\ smr'[e].mask = prep_mask(vm) /\ smr'[e].id = Of(vm).id
      /\ \A f \in Smes \ {e} : smr'[f] = smr[f]
    BY <1>2, <1>3 DEF Shapes
<1>5. \A v \in VMs \ {vm} : (Holds(v)' <=> Holds(v)) /\ (At(v, "write_s2c")' <=> At(v, "write_s2c"))
    BY <1>1 DEF Holds, Unmoved
<1>6. \A v \in VMs : Holds(v)' => Holds(v)
    BY <1>2, <1>5
<1>7. Carries(e, vm)'
    <2>1. \A s \in Streams : Covers(prep_mask(vm), Of(vm).id, s) => s \in StreamsOf(vm)
        BY <1>1, WantedBits DEF prep_mask
    <2>2. StreamsOf(vm)' = StreamsOf(vm)
        BY <1>3, SameStreams
    <2>3. e' = e
        BY <1>3
    <2> QED
        BY <1>4, <2>1, <2>2, <2>3 DEF Carries, Streams, Covers, XOR
<1> HIDE DEF e
<1>8. ASSUME NEW v \in VMs, At(v, "write_s2c")' PROVE Carries(reg[v], v)'
    <2>1. CASE v = vm
        BY <1>7, <2>1 DEF e
    <2>2. CASE v # vm
        <3>1. At(v, "write_s2c") /\ Holds(v) /\ reg'[v] = reg[v]
            BY <1>3, <1>5, <1>8, <2>2 DEF Holds
        <3>2. reg[v] # e /\ reg[v] \in Smes
            BY <1>2, <2>2, <3>1 DEF EntryInv, Shapes, TypeOK, e
        <3>3. Carries(reg[v], v) /\ StreamsOf(v)' = StreamsOf(v)
            BY <1>3, <3>1, SameStreams DEF EntryInv
        <3> QED
            BY <1>4, <3>1, <3>2, <3>3 DEF Carries, Streams, Covers, XOR
    <2> QED
        BY <2>1, <2>2
<1>9. Unbound \cup {e} \subseteq Unbound'
    BY <1>1, <1>3, <1>5 DEF Unbound, e, At
<1>10. ASSUME NEW f \in Smes', f \notin Unbound', smr'[f].valid
       PROVE  \E v \in VMs : ctx_id'[v] # None /\ s2cr'[f] = ctx_id'[v] /\ Carries(f, v)'
    <2>1. f \in Smes \ Unbound /\ f # e /\ smr'[f] = smr[f]
        BY <1>3, <1>4, <1>9, <1>10 DEF Smes
    <2>2. PICK v \in VMs : ctx_id[v] # None /\ s2cr[f] = ctx_id[v] /\ Carries(f, v)
        BY <1>10, <2>1 DEF EntryInv
    <2>3. Carries(f, v)'
        BY <1>3, <2>1, <2>2, SameCarries
    <2> QED
        BY <1>3, <2>2, <2>3
<1>11. /\ \A v \in VMs : Holds(v)' => reg'[v] \in sme_bitmap'
       /\ \A v, w \in VMs : v # w /\ Holds(v)' /\ Holds(w)' => reg'[v] # reg'[w]
    BY <1>3, <1>6 DEF EntryInv
<1> QED
    BY <1>8, <1>10, <1>11 DEF EntryInv

\* The bank that is written is the VM's.
LEMMA EntryBound ==
    ASSUME Shapes, BankInv, EntryInv, NEW vm \in VMs, WriteS2c(vm)
    PROVE  EntryInv'
<1> DEFINE e == reg[vm]
<1>1. Unmoved(vm) /\ Reaches(vm, {}) /\ At(vm, "write_s2c")
    BY SmeMoves DEF Moved, WriteS2c, AtSme
<1>2. e \in sme_bitmap /\ e \in Smes /\ Carries(e, vm) /\ ctx_id[vm] # None
    BY <1>1 DEF Holds, EntryInv, BankInv, Bound, Shapes, TypeOK
<1>3. /\ UNCHANGED <<config, ctx_id, sme_num, sme_bitmap, smr>>
      /\ s2cr' = [s2cr EXCEPT ![e] = ctx_id[vm]]
      /\ \A v \in VMs \ {vm} : reg'[v] = reg[v]
    BY DEF WriteS2c, Done, Searches, smmu_write_s2c, Shapes
<1>4. s2cr'[e] = ctx_id[vm] /\ \A f \in Smes \ {e} : s2cr'[f] = s2cr[f]
    BY <1>2, <1>3 DEF Shapes
<1>5. ~Holds(vm)' /\ ~At(vm, "write_s2c")'
    BY <1>1 DEF Reaches, Linked, Holds
<1>6. \A v \in VMs \ {vm} : (Holds(v)' <=> Holds(v)) /\ (At(v, "write_s2c")' <=> At(v, "write_s2c"))
    BY <1>1 DEF Holds, Unmoved
<1>7. \A v \in VMs : Holds(v)' => Holds(v) /\ reg'[v] = reg[v]
    BY <1>3, <1>5, <1>6
<1> HIDE DEF e
<1>8. ASSUME NEW v \in VMs, At(v, "write_s2c")' PROVE Carries(reg[v], v)'
    <2>1. At(v, "write_s2c") /\ reg'[v] = reg[v]
        BY <1>3, <1>5, <1>6, <1>8
    <2>2. Carries(reg[v], v) /\ StreamsOf(v)' = StreamsOf(v)
        BY <1>3, <2>1, SameStreams DEF EntryInv
    <2> QED
        BY <1>3, <2>1, <2>2 DEF Carries, Streams, Covers, XOR
<1>9. Unbound \ {e} \subseteq Unbound'
    <2>1. ASSUME NEW v \in VMs, At(v, "write_s2c"), reg[v] # e PROVE reg[v] \in Unbound'
        <3>1. v # vm /\ At(v, "write_s2c")' /\ reg'[v] = reg[v]
            BY <1>3, <1>6, <2>1 DEF e
        <3> QED
            BY <3>1 DEF Unbound
    <2> QED
        BY <2>1 DEF Unbound
<1>10. ASSUME NEW f \in Smes', f \notin Unbound', smr'[f].valid
       PROVE  \E v \in VMs : ctx_id'[v] # None /\ s2cr'[f] = ctx_id'[v] /\ Carries(f, v)'
    <2>1. CASE f = e
        <3>1. Carries(f, vm)'
            BY <1>2, <1>3, <2>1, SameCarries
        <3> QED
            BY <1>2, <1>3, <1>4, <2>1, <3>1
    <2>2. CASE f # e
        <3>1. f \in Smes \ Unbound /\ s2cr'[f] = s2cr[f] /\ smr[f].valid
            BY <1>3, <1>4, <1>9, <1>10, <2>2 DEF Smes
        <3>2. PICK v \in VMs : ctx_id[v] # None /\ s2cr[f] = ctx_id[v] /\ Carries(f, v)
            BY <3>1 DEF EntryInv
        <3>3. Carries(f, v)'
            BY <1>3, <3>2, SameCarries
        <3> QED
            BY <1>3, <3>1, <3>2, <3>3
    <2> QED
        BY <2>1, <2>2
<1>11. /\ \A v \in VMs : Holds(v)' => reg'[v] \in sme_bitmap'
       /\ \A v, w \in VMs : v # w /\ Holds(v)' /\ Holds(w)' => reg'[v] # reg'[w]
    BY <1>3, <1>7 DEF EntryInv
<1> QED
    BY <1>8, <1>10, <1>11 DEF EntryInv

\* EntryInv is kept by every step.
LEMMA EntryInvKept ==
    ASSUME Shapes, BankInv, [Next]_vars, Disjoint, EntryInv, ~mistaken, ~mistaken'
    PROVE  EntryInv'
<1>1. CASE UNCHANGED <<vmVars, smmuVars>>
    <2>1. \A v \in VMs : Of(v)' = Of(v) /\ \A op : At(v, op)' <=> At(v, op)
        BY <1>1, AllUnmoved
    <2>2. UNCHANGED <<config, reg, ctx_id, sme_num, sme_bitmap, smr, s2cr>>
        BY <1>1 DEF vmVars, smmuVars
    <2>3. /\ \A v \in VMs : (Holds(v)' <=> Holds(v)) /\ (At(v, "write_s2c")' <=> At(v, "write_s2c"))
          /\ Unbound' = Unbound
        BY <2>1, <2>2 DEF Holds, Unbound
    <2>4. \A v : StreamsOf(v)' = StreamsOf(v)
        BY <2>2, SameStreams
    <2>5. \A e, v : Carries(e, v)' <=> Carries(e, v)
        BY <2>2, SameCarries
    <2>6. ASSUME NEW v \in VMs PROVE Carries(reg[v], v)' <=> Carries(reg[v], v)
        BY <2>2, <2>4 DEF Carries, Streams, Covers, XOR
    <2> QED
        BY <2>2, <2>3, <2>5, <2>6 DEF EntryInv, Smes
<1>2. ASSUME NEW vm \in VMs, Master(vm) PROVE EntryInv'
    <2>1. CASE \/ AssignInterrupt(vm) \/ InterruptConflict(vm) \/ LoadWord(vm) \/ StoreWord(vm)
               \/ IoVmInit(vm) \/ SkipDevice(vm) \/ AddDevice(vm) \/ WriteContext(vm)
               \/ ReadTail(vm) \/ SubmitCmd(vm) \/ WaitForHead(vm) \/ ArmAddDevice(vm)
        <3>1. Quiet(vm)
            BY <2>1, Quiets
        <3>2. ~Holds(vm)' /\ ~At(vm, "write_s2c")
            BY <3>1 DEF Quiet, Reaches, Elsewhere, Linked, Holds, ArmOps
        <3>3. UNCHANGED <<config, ctx_id, sme_num, sme_bitmap, smr, s2cr>>
            BY <3>1 DEF Quiet, smmuVars
        <3> QED
            BY <3>1, <3>2, <3>3, SameEntries DEF Quiet, BanksKept, EntryInv
    <2>2. CASE AddFails(vm) /\ (At(vm, "alloc_ctxbnk") \/ At(vm, "alloc_sme"))
        <3>1. Unmoved(vm) /\ Reaches(vm, {}) /\ UNCHANGED <<config, ctx_id, reg, smmuVars>>
            BY <2>2, FailureMoves DEF Moved
        <3>2. ~Holds(vm)' /\ ~At(vm, "write_s2c")
            BY <2>2, <3>1 DEF Reaches, Linked, Holds, At
        <3> QED
            BY <3>1, <3>2, SameEntries DEF smmuVars, BanksKept, EntryInv
    <2>3. CASE HasBank(vm) \/ WritesBank(vm) \/ \E b \in Banks : TakesBank(vm, b)
        <3>1. /\ Unmoved(vm)
              /\ Reaches(vm, {"compatible"}) \/ Reaches(vm, {"write_ctxbnk"})
              /\ At(vm, "alloc_ctxbnk") \/ At(vm, "write_ctxbnk")
            BY <2>3, BankMoves DEF Moved, HasBank, WritesBank, TakesBank
        <3>2. ~Holds(vm)' /\ ~At(vm, "write_s2c")
            BY <3>1 DEF Reaches, Linked, Holds, At
        <3>3. UNCHANGED <<config, sme_num, sme_bitmap, smr, s2cr>>
            BY <2>3 DEF HasBank, WritesBank, TakesBank, Done, Searches, smmuVars, smmu_alloc_ctxbnk,
                        smmu_write_ctxbnk
        <3>4. \A v \in VMs \ {vm} : reg'[v] = reg[v]
            BY <2>3 DEF HasBank, WritesBank, TakesBank, Shapes
        <3>5. BanksKept
            BY <2>3 DEF BanksKept, HasBank, WritesBank, TakesBank, BankInv, Shapes, TypeOK
        <3>6. Unmoved(vm)
            BY <2>3, BankMoves DEF Moved
        <3> QED
            BY <3>2, <3>3, <3>4, <3>5, <3>6, SameEntries DEF EntryInv
    <2>4. CASE InitCtx(vm)
        BY <2>2, <2>3, <2>4, BankMoves
    <2>5. CASE CompatibleSme(vm)
        BY <2>5, SearchKeepsEntries
    <2>6. CASE ConflictingSme(vm)
        <3>1. Unmoved(vm) /\ Reaches(vm, {}) /\ At(vm, "compatible")
            BY <2>6, SmeMoves DEF Moved, ConflictingSme, AtSme
        <3>2. ~Holds(vm)' /\ ~At(vm, "write_s2c")
            BY <3>1 DEF Reaches, Linked, Holds, At
        <3>3. UNCHANGED <<config, reg, ctx_id, smmuVars>>
            BY <2>6 DEF ConflictingSme, Stop
        <3> QED
            BY <3>1, <3>2, <3>3, SameEntries DEF smmuVars, BanksKept, EntryInv
    <2>7. CASE AllocSme(vm)
        <3>1. At(vm, "alloc_sme")
            BY <2>7 DEF AllocSme, AtSme
        <3> QED
            BY <2>2, <2>7, <3>1, EntryTaken
    <2>8. CASE WriteSme(vm)
        BY <2>8, StreamsWritten
    <2>9. CASE EntryGone(vm)
        BY <2>9 DEF EntryGone, AtSme, EntryInv, Holds
    <2>10. CASE WriteS2c(vm)
        BY <2>10, EntryBound
    <2> QED
        BY <1>2, <2>1, <2>4, <2>5, <2>6, <2>7, <2>8, <2>9, <2>10 DEF Master
<1> QED
    BY <1>1, <1>2 DEF Next, Hardware, vars

-----------------------------------------------------------------------------
(* The theorem. *)

\* A search that was mistaken stays so.
LEMMA MistakenForEver == ASSUME Shapes, [Next]_vars, mistaken PROVE mistaken'
<1>1. ASSUME NEW vm \in VMs, Master(vm) PROVE mistaken'
    BY <1>1 DEF Master, AssignInterrupt, InterruptConflict, LoadWord, StoreWord, IoVmInit, SkipDevice,
        AddDevice, WriteContext, ReadTail, SubmitCmd, WaitForHead, ArmAddDevice, InitCtx,
        CompatibleSme, ConflictingSme, AllocSme, WriteSme, EntryGone, WriteS2c, Done, DriverStep,
        AddFails, Remember
<1> QED
    BY <1>1 DEF Next, Hardware, vmVars, vars

\* The configuration is constant.
LEMMA ConfigKept == ASSUME [Next]_vars PROVE config' = config
<1>1. ASSUME NEW vm \in VMs, Master(vm) PROVE config' = config
    BY <1>1 DEF Master, AssignInterrupt, InterruptConflict, LoadWord, StoreWord, IoVmInit, SkipDevice,
        AddDevice, WriteContext, ReadTail, SubmitCmd, WaitForHead, ArmAddDevice, InitCtx,
        CompatibleSme, ConflictingSme, AllocSme, WriteSme, EntryGone, WriteS2c, Done, Searches,
        DriverStep, AddFails, Stop
<1> QED
    BY <1>1 DEF Next, Hardware, vmVars, vars

\* The invariant is kept by every step of every master and of the hardware.
LEMMA InvKept == DeviceInv /\ [Next]_vars => DeviceInv'
<1> SUFFICES ASSUME DeviceInv, [Next]_vars PROVE DeviceInv'
    OBVIOUS
<1>1. Shapes' /\ Contexts' /\ BankInv'
    BY ShapesKept, AllContexts, BankInvKept DEF DeviceInv
<1>2. ASSUME Disjoint', ~mistaken' PROVE EntryInv'
    <2>1. Disjoint
        BY <1>2, ConfigKept, SameStreams
    <2>2. ~mistaken
        BY <1>2, MistakenForEver DEF DeviceInv
    <2> QED
        BY <1>2, <2>1, <2>2, EntryInvKept DEF DeviceInv
<1> QED
    BY <1>1, <1>2 DEF DeviceInv

\* The invariant says what DmaConfined says.
LEMMA Confined == DeviceInv => DmaConfined
<1> SUFFICES ASSUME DeviceInv PROVE DmaConfined
    OBVIOUS
<1>1. TypeOK
    BY DEF DeviceInv, Shapes
<1>2. ASSUME NEW d \in Devices
      PROVE  /\ ContextConfined(ddt[d], d)
             /\ cache[d] # None => ContextConfined(cache[d], d)
    BY DEF DeviceInv, Contexts, ContextConfined, Shapes, TypeOK
<1>3. ASSUME Disjoint, ~mistaken, NEW s \in Streams, NEW e \in Smes \ Unbound, Matches(s) = {e}
      PROVE  \E vm \in VMs : cntxt[s2cr[e]] = {vm} /\ s \in StreamsOf(vm)
    <2>1. smr[e].valid /\ Covers(smr[e].mask, smr[e].id, s)
        BY <1>3 DEF Matches, Covers
    <2>2. PICK vm \in VMs : ctx_id[vm] # None /\ s2cr[e] = ctx_id[vm] /\ Carries(e, vm)
        BY <1>3, <2>1 DEF DeviceInv, EntryInv
    <2>3. cntxt[s2cr[e]] = {vm}
        BY <2>2 DEF DeviceInv, BankInv
    <2>4. s \in StreamsOf(vm)
        BY <2>1, <2>2 DEF Carries
    <2> QED
        BY <2>3, <2>4
<1> QED
    BY <1>1, <1>2, <1>3 DEF DmaConfined

\* However the masters of the VMs interleave while they run vm_init_dev, with any
\* configurations and sizes, DmaConfined holds.  For the RISC-V IOMMU that is without
\* exception (RiscvDevicesAreConfined says it alone).  For the SMMU of armv8-a it is about
\* VMs that share no stream, up to a search that has read an entry before it was written
\* (smmu_alloc_sme, smmuv2.c), and about entries other than those between smmu_write_sme and
\* smmu_write_s2c.
THEOREM DevicesAreConfined == Spec => []DmaConfined
BY Initial, InvKept, Confined, PTL DEF Spec

\* The RISC-V IOMMU leads a device only to the page table of a VM it was configured for, as
\* its context stands in memory and as the IOMMU has a copy of it: with any number of
\* masters, though nothing locks the ring, and with VMs that share the device.
ContextsConfined ==
    \A d \in Devices : /\ ContextConfined(ddt[d], d)
                       /\ cache[d] # None => ContextConfined(cache[d], d)

THEOREM RiscvDevicesAreConfined == Spec => []ContextsConfined
<1>1. ASSUME DeviceInv, NEW d \in Devices
      PROVE  /\ ContextConfined(ddt[d], d)
             /\ cache[d] # None => ContextConfined(cache[d], d)
    BY <1>1 DEF DeviceInv, Contexts, ContextConfined, Shapes, TypeOK
<1>2. DeviceInv => ContextsConfined
    BY <1>1 DEF ContextsConfined
<1> QED
    BY <1>2, Initial, InvKept, PTL DEF Spec
=============================================================================
