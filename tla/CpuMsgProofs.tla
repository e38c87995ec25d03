---------------------------- MODULE CpuMsgProofs ----------------------------
(* Proofs about the messages between cores of CpuMsg.tla.                   *)
EXTENDS CpuMsg, FiniteSetTheorems, SequenceTheorems, TLAPS

\* c has a node in hand: between objpool_alloc and list_push, or between
\* list_pop and objpool_free.
Holding(c) == pc[c] \in {"push", "free"}

\* What a core in cpu_send_msg, cpu_get_msg or cpu_msg_handler knows.
Locals ==
    \A c \in Cpus :
        /\ pc[c] \in {"alloc", "push", "ipi", "error"} =>
               /\ event[c] \in Events
               /\ trgt[c] \in Cpus
               /\ calls[c] \in 1 .. MaxCalls
               /\ event[c] = "HART_START" => todo[c] = {}
        /\ Holding(c) => node[c] \in Nodes
        /\ pc[c] = "free" => msg[node[c]] \in Message
        /\ pc[c] = "handle" => cur[c] \in Message
        /\ \A i \in 1 .. Len(event_list[c]) : msg[event_list[c][i]] \in Message

\* The nodes in use are those of the lists and those in hand, and no two of
\* these places hold the same node.
Places ==
    /\ \A d \in bitmap :
        \/ \E c \in Cpus : Holding(c) /\ node[c] = d
        \/ \E c \in Cpus : \E i \in 1 .. Len(event_list[c]) : event_list[c][i] = d
    /\ \A c \in Cpus : Holding(c) => node[c] \in bitmap
    /\ \A c \in Cpus : \A i \in 1 .. Len(event_list[c]) : event_list[c][i] \in bitmap
    /\ \A c, d \in Cpus : Holding(c) /\ Holding(d) /\ node[c] = node[d] => c = d
    /\ \A c, d \in Cpus : \A i \in 1 .. Len(event_list[d]) :
        Holding(c) => node[c] # event_list[d][i]
    /\ \A c, d \in Cpus :
        \A i \in 1 .. Len(event_list[c]), j \in 1 .. Len(event_list[d]) :
            event_list[c][i] = event_list[d][j] => c = d /\ i = j

\* The inductive invariant of the node pool.
PoolInv == TypeOK /\ Locals /\ Places

-----------------------------------------------------------------------------
\* No core holds a node and no list has one before the first call.
LEMMA InitPoolInv == Init => PoolInv
<1> SUFFICES ASSUME Init PROVE PoolInv
  OBVIOUS
<1>1. TypeOK
  BY MsgAssumption DEF Init, TypeOK, PcValues
<1>2. Locals
  BY DEF Init, Locals, Holding
<1>3. Places
  BY DEF Init, Places, Holding
<1> QED
  BY <1>1, <1>2, <1>3 DEF PoolInv

\* Every step keeps the types.
LEMMA NextTypeOK == PoolInv /\ [Next]_vars => TypeOK'
<1> SUFFICES ASSUME PoolInv, [Next]_vars PROVE TypeOK'
  OBVIOUS
<1> USE DEF PoolInv, TypeOK, PcValues, Goto, Events
<1>1. ASSUME NEW c \in Cpus, sbi_ipi_handler(c) PROVE TypeOK'
  BY <1>1, MsgAssumption DEF sbi_ipi_handler, MayCall, SendTo, net, hart
<1>2. ASSUME NEW c \in Cpus, NEW t \in Cpus, sbi_hsm_start_handler(c, t)
      PROVE  TypeOK'
  BY <1>2, MsgAssumption DEF sbi_hsm_start_handler, MayCall, SendTo, net
<1>3. ASSUME NEW c \in Cpus, objpool_alloc(c) PROVE TypeOK'
  BY <1>3 DEF objpool_alloc, hart, sender
<1>4. ASSUME NEW c \in Cpus, AllocFails(c) PROVE TypeOK'
  BY <1>4 DEF AllocFails, net, hart, sender
<1>5. ASSUME NEW c \in Cpus, list_push(c) PROVE TypeOK'
  <2>1. /\ event[c] \in Events /\ trgt[c] \in Cpus /\ calls[c] \in 1 .. MaxCalls
        /\ node[c] \in Nodes
    BY <1>5 DEF list_push, Locals, Holding
  <2>2. [event |-> event[c], from |-> c, no |-> calls[c]] \in Message
    BY <2>1 DEF Message
  <2>3. Append(event_list[trgt[c]], node[c]) \in Seq(Nodes)
    BY <2>1
  <2> QED
    BY <1>5, <2>1, <2>2, <2>3 DEF list_push, hart, sender
<1>6. ASSUME NEW c \in Cpus, interrupts_cpu_sendipi(c) PROVE TypeOK'
  <2>1. trgt[c] \in Cpus /\ todo[c] \subseteq Cpus
    BY <1>6 DEF interrupts_cpu_sendipi, Locals
  <2>2. CASE SendTo(c, todo[c]) /\ UNCHANGED <<event, ctx_lock>>
    BY <1>6, <2>1, <2>2 DEF interrupts_cpu_sendipi, SendTo
  <2>3. ASSUME event' = [event EXCEPT ![c] = NULL], trgt' = [trgt EXCEPT ![c] = NULL],
               UNCHANGED todo, Goto(c, "guest"),
               \/ UNCHANGED ctx_lock
               \/ ctx_lock' = [ctx_lock EXCEPT ![trgt[c]] = FALSE]
        PROVE  TypeOK'
    BY <1>6, <2>1, <2>3 DEF interrupts_cpu_sendipi
  <2> QED
    BY <1>6, <2>2, <2>3 DEF interrupts_cpu_sendipi
<1>7. ASSUME NEW c \in Cpus, Trap(c) PROVE TypeOK'
  BY <1>7 DEF Trap, net, hart, sender
<1>8. ASSUME NEW c \in Cpus, Wakeup(c) PROVE TypeOK'
  BY <1>8 DEF Wakeup, net, hart, sender
<1>9. ASSUME NEW c \in Cpus, cpu_idle_wakeup(c) PROVE TypeOK'
  BY <1>9 DEF cpu_idle_wakeup, hart, sender
<1>10. ASSUME NEW c \in Cpus, list_pop(c) PROVE TypeOK'
  <2>1. event_list[c] \in Seq(Nodes) /\ event_list[c] # <<>>
    BY <1>10 DEF list_pop
  <2>2. Head(event_list[c]) \in Nodes /\ Tail(event_list[c]) \in Seq(Nodes)
    BY <2>1
  <2> QED
    BY <1>10, <2>2 DEF list_pop, hart, sender
<1>11. ASSUME NEW c \in Cpus, objpool_free(c) PROVE TypeOK'
  <2>1. msg[node[c]] \in Message
    BY <1>11 DEF objpool_free, Locals, Holding
  <2> QED
    BY <1>11, <2>1 DEF objpool_free, hart, sender
<1>12. ASSUME NEW c \in Cpus, sbi_msg_handler(c) PROVE TypeOK'
  <2>1. cur[c] \in Message
    BY <1>12 DEF sbi_msg_handler, Locals
  <2>2. Append(handled[c], cur[c]) \in Seq(Message)
    BY <2>1
  <2> QED
    BY <1>12, <2>1, <2>2 DEF sbi_msg_handler, net, sender
<1>13. ASSUME NEW c \in Cpus, HandlerReturns(c) PROVE TypeOK'
  BY <1>13 DEF HandlerReturns, net, hart, sender
<1>14. ASSUME NEW c \in Cpus, TrapAck(c) PROVE TypeOK'
  BY <1>14 DEF TrapAck, hart, sender
<1>15. ASSUME NEW c \in Cpus, FirmwareIpi(c) PROVE TypeOK'
  BY <1>15 DEF FirmwareIpi, hart, sender
<1>16. CASE UNCHANGED vars
  BY <1>16 DEF vars
<1> QED
  BY <1>1, <1>2, <1>3, <1>4, <1>5, <1>6, <1>7, <1>8, <1>9, <1>10, <1>11, <1>12,
     <1>13, <1>14, <1>15, <1>16 DEF Next, Guest, Progress

\* Every step keeps what the cores know.
LEMMA NextLocals == PoolInv /\ [Next]_vars => Locals'
<1> SUFFICES ASSUME PoolInv, [Next]_vars PROVE Locals'
  OBVIOUS
<1> USE DEF PoolInv, TypeOK, Goto, Locals, Holding
<1>1. ASSUME NEW c \in Cpus, sbi_ipi_handler(c) PROVE Locals'
  BY <1>1, MsgAssumption DEF sbi_ipi_handler, MayCall, SendTo, net, hart, Events
<1>2. ASSUME NEW c \in Cpus, NEW t \in Cpus, sbi_hsm_start_handler(c, t)
      PROVE  Locals'
  BY <1>2, MsgAssumption
  DEF sbi_hsm_start_handler, MayCall, SendTo, net, Events
<1>3. ASSUME NEW c \in Cpus, objpool_alloc(c) PROVE Locals'
  BY <1>3 DEF objpool_alloc, hart, sender
<1>4. ASSUME NEW c \in Cpus, AllocFails(c) PROVE Locals'
  BY <1>4 DEF AllocFails, net, hart, sender
<1>5. ASSUME NEW c \in Cpus, list_push(c) PROVE Locals'
  <2>1. /\ event[c] \in Events /\ trgt[c] \in Cpus /\ calls[c] \in 1 .. MaxCalls
        /\ node[c] \in Nodes
    BY <1>5 DEF list_push
  <2>2. [event |-> event[c], from |-> c, no |-> calls[c]] \in Message
    BY <2>1 DEF Message
  <2>3. \A d \in Nodes : msg[d] \in Message => msg'[d] \in Message
    BY <1>5, <2>2 DEF list_push
  <2>4. ASSUME NEW q \in Cpus, NEW i \in 1 .. Len(event_list'[q])
        PROVE  msg'[event_list'[q][i]] \in Message
    <3>1. CASE q # trgt[c] \/ i \in 1 .. Len(event_list[q])
      BY <1>5, <2>1, <2>3, <2>4, <3>1 DEF list_push
    <3>2. CASE q = trgt[c] /\ i = Len(event_list[q]) + 1
      BY <1>5, <2>1, <2>2, <3>2 DEF list_push
    <3> QED
      BY <1>5, <2>1, <3>1, <3>2 DEF list_push
  <2> QED
    BY <1>5, <2>3, <2>4 DEF list_push, hart, sender
<1>6. ASSUME NEW c \in Cpus, interrupts_cpu_sendipi(c) PROVE Locals'
  <2>1. CASE SendTo(c, todo[c]) /\ UNCHANGED <<event, ctx_lock>>
    BY <1>6, <2>1 DEF interrupts_cpu_sendipi, SendTo
  <2>2. CASE ~ (SendTo(c, todo[c]) /\ UNCHANGED <<event, ctx_lock>>)
    BY <1>6, <2>2 DEF interrupts_cpu_sendipi
  <2> QED
    BY <2>1, <2>2
<1>7. ASSUME NEW c \in Cpus, Trap(c) PROVE Locals'
  BY <1>7 DEF Trap, net, hart, sender
<1>8. ASSUME NEW c \in Cpus, Wakeup(c) PROVE Locals'
  BY <1>8 DEF Wakeup, net, hart, sender
<1>9. ASSUME NEW c \in Cpus, cpu_idle_wakeup(c) PROVE Locals'
  BY <1>9 DEF cpu_idle_wakeup, hart, sender
<1>10. ASSUME NEW c \in Cpus, list_pop(c) PROVE Locals'
  <2>1. event_list[c] \in Seq(Nodes) /\ event_list[c] # <<>>
    BY <1>10 DEF list_pop
  <2>2. /\ Head(event_list[c]) = event_list[c][1]
        /\ 1 \in 1 .. Len(event_list[c])
        /\ event_list[c][1] \in Nodes
        /\ \A i \in 1 .. Len(Tail(event_list[c])) :
             /\ i + 1 \in 1 .. Len(event_list[c])
             /\ Tail(event_list[c])[i] = event_list[c][i + 1]
    BY <2>1
  <2> QED
    BY <1>10, <2>2 DEF list_pop, hart, sender
<1>11. ASSUME NEW c \in Cpus, objpool_free(c) PROVE Locals'
  BY <1>11 DEF objpool_free, hart, sender
<1>12. ASSUME NEW c \in Cpus, sbi_msg_handler(c) PROVE Locals'
  BY <1>12 DEF sbi_msg_handler, net, sender
<1>13. ASSUME NEW c \in Cpus, HandlerReturns(c) PROVE Locals'
  BY <1>13 DEF HandlerReturns, net, hart, sender
<1>14. ASSUME NEW c \in Cpus, TrapAck(c) PROVE Locals'
  BY <1>14 DEF TrapAck, hart, sender
<1>15. ASSUME NEW c \in Cpus, FirmwareIpi(c) PROVE Locals'
  BY <1>15 DEF FirmwareIpi, hart, sender
<1>16. CASE UNCHANGED vars
  BY <1>16 DEF vars
<1> QED
  BY <1>1, <1>2, <1>3, <1>4, <1>5, <1>6, <1>7, <1>8, <1>9, <1>10, <1>11, <1>12,
     <1>13, <1>14, <1>15, <1>16 DEF Next, Guest, Progress

\* A step that moves no node keeps every node in its place.
LEMMA PlacesFrame ==
  ASSUME Places, UNCHANGED <<bitmap, event_list, node>>,
         \A c \in Cpus : Holding(c)' = Holding(c)
  PROVE  Places'
BY DEF Places

\* Every step keeps the nodes in one place each: only objpool_alloc, list_push,
\* list_pop and objpool_free move one.
LEMMA NextPlaces == PoolInv /\ [Next]_vars => Places'
<1> SUFFICES ASSUME PoolInv, [Next]_vars PROVE Places'
  OBVIOUS
<1> USE DEF PoolInv
<1>1. ASSUME NEW c \in Cpus, objpool_alloc(c) PROVE Places'
  <2>1. PICK d \in Nodes \ bitmap :
          bitmap' = bitmap \cup {d} /\ node' = [node EXCEPT ![c] = d]
    BY <1>1 DEF objpool_alloc
  <2>2. /\ event_list' = event_list
        /\ \A q \in Cpus : Holding(q)' <=> Holding(q) \/ q = c
        /\ \A q \in Cpus : node'[q] = IF q = c THEN d ELSE node[q]
        /\ ~ Holding(c)
    BY <1>1, <2>1 DEF objpool_alloc, Goto, Holding, TypeOK
  <2> QED
    BY <2>1, <2>2 DEF Places
<1>2. ASSUME NEW c \in Cpus, list_push(c) PROVE Places'
  <2> DEFINE t == trgt[c]
             n == Len(event_list[t])
  <2>1. t \in Cpus /\ event_list \in [Cpus -> Seq(Nodes)] /\ node[c] \in Nodes
    BY <1>2 DEF list_push, Locals, Holding, TypeOK
  <2>2. /\ bitmap' = bitmap
        /\ \A q \in Cpus : Holding(q)' <=> Holding(q) /\ q # c
        /\ \A q \in Cpus : q # c => node'[q] = node[q]
        /\ Holding(c)
    BY <1>2 DEF list_push, Goto, Holding, TypeOK
  <2>3. /\ n \in Nat
        /\ \A q \in Cpus : q # t => event_list'[q] = event_list[q]
        /\ Len(event_list'[t]) = n + 1
        /\ event_list'[t][n + 1] = node[c]
        /\ \A i \in 1 .. n : event_list'[t][i] = event_list[t][i]
    BY <1>2, <2>1 DEF list_push
  <2>4. ASSUME NEW q \in Cpus, NEW i \in 1 .. Len(event_list'[q])
        PROVE  \/ i \in 1 .. Len(event_list[q]) /\ event_list'[q][i] = event_list[q][i]
               \/ q = t /\ i = n + 1 /\ event_list'[q][i] = node[c]
    BY <2>3, <2>4
  <2>5. ASSUME NEW q \in Cpus, NEW i \in 1 .. Len(event_list[q])
        PROVE  i \in 1 .. Len(event_list'[q]) /\ event_list'[q][i] = event_list[q][i]
    BY <2>1, <2>3, <2>5
  <2>6. ASSUME NEW d \in bitmap'
        PROVE  \/ \E q \in Cpus : Holding(q)' /\ node'[q] = d
               \/ \E q \in Cpus : \E i \in 1 .. Len(event_list'[q]) : event_list'[q][i] = d
    <3>1. CASE node[c] = d
      <4>1. n + 1 \in 1 .. Len(event_list'[t]) /\ event_list'[t][n + 1] = d
        BY <2>3, <3>1
      <4> QED
        BY <4>1, <2>1
    <3>2. CASE \E q \in Cpus : q # c /\ Holding(q) /\ node[q] = d
      BY <2>2, <3>2
    <3>3. CASE \E q \in Cpus : \E i \in 1 .. Len(event_list[q]) : event_list[q][i] = d
      BY <2>5, <3>3
    <3> QED
      BY <2>2, <2>6, <3>1, <3>2, <3>3 DEF Places
  <2> HIDE DEF t, n
  <2>7. /\ \A q \in Cpus : Holding(q)' => node'[q] \in bitmap'
        /\ \A q \in Cpus : \A i \in 1 .. Len(event_list'[q]) :
             event_list'[q][i] \in bitmap'
        /\ \A q, r \in Cpus : Holding(q)' /\ Holding(r)' /\ node'[q] = node'[r] => q = r
    BY <2>2, <2>4 DEF Places
  <2>8. \A q, r \in Cpus : \A i \in 1 .. Len(event_list'[r]) :
          Holding(q)' => node'[q] # event_list'[r][i]
    BY <2>2, <2>4 DEF Places
  <2>9. \A q, r \in Cpus :
          \A i \in 1 .. Len(event_list'[q]), j \in 1 .. Len(event_list'[r]) :
            event_list'[q][i] = event_list'[r][j] => q = r /\ i = j
    BY <2>2, <2>4 DEF Places
  <2> QED
    BY <2>6, <2>7, <2>8, <2>9 DEF Places
<1>3. ASSUME NEW c \in Cpus, list_pop(c) PROVE Places'
  <2> DEFINE l == event_list[c]
  <2>1. l \in Seq(Nodes) /\ l # <<>>
    BY <1>3 DEF list_pop, TypeOK
  <2>2. /\ bitmap' = bitmap
        /\ \A q \in Cpus : Holding(q)' <=> Holding(q) \/ q = c
        /\ \A q \in Cpus : q # c => node'[q] = node[q]
        /\ node'[c] = Head(l)
        /\ ~ Holding(c)
        /\ \A q \in Cpus : q # c => event_list'[q] = event_list[q]
        /\ event_list'[c] = Tail(l)
    BY <1>3 DEF list_pop, Goto, Holding, TypeOK
  <2>3. /\ Head(l) = l[1] /\ 1 \in 1 .. Len(l)
        /\ Len(l) \in Nat /\ Len(Tail(l)) = Len(l) - 1
        /\ \A i \in 1 .. Len(l) - 1 : Tail(l)[i] = l[i + 1]
    BY <2>1
  <2>4. ASSUME NEW i \in 1 .. Len(event_list'[c])
        PROVE  /\ i + 1 \in 1 .. Len(l) /\ i + 1 # 1
               /\ event_list'[c][i] = l[i + 1]
    BY <2>2, <2>3, <2>4
  <2>5. ASSUME NEW i \in 1 .. Len(l)
        PROVE  \/ l[i] = node'[c]
               \/ i - 1 \in 1 .. Len(event_list'[c]) /\ event_list'[c][i - 1] = l[i]
    BY <2>2, <2>3, <2>5
  <2>6. ASSUME NEW d \in bitmap'
        PROVE  \/ \E q \in Cpus : Holding(q)' /\ node'[q] = d
               \/ \E q \in Cpus : \E i \in 1 .. Len(event_list'[q]) : event_list'[q][i] = d
    <3>1. CASE \E q \in Cpus : Holding(q) /\ node[q] = d
      BY <2>2, <3>1
    <3>2. CASE \E i \in 1 .. Len(l) : l[i] = d
      BY <2>2, <2>5, <3>2
    <3>3. CASE \E q \in Cpus : \E i \in 1 .. Len(event_list[q]) :
                  q # c /\ event_list[q][i] = d
      BY <2>2, <3>3
    <3> QED
      BY <2>2, <2>6, <3>1, <3>2, <3>3 DEF Places
  <2> HIDE DEF l
  <2>7. /\ \A q \in Cpus : Holding(q)' => node'[q] \in bitmap'
        /\ \A q \in Cpus : \A i \in 1 .. Len(event_list'[q]) :
             event_list'[q][i] \in bitmap'
    <3>1. \A q \in Cpus : Holding(q)' => node'[q] \in bitmap'
      BY <2>2, <2>3 DEF Places, l
    <3>2. \A i \in 1 .. Len(event_list'[c]) : event_list'[c][i] \in bitmap'
      BY <2>2, <2>4 DEF Places, l
    <3>3. \A q \in Cpus : q # c => \A i \in 1 .. Len(event_list'[q]) :
            event_list'[q][i] \in bitmap'
      BY <2>2 DEF Places
    <3> QED
      BY <3>1, <3>2, <3>3
  <2>8. \A q, r \in Cpus : Holding(q)' /\ Holding(r)' /\ node'[q] = node'[r] => q = r
    BY <2>2, <2>3 DEF Places, l
  <2>10. ASSUME NEW q \in Cpus, NEW r \in Cpus, NEW i \in 1 .. Len(event_list'[r]),
                Holding(q)'
         PROVE  node'[q] # event_list'[r][i]
    <3>1. CASE q = c /\ r = c
      <4>1. event_list'[r][i] = l[i + 1] /\ i + 1 \in 1 .. Len(l) /\ i + 1 # 1
        BY <2>4, <3>1
      <4> QED
        BY <4>1, <3>1, <2>2, <2>3 DEF Places, l
    <3>2. CASE q # c /\ r = c
      <4>1. event_list'[r][i] = l[i + 1] /\ i + 1 \in 1 .. Len(l)
        BY <2>4, <3>2
      <4> QED
        BY <4>1, <3>2, <2>2, <2>10 DEF Places, l
    <3>3. CASE q = c /\ r # c
      BY <3>3, <2>2, <2>3 DEF Places, l
    <3>4. CASE q # c /\ r # c
      BY <3>4, <2>2, <2>10 DEF Places
    <3> QED
      BY <3>1, <3>2, <3>3, <3>4
  <2>9. \A q, r \in Cpus :
          \A i \in 1 .. Len(event_list'[q]), j \in 1 .. Len(event_list'[r]) :
            event_list'[q][i] = event_list'[r][j] => q = r /\ i = j
    <3> SUFFICES ASSUME NEW q \in Cpus, NEW r \in Cpus,
                        NEW i \in 1 .. Len(event_list'[q]),
                        NEW j \in 1 .. Len(event_list'[r]),
                        event_list'[q][i] = event_list'[r][j]
                 PROVE  q = r /\ i = j
      OBVIOUS
    <3>1. CASE q = c /\ r = c
      BY <3>1, <2>2, <2>4 DEF Places, l
    <3>2. CASE q = c /\ r # c
      BY <3>2, <2>2, <2>4 DEF Places, l
    <3>3. CASE q # c /\ r = c
      BY <3>3, <2>2, <2>4 DEF Places, l
    <3>4. CASE q # c /\ r # c
      BY <3>4, <2>2 DEF Places
    <3> QED
      BY <3>1, <3>2, <3>3, <3>4
  <2> QED
    BY <2>6, <2>7, <2>8, <2>9, <2>10 DEF Places
<1>4. ASSUME NEW c \in Cpus, objpool_free(c) PROVE Places'
  <2>1. /\ bitmap' = bitmap \ {node[c]}
        /\ event_list' = event_list
        /\ \A q \in Cpus : Holding(q)' <=> Holding(q) /\ q # c
        /\ \A q \in Cpus : q # c => node'[q] = node[q]
        /\ Holding(c)
    BY <1>4 DEF objpool_free, Goto, Holding, TypeOK
  <2> QED
    BY <2>1 DEF Places
<1>5. ASSUME NEW c \in Cpus,
             \/ sbi_ipi_handler(c)
             \/ \E t \in Cpus : sbi_hsm_start_handler(c, t)
             \/ AllocFails(c)
             \/ interrupts_cpu_sendipi(c)
             \/ FirmwareIpi(c)
      PROVE  Places'
  <2>1. UNCHANGED <<bitmap, event_list, node>>
    BY <1>5 DEF sbi_ipi_handler, sbi_hsm_start_handler, AllocFails,
                interrupts_cpu_sendipi, FirmwareIpi, net
  <2>2. \A q \in Cpus : Holding(q)' = Holding(q)
    BY <1>5 DEF sbi_ipi_handler, sbi_hsm_start_handler, MayCall, SendTo, AllocFails,
                interrupts_cpu_sendipi, FirmwareIpi, Goto, Holding, TypeOK
  <2> QED
    BY <2>1, <2>2, PlacesFrame
<1>6. ASSUME NEW c \in Cpus,
             \/ Trap(c)
             \/ Wakeup(c)
             \/ cpu_idle_wakeup(c)
             \/ sbi_msg_handler(c)
             \/ HandlerReturns(c)
             \/ TrapAck(c)
      PROVE  Places'
  <2>1. UNCHANGED <<bitmap, event_list, node>>
    BY <1>6 DEF Trap, Wakeup, cpu_idle_wakeup, sbi_msg_handler, HandlerReturns,
                TrapAck, net
  <2>2. \A q \in Cpus : Holding(q)' = Holding(q)
    BY <1>6 DEF Trap, Wakeup, cpu_idle_wakeup, sbi_msg_handler, HandlerReturns,
                TrapAck, Goto, Holding, TypeOK
  <2> QED
    BY <2>1, <2>2, PlacesFrame
<1>7. CASE UNCHANGED vars
  BY <1>7, PlacesFrame DEF vars, Holding
<1> QED
  BY <1>1, <1>2, <1>3, <1>4, <1>5, <1>6, <1>7 DEF Next, Guest, Progress

\* The pool invariant holds in every reachable state.
THEOREM SpecPoolInv == Spec => []PoolInv
<1>1. PoolInv /\ [Next]_vars => PoolInv'
  BY NextTypeOK, NextLocals, NextPlaces DEF PoolInv
<1> QED
  BY <1>1, InitPoolInv, PTL DEF Spec

-----------------------------------------------------------------------------
\* A list without repetitions has as many elements as positions.
LEMMA DistinctLength ==
  ASSUME NEW S, NEW s \in Seq(S),
         \A i, j \in 1 .. Len(s) : s[i] = s[j] => i = j
  PROVE  Cardinality({s[i] : i \in DOMAIN s}) = Len(s)
<1> DEFINE R == {s[i] : i \in DOMAIN s}
           n == Len(s)
           f == [i \in 1 .. n |-> s[i]]
<1>1. n \in Nat /\ DOMAIN s = 1 .. n
  OBVIOUS
<1>2. f \in Bijection(1 .. n, R)
  <2>1. f \in [1 .. n -> R]
    BY <1>1
  <2>2. \A i, j \in 1 .. n : f[i] = f[j] => i = j
    OBVIOUS
  <2>3. \A r \in R : \E i \in 1 .. n : f[i] = r
    BY <1>1
  <2> HIDE DEF f, R, n
  <2> QED
    BY <2>1, <2>2, <2>3 DEF Bijection, Injection, Surjection, IsInjective
<1>3. ExistsBijection(1 .. n, R)
  BY <1>2 DEF ExistsBijection
<1> HIDE DEF R, n
<1>4. Cardinality(R) = n
  BY <1>1, <1>3, FS_CountingElements
<1> QED
  BY <1>4 DEF R, n

\* NodeOwnership: every node of msg_pool is free, or in one list once, or in
\* the hands of one core (cpu_send_msg, cpu_get_msg over objpool.c and list.h).
THEOREM NodesOwned == Spec => []NodeOwnership
<1>1. PoolInv => NodeOwnership
  <2> SUFFICES ASSUME PoolInv PROVE NodeOwnership
    OBVIOUS
  <2>1. \A c \in Cpus : event_list[c] \in Seq(Nodes)
    BY DEF PoolInv, TypeOK
  <2>2. \A c \in Cpus : DOMAIN event_list[c] = 1 .. Len(event_list[c])
    BY <2>1
  <2>3. \A c \in Cpus : Queued(c) = {event_list[c][i] : i \in 1 .. Len(event_list[c])}
    BY <2>2 DEF Queued
  <2>4. \A c \in Cpus : InHand(c) = IF Holding(c) THEN {node[c]} ELSE {}
    BY DEF InHand, Holding
  <2>5. bitmap = UNION {Queued(c) \cup InHand(c) : c \in Cpus}
    <3>1. ASSUME NEW d \in bitmap
          PROVE  \E c \in Cpus : d \in Queued(c) \cup InHand(c)
      BY <2>3, <2>4, <3>1 DEF PoolInv, Places
    <3>2. ASSUME NEW c \in Cpus, NEW d \in Queued(c) \cup InHand(c)
          PROVE  d \in bitmap
      BY <2>3, <2>4, <3>2 DEF PoolInv, Places
    <3> QED
      BY <3>1, <3>2
  <2>6. ASSUME NEW c \in Cpus
        PROVE  Cardinality(Queued(c)) = Len(event_list[c])
    <3>1. \A i, j \in 1 .. Len(event_list[c]) :
            event_list[c][i] = event_list[c][j] => i = j
      BY DEF PoolInv, Places
    <3> QED
      BY <2>1, <3>1, DistinctLength DEF Queued
  <2>7. \A c, d \in Cpus :
          /\ InHand(c) \cap Queued(d) = {}
          /\ c # d => InHand(c) \cap InHand(d) = {} /\ Queued(c) \cap Queued(d) = {}
    BY <2>3, <2>4 DEF PoolInv, Places
  <2> QED
    BY <2>5, <2>6, <2>7 DEF NodeOwnership, PoolInv
<1> QED
  BY <1>1, SpecPoolInv, PTL

-----------------------------------------------------------------------------
\* The two parts of Inbox: the message in hand and those of the list.
Hand(c) ==
    CASE pc[c] = "free"   -> <<msg[node[c]]>>
      [] pc[c] = "handle" -> <<cur[c]>>
      [] OTHER            -> <<>>
Letters(c) == [i \in DOMAIN event_list[c] |-> msg[event_list[c][i]]]

\* The messages found along a list of nodes form a sequence.
LEMMA AlongList ==
  ASSUME NEW S, NEW M, NEW l \in Seq(S), NEW f, \A i \in 1 .. Len(l) : f[l[i]] \in M
  PROVE  LET L == [i \in DOMAIN l |-> f[l[i]]]
         IN  /\ L \in Seq(M)
             /\ Len(L) = Len(l)
             /\ \A i \in 1 .. Len(l) : L[i] = f[l[i]]
<1>1. DOMAIN l = 1 .. Len(l) /\ Len(l) \in Nat
  OBVIOUS
<1> QED
  BY <1>1

\* Appending to the second of two sequences appends to both.
LEMMA ConcatAppend ==
  ASSUME NEW M, NEW s \in Seq(M), NEW t \in Seq(M), NEW m \in M
  PROVE  s \o Append(t, m) = Append(s \o t, m)
<1>1. Append(t, m) = t \o <<m>>
  BY AppendIsConcat
<1>2. s \o t \in Seq(M) /\ <<m>> \in Seq(M)
  OBVIOUS
<1>3. Append(s \o t, m) = (s \o t) \o <<m>>
  BY <1>2, AppendIsConcat
<1> QED
  BY <1>1, <1>2, <1>3, ConcatAssociative

\* Both are sequences of messages.
LEMMA InboxParts ==
  ASSUME PoolInv, NEW c \in Cpus
  PROVE  /\ Inbox(c) = Hand(c) \o Letters(c)
         /\ Hand(c) \in Seq(Message)
         /\ Letters(c) \in Seq(Message)
         /\ DOMAIN event_list[c] = 1 .. Len(event_list[c])
         /\ Len(Letters(c)) = Len(event_list[c])
         /\ Inbox(c) \in Seq(Message)
<1>1. Inbox(c) = Hand(c) \o Letters(c)
  BY DEF Inbox, Hand, Letters
<1>2. Hand(c) \in Seq(Message)
  BY DEF Hand, PoolInv, Locals
<1>3. event_list[c] \in Seq(Nodes)
  BY DEF PoolInv, TypeOK
<1>4. DOMAIN event_list[c] = 1 .. Len(event_list[c]) /\ Len(event_list[c]) \in Nat
  BY <1>3
<1>5. \A i \in 1 .. Len(event_list[c]) : msg[event_list[c][i]] \in Message
  BY DEF PoolInv, Locals
<1>6. Letters(c) \in Seq(Message) /\ Len(Letters(c)) = Len(event_list[c])
  BY <1>3, <1>5, AlongList DEF Letters
<1> QED
  BY <1>1, <1>2, <1>4, <1>6

\* A core that pushes a message has a node for it and a target.
LEMMA PushReady ==
  ASSUME PoolInv, NEW c \in Cpus, list_push(c)
  PROVE  /\ trgt[c] \in Cpus
         /\ node[c] \in Nodes
         /\ [event |-> event[c], from |-> c, no |-> calls[c]] \in Message
<1>1. /\ trgt[c] \in Cpus /\ node[c] \in Nodes /\ event[c] \in Events
      /\ calls[c] \in 1 .. MaxCalls
  BY DEF PoolInv, Locals, Holding, list_push
<1> QED
  BY <1>1 DEF Message

\* list_push is where a message enters the inbox of its target, at the end.
LEMMA PushSends ==
  ASSUME PoolInv, NEW c \in Cpus, list_push(c), NEW t, t = trgt[c],
         NEW m, m = [event |-> event[c], from |-> c, no |-> calls[c]]
  PROVE  /\ Inbox(t)' = Append(Inbox(t), m)
         /\ \A q \in Cpus : q # t => Inbox(q)' = Inbox(q)
<1>1. t \in Cpus /\ node[c] \in Nodes
  BY PushReady
<1>2. m \in Message
  BY PushReady
<1>3. /\ msg \in [Nodes -> Message \cup {NULL}]
      /\ event_list \in [Cpus -> Seq(Nodes)]
      /\ msg' = [msg EXCEPT ![node[c]] = m]
      /\ event_list' = [event_list EXCEPT ![t] = Append(@, node[c])]
  BY DEF PoolInv, TypeOK, list_push
<1>4. ASSUME NEW q \in Cpus PROVE Hand(q)' = Hand(q)
  <2>1. CASE q = c
    BY <2>1 DEF Hand, list_push, Goto, PoolInv, TypeOK
  <2>2. CASE q # c
    <3>1. pc'[q] = pc[q] /\ node'[q] = node[q] /\ cur'[q] = cur[q]
      BY <2>2 DEF list_push, Goto, PoolInv, TypeOK
    <3>2. pc[q] = "free" => node[q] # node[c] /\ node[q] \in Nodes
      BY <2>2 DEF list_push, PoolInv, Places, Locals, Holding
    <3>3. pc[q] = "free" => msg'[node[q]] = msg[node[q]]
      BY <3>2, <1>3
    <3> QED
      BY <3>1, <3>3 DEF Hand
  <2> QED
    BY <2>1, <2>2
<1>5. \A q \in Cpus : \A i \in 1 .. Len(event_list[q]) :
        msg'[event_list[q][i]] = msg[event_list[q][i]]
  <2>1. \A q \in Cpus : \A i \in 1 .. Len(event_list[q]) :
          event_list[q][i] # node[c] /\ event_list[q][i] \in Nodes
    BY <1>3 DEF list_push, PoolInv, Places, Holding
  <2> QED
    BY <2>1, <1>3
<1>6. ASSUME NEW q \in Cpus, q # t PROVE Letters(q)' = Letters(q)
  <2>1. event_list'[q] = event_list[q]
    BY <1>3, <1>6
  <2> QED
    BY <2>1, <1>5, InboxParts DEF Letters
<1>7. Letters(t)' = Append(Letters(t), m)
  <2>1. event_list'[t] = Append(event_list[t], node[c])
    BY <1>1, <1>3
  <2>2. event_list[t] \in Seq(Nodes) /\ event_list'[t] \in Seq(Nodes)
    BY <1>1, <1>3, <2>1
  <2>3. /\ Len(event_list'[t]) = Len(event_list[t]) + 1
        /\ \A i \in 1 .. Len(event_list[t]) : event_list'[t][i] = event_list[t][i]
        /\ event_list'[t][Len(event_list[t]) + 1] = node[c]
    BY <1>1, <2>1, <2>2
  <2>4. Letters(t) \in Seq(Message) /\ Len(Letters(t)) = Len(event_list[t])
    BY <1>1, InboxParts
  <2>5. \A i \in 1 .. Len(event_list[t]) : Letters(t)[i] = msg[event_list[t][i]]
    BY <2>2, InboxParts DEF Letters
  <2>6. \A i \in 1 .. Len(event_list'[t]) :
          msg'[event_list'[t][i]] =
            IF i = Len(event_list[t]) + 1 THEN m ELSE Letters(t)[i]
    <3> SUFFICES ASSUME NEW i \in 1 .. Len(event_list'[t])
                 PROVE  msg'[event_list'[t][i]] =
                          IF i = Len(event_list[t]) + 1 THEN m ELSE Letters(t)[i]
      OBVIOUS
    <3>1. CASE i = Len(event_list[t]) + 1
      BY <3>1, <1>1, <1>3, <2>3
    <3>2. CASE i # Len(event_list[t]) + 1
      <4>1. i \in 1 .. Len(event_list[t])
        BY <3>2, <2>2, <2>3
      <4> QED
        BY <4>1, <3>2, <1>1, <1>5, <2>3, <2>5
    <3> QED
      BY <3>1, <3>2
  <2>7. \A i \in 1 .. Len(event_list'[t]) : msg'[event_list'[t][i]] \in Message
    BY <1>2, <2>2, <2>3, <2>4, <2>6
  <2>8. /\ Letters(t)' \in Seq(Message)
        /\ Len(Letters(t)') = Len(event_list'[t])
        /\ \A i \in 1 .. Len(event_list'[t]) : Letters(t)'[i] = msg'[event_list'[t][i]]
    <3>1. Letters(t)' \in Seq(Message) /\ Len(Letters(t)') = Len(event_list'[t])
      <4> DEFINE l == event_list'[t]
                 f == msg'
      <4>1. l \in Seq(Nodes) /\ \A i \in 1 .. Len(l) : f[l[i]] \in Message
        BY <2>2, <2>7
      <4> HIDE DEF l, f
      <4>2. /\ [i \in DOMAIN l |-> f[l[i]]] \in Seq(Message)
            /\ Len([i \in DOMAIN l |-> f[l[i]]]) = Len(l)
        BY <4>1, AlongList
      <4> QED
        BY <4>2 DEF l, f, Letters
    <3>2. \A i \in 1 .. Len(event_list'[t]) : Letters(t)'[i] = msg'[event_list'[t][i]]
      BY <2>2 DEF Letters
    <3> QED
      BY <3>1, <3>2
  <2> DEFINE K == Letters(t)
             L == Letters(t)'
  <2> HIDE DEF K, L
  <2>9. /\ Append(K, m) \in Seq(Message) /\ Len(Append(K, m)) = Len(K) + 1
        /\ \A i \in 1 .. Len(K) : Append(K, m)[i] = K[i]
        /\ Append(K, m)[Len(K) + 1] = m
    BY <1>2, <2>4, AppendProperties DEF K
  <2>10. \A i \in 1 .. Len(L) : L[i] = Append(K, m)[i]
    BY <2>3, <2>4, <2>6, <2>8, <2>9 DEF K, L
  <2>11. L = Append(K, m)
    <3>1. L \in Seq(Message) /\ Len(L) = Len(Append(K, m))
      BY <2>3, <2>4, <2>8, <2>9 DEF K, L
    <3> QED
      BY <3>1, <2>9, <2>10, SeqEqual
  <2> QED
    BY <2>11 DEF K, L
<1>8. Inbox(t)' = Append(Inbox(t), m)
  <2>1. Inbox(t)' = Hand(t) \o Append(Letters(t), m)
    <3>1. Inbox(t)' = Hand(t)' \o Letters(t)'
      BY DEF Inbox, Hand, Letters
    <3> QED
      BY <3>1, <1>1, <1>4, <1>7
  <2>2. Inbox(t) = Hand(t) \o Letters(t)
        /\ Hand(t) \in Seq(Message) /\ Letters(t) \in Seq(Message)
    BY <1>1, InboxParts
  <2> QED
    BY <2>1, <2>2, <1>2, ConcatAppend
<1>9. \A q \in Cpus : q # t => Inbox(q)' = Inbox(q)
  BY <1>4, <1>6 DEF Inbox, Hand, Letters
<1> QED
  BY <1>8, <1>9

\* sbi_msg_handler is where a message leaves the inbox of its core: the oldest
\* one, which is the one handled.
LEMMA HandlerTakes ==
  ASSUME PoolInv, NEW c \in Cpus, sbi_msg_handler(c)
  PROVE  /\ Inbox(c) # <<>>
         /\ Head(Inbox(c)) = cur[c]
         /\ Inbox(c)' = Tail(Inbox(c))
         /\ \A q \in Cpus : q # c => Inbox(q)' = Inbox(q)
<1>1. pc[c] = "handle" /\ pc' = [pc EXCEPT ![c] = "pop"]
      /\ UNCHANGED <<msg, event_list, node>> /\ cur' = [cur EXCEPT ![c] = NULL]
  BY DEF sbi_msg_handler, Goto, net
<1>2. cur[c] \in Message /\ cur \in [Cpus -> Message \cup {NULL}]
      /\ pc \in [Cpus -> PcValues]
  BY <1>1 DEF PoolInv, Locals, TypeOK
<1>3. Hand(c) = <<cur[c]>> /\ Hand(c)' = <<>>
  BY <1>1, <1>2 DEF Hand
<1>4. \A q \in Cpus : Letters(q)' = Letters(q)
  BY <1>1 DEF Letters
<1>5. \A q \in Cpus : q # c => Hand(q)' = Hand(q)
  BY <1>1, <1>2 DEF Hand
<1>6. Inbox(c) = <<cur[c]>> \o Letters(c) /\ Letters(c) \in Seq(Message)
  BY <1>3, InboxParts
<1>7. Inbox(c)' = Letters(c)
  <2>1. Inbox(c)' = <<>> \o Letters(c)
    BY <1>3, <1>4 DEF Inbox, Hand, Letters
  <2> QED
    BY <2>1, <1>6
<1>8. \A q \in Cpus : q # c => Inbox(q)' = Inbox(q)
  BY <1>4, <1>5 DEF Inbox, Hand, Letters
<1>9. Inbox(c) # <<>> /\ Head(Inbox(c)) = cur[c] /\ Tail(Inbox(c)) = Letters(c)
  <2> DEFINE L == Letters(c)
             m == cur[c]
  <2> HIDE DEF L, m
  <2>1. L \in Seq(Message) /\ m \in Message /\ Inbox(c) = <<m>> \o L
    BY <1>2, <1>6 DEF L, m
  <2>2. <<m>> \o L # <<>> /\ Head(<<m>> \o L) = m
    BY <2>1
  <2>3. Tail(<<m>> \o L) = L
    <3> DEFINE T == Tail(<<m>> \o L)
    <3>1. /\ <<m>> \o L \in Seq(Message)
          /\ Len(<<m>> \o L) = Len(L) + 1
          /\ \A i \in 1 .. Len(L) : (<<m>> \o L)[i + 1] = L[i]
      BY <2>1
    <3>2. /\ T \in Seq(Message) /\ Len(T) = Len(L)
          /\ \A i \in 1 .. Len(T) : T[i] = (<<m>> \o L)[i + 1]
      BY <2>1, <2>2, <3>1
    <3> HIDE DEF T
    <3>3. T = L
      BY <2>1, <3>1, <3>2, SeqEqual
    <3> QED
      BY <3>3 DEF T
  <2> QED
    BY <2>1, <2>2, <2>3 DEF L, m
<1> QED
  BY <1>7, <1>8, <1>9

\* list_pop moves the oldest message from the list to the hand: the inbox, which
\* is both, stays as it is.
LEMMA PopKeepsInbox ==
  ASSUME PoolInv, NEW c \in Cpus, list_pop(c), NEW q \in Cpus
  PROVE  Inbox(q)' = Inbox(q)
<1> DEFINE l == event_list[c]
<1>1. /\ l \in Seq(Nodes) /\ l # <<>> /\ pc[c] = "pop"
      /\ pc' = [pc EXCEPT ![c] = "free"] /\ node' = [node EXCEPT ![c] = Head(l)]
      /\ event_list' = [event_list EXCEPT ![c] = Tail(l)]
      /\ UNCHANGED <<msg, cur>>
  BY DEF list_pop, Goto, PoolInv, TypeOK
<1>2. /\ pc \in [Cpus -> PcValues] /\ node \in [Cpus -> Nodes \cup {NULL}]
      /\ event_list \in [Cpus -> Seq(Nodes)]
  BY DEF PoolInv, TypeOK
<1>3. CASE q # c
  BY <1>1, <1>2, <1>3 DEF Inbox
<1>4. CASE q = c
  <2>1. Hand(c) = <<>> /\ Hand(c)' = <<msg[Head(l)]>>
    BY <1>1, <1>2 DEF Hand
  <2>2. /\ Len(l) \in Nat /\ Len(l) > 0 /\ Head(l) = l[1]
        /\ Tail(l) \in Seq(Nodes) /\ Len(Tail(l)) = Len(l) - 1
        /\ \A i \in 1 .. Len(l) - 1 : Tail(l)[i] = l[i + 1]
    BY <1>1
  <2>3. \A i \in 1 .. Len(l) : msg[l[i]] \in Message
    BY DEF PoolInv, Locals
  <2>4. event_list'[c] = Tail(l)
    BY <1>1, <1>2
  <2> DEFINE t == Tail(l)
             K == [i \in DOMAIN t |-> msg[t[i]]]
             L == [i \in DOMAIN l |-> msg[l[i]]]
             h == msg[l[1]]
  <2>5. \A i \in 1 .. Len(t) : msg[t[i]] \in Message
    BY <2>2, <2>3
  <2> HIDE DEF t, l
  <2>6. /\ K \in Seq(Message) /\ Len(K) = Len(t)
        /\ \A i \in 1 .. Len(t) : K[i] = msg[t[i]]
    BY <2>2, <2>5, AlongList DEF t
  <2>7. /\ L \in Seq(Message) /\ Len(L) = Len(l)
        /\ \A i \in 1 .. Len(l) : L[i] = msg[l[i]]
    <3>1. L \in Seq(Message) /\ Len(L) = Len(l)
      <4>1. L = Letters(c)
        BY DEF Letters, l
      <4> HIDE DEF L
      <4> QED
        BY <4>1, InboxParts DEF l
    <3>2. \A i \in 1 .. Len(l) : L[i] = msg[l[i]]
      <4>1. DOMAIN l = 1 .. Len(l)
        BY <1>1 DEF l
      <4> QED
        BY <4>1
    <3> QED
      BY <3>1, <3>2
  <2> DEFINE Z == <<h>> \o K
  <2>8. Inbox(c) = L /\ Inbox(c)' = Z
    <3>1. Letters(c) = L /\ Letters(c)' = K
      <4>1. Letters(c) = L
        BY DEF Letters, l
      <4>2. Letters(c)' = [i \in DOMAIN event_list'[c] |-> msg[event_list'[c][i]]]
        BY <1>1 DEF Letters
      <4>3. event_list'[c] = t
        BY <2>4 DEF t
      <4> QED
        BY <4>1, <4>2, <4>3
    <3>2. Inbox(c) = Hand(c) \o Letters(c)
      BY InboxParts
    <3>3. Inbox(c)' = Hand(c)' \o Letters(c)'
      BY DEF Inbox, Hand, Letters
    <3> HIDE DEF L, K
    <3> QED
      BY <3>1, <3>2, <3>3, <2>1, <2>2, <2>7
  <2> HIDE DEF K, L, h
  <2>9. /\ Z \in Seq(Message) /\ Len(Z) = Len(K) + 1 /\ Z[1] = h
        /\ \A i \in 2 .. Len(K) + 1 : Z[i] = K[i - 1]
    BY <2>2, <2>3, <2>6 DEF h
  <2> HIDE DEF Z
  <2>10. \A i \in 2 .. Len(l) : K[i - 1] = msg[l[i]]
    BY <2>2, <2>6 DEF t
  <2>11. Z = L
    <3>1. Len(Z) = Len(L)
      BY <2>2, <2>6, <2>7, <2>9 DEF t
    <3>2. \A i \in 1 .. Len(L) : Z[i] = L[i]
      <4> SUFFICES ASSUME NEW i \in 1 .. Len(L) PROVE Z[i] = L[i]
        OBVIOUS
      <4>1. CASE i = 1
        BY <4>1, <2>7, <2>9 DEF h
      <4>2. CASE i # 1
        BY <4>2, <2>2, <2>6, <2>7, <2>9, <2>10 DEF t
      <4> QED
        BY <4>1, <4>2
    <3> QED
      BY <3>1, <3>2, <2>7, <2>9, SeqEqual
  <2> QED
    BY <1>4, <2>7, <2>8, <2>11
<1> QED
  BY <1>3, <1>4

\* The other steps leave every inbox alone.
LEMMA OthersKeepInbox ==
  ASSUME PoolInv, NEW c \in Cpus,
         Guest(c) \/ (Progress(c) /\ ~ list_push(c) /\ ~ sbi_msg_handler(c)) \/ FirmwareIpi(c),
         NEW q \in Cpus
  PROVE  Inbox(q)' = Inbox(q)
<1> USE DEF Goto
<1>1. pc \in [Cpus -> PcValues] /\ node \in [Cpus -> Nodes \cup {NULL}]
  BY DEF PoolInv, TypeOK
<1>2. CASE Guest(c) \/ FirmwareIpi(c)
  BY <1>1, <1>2 DEF Guest, sbi_ipi_handler, sbi_hsm_start_handler, FirmwareIpi, MayCall,
                    SendTo, Inbox, net
<1>3. CASE objpool_alloc(c) \/ AllocFails(c) \/ interrupts_cpu_sendipi(c)
  BY <1>1, <1>3 DEF objpool_alloc, AllocFails, interrupts_cpu_sendipi, SendTo, Inbox, net
<1>4. CASE Trap(c) \/ Wakeup(c) \/ cpu_idle_wakeup(c) \/ HandlerReturns(c) \/ TrapAck(c)
  BY <1>1, <1>4 DEF Trap, Wakeup, cpu_idle_wakeup, HandlerReturns, TrapAck, Inbox, net
<1>5. CASE list_pop(c)
  BY <1>5, PopKeepsInbox
<1>6. CASE objpool_free(c)
  <2>1. /\ pc[c] = "free" /\ pc' = [pc EXCEPT ![c] = "handle"]
        /\ node' = [node EXCEPT ![c] = NULL] /\ cur' = [cur EXCEPT ![c] = msg[node[c]]]
        /\ UNCHANGED <<msg, event_list>>
    BY <1>6 DEF objpool_free
  <2>2. cur \in [Cpus -> Message \cup {NULL}]
    BY DEF PoolInv, TypeOK
  <2>3. Hand(q)' = Hand(q)
    BY <1>1, <2>1, <2>2 DEF Hand
  <2>4. Letters(q)' = Letters(q)
    BY <2>1 DEF Letters
  <2> QED
    BY <2>3, <2>4 DEF Inbox, Hand, Letters
<1> QED
  BY <1>2, <1>3, <1>4, <1>5, <1>6 DEF Progress

\* handled changes only where a message is handled.
LEMMA HandledFrame ==
  ASSUME NEW c \in Cpus,
         Guest(c) \/ (Progress(c) /\ ~ sbi_msg_handler(c)) \/ FirmwareIpi(c)
  PROVE  UNCHANGED handled
BY DEF Guest, Progress, sbi_ipi_handler, sbi_hsm_start_handler, FirmwareIpi, objpool_alloc,
       AllocFails, list_push, interrupts_cpu_sendipi, Trap, Wakeup, cpu_idle_wakeup,
       list_pop, objpool_free, HandlerReturns, TrapAck

\* ImplementsChannel: cpu_send_msg, cpu_get_msg and cpu_msg_handler implement
\* one first-in first-out inbox per core.  list_push is Send, sbi_msg_handler
\* is Handle, and every other step leaves all inboxes as they are.
THEOREM MessagesAreDelivered == Spec => ImplementsChannel
<1> DEFINE inbox == [c \in Cpus |-> Inbox(c)]
<1>1. Init => Abstract!Init
  <2> SUFFICES ASSUME Init PROVE Abstract!Init
    OBVIOUS
  <2>1. \A c \in Cpus : Inbox(c) = <<>> \o <<>>
    BY DEF Init, Inbox
  <2> QED
    BY <2>1 DEF Abstract!Init, Init
<1>2. PoolInv /\ [Next]_vars => [Abstract!Next]_(Abstract!vars)
  <2> SUFFICES ASSUME PoolInv, [Next]_vars PROVE [Abstract!Next]_(Abstract!vars)
    OBVIOUS
  <2>1. ASSUME NEW c \in Cpus, list_push(c) PROVE Abstract!Next
    <3>1. PICK t \in Cpus : t = trgt[c]
      BY <2>1, PushReady
    <3>2. PICK m \in Message : m = [event |-> event[c], from |-> c, no |-> calls[c]]
      BY <2>1, PushReady
    <3>3. /\ Inbox(t)' = Append(Inbox(t), m)
          /\ \A q \in Cpus : q # t => Inbox(q)' = Inbox(q)
      BY <2>1, <3>1, <3>2, PushSends
    <3>4. UNCHANGED handled
      BY <2>1 DEF list_push
    <3>5. inbox' = [inbox EXCEPT ![t] = Append(inbox[t], m)]
      BY <3>3
    <3>6. Abstract!Send(t, m)
      BY <3>4, <3>5 DEF Abstract!Send
    <3> QED
      BY <3>6 DEF Abstract!Next
  <2>2. ASSUME NEW c \in Cpus, sbi_msg_handler(c) PROVE Abstract!Next
    <3>1. /\ Inbox(c) # <<>> /\ Head(Inbox(c)) = cur[c]
          /\ Inbox(c)' = Tail(Inbox(c))
          /\ \A q \in Cpus : q # c => Inbox(q)' = Inbox(q)
      BY <2>2, HandlerTakes
    <3>2. handled' = [handled EXCEPT ![c] = Append(@, Head(Inbox(c)))]
      BY <2>2, <3>1 DEF sbi_msg_handler
    <3>3. inbox' = [inbox EXCEPT ![c] = Tail(inbox[c])] /\ inbox[c] = Inbox(c)
      BY <3>1
    <3>4. Abstract!Handle(c)
      BY <3>1, <3>2, <3>3 DEF Abstract!Handle
    <3> QED
      BY <3>4 DEF Abstract!Next
  <2>3. ASSUME NEW c \in Cpus,
               Guest(c) \/ (Progress(c) /\ ~ list_push(c) /\ ~ sbi_msg_handler(c))
                        \/ FirmwareIpi(c)
        PROVE  UNCHANGED Abstract!vars
    <3>1. \A q \in Cpus : Inbox(q)' = Inbox(q)
      BY <2>3, OthersKeepInbox
    <3>2. UNCHANGED handled
      BY <2>3, HandledFrame
    <3> QED
      BY <3>1, <3>2 DEF Abstract!vars
  <2>4. CASE UNCHANGED vars
    BY <2>4 DEF vars, Abstract!vars, Inbox
  <2> QED
    BY <2>1, <2>2, <2>3, <2>4 DEF Next
<1> QED
  BY <1>1, <1>2, SpecPoolInv, PTL DEF Spec, ImplementsChannel, Abstract!Spec

-----------------------------------------------------------------------------
\* The two terms of StartsInFlight: cores about to push a HART_START for c, and
\* positions of the inbox of c that hold one.
Sending(c) == {s \in Cpus : /\ event[s] = "HART_START"
                            /\ trgt[s] = c
                            /\ pc[s] \in {"alloc", "push", "error"}}
Starts(q) == {i \in DOMAIN q : q[i].event = "HART_START"}

\* A hart waits for one HART_START, which is either about to be pushed or in
\* the inbox; a hart that does not wait has none on its way.
StartInv ==
    \A c \in Cpus :
        /\ \A s, r \in Sending(c) : s = r
        /\ \A i, j \in Starts(Inbox(c)) : i = j
        /\ Sending(c) = {} \/ Starts(Inbox(c)) = {}
        /\ state[c] = "START_PENDING" <=>
               Sending(c) # {} \/ Starts(Inbox(c)) # {}

\* A message appended to an inbox leaves the others at their positions.
LEMMA StartsAppend ==
  ASSUME NEW q \in Seq(Message), NEW m \in Message
  PROVE  Starts(Append(q, m)) =
           IF m.event = "HART_START" THEN Starts(q) \cup {Len(q) + 1} ELSE Starts(q)
<1>1. /\ DOMAIN q = 1 .. Len(q) /\ Len(q) \in Nat
      /\ DOMAIN Append(q, m) = 1 .. Len(q) + 1
      /\ \A i \in 1 .. Len(q) : Append(q, m)[i] = q[i]
      /\ Append(q, m)[Len(q) + 1] = m
  OBVIOUS
<1> DEFINE a == Append(q, m)
<1> HIDE DEF a
<1>2. \A i : i \in DOMAIN a <=> i \in DOMAIN q \/ i = Len(q) + 1
  BY <1>1 DEF a
<1>3. \A i \in DOMAIN q : a[i] = q[i]
  BY <1>1 DEF a
<1>4. a[Len(q) + 1] = m /\ Len(q) + 1 \notin DOMAIN q
  BY <1>1 DEF a
<1>5. Starts(a) = IF m.event = "HART_START" THEN Starts(q) \cup {Len(q) + 1} ELSE Starts(q)
  BY <1>2, <1>3, <1>4 DEF Starts
<1> QED
  BY <1>5 DEF a

\* Taking the first message moves the others one position down.
LEMMA StartsTail ==
  ASSUME NEW q \in Seq(Message), q # <<>>
  PROVE  /\ 1 \in Starts(q) <=> Head(q).event = "HART_START"
         /\ \A i : i \in Starts(Tail(q)) => i \in Nat /\ i > 0 /\ i + 1 \in Starts(q)
         /\ \A i : i \in Starts(q) /\ i # 1 => i - 1 \in Starts(Tail(q))
<1>1. /\ DOMAIN q = 1 .. Len(q) /\ Len(q) \in Nat /\ Len(q) > 0
      /\ Head(q) = q[1]
      /\ DOMAIN Tail(q) = 1 .. Len(q) - 1
      /\ \A i \in 1 .. Len(q) - 1 : Tail(q)[i] = q[i + 1]
  OBVIOUS
<1> DEFINE t == Tail(q)
<1> HIDE DEF t
<1>2. 1 \in Starts(q) <=> Head(q).event = "HART_START"
  BY <1>1 DEF Starts
<1>3. ASSUME NEW i \in Starts(t) PROVE i \in Nat /\ i > 0 /\ i + 1 \in Starts(q)
  BY <1>1, <1>3 DEF Starts, t
<1>4. ASSUME NEW i \in Starts(q), i # 1 PROVE i - 1 \in Starts(t)
  <2>1. i \in 1 .. Len(q) /\ q[i].event = "HART_START"
    BY <1>1, <1>4 DEF Starts
  <2>2. i - 1 \in 1 .. Len(q) - 1 /\ t[i - 1] = q[i]
    BY <1>1, <1>4, <2>1 DEF t
  <2> QED
    BY <1>1, <2>1, <2>2 DEF Starts, t
<1> QED
  BY <1>2, <1>3, <1>4 DEF t

\* A step that leaves the inbox and the state of every hart alone and moves no
\* core into or out of sending a HART_START keeps StartInv.
LEMMA StartFrame ==
  ASSUME StartInv, UNCHANGED state,
         \A q \in Cpus : Inbox(q)' = Inbox(q),
         \A q \in Cpus : Sending(q)' = Sending(q)
  PROVE  StartInv'
<1>1. \A q \in Cpus : Starts(Inbox(q))' = Starts(Inbox(q))
  BY DEF Starts
<1> QED
  BY <1>1 DEF StartInv

\* No hart waits and no message is on its way initially.
LEMMA InitStartInv == Init => StartInv
<1> SUFFICES ASSUME Init, NEW c \in Cpus
             PROVE  /\ Sending(c) = {} /\ Starts(Inbox(c)) = {}
                    /\ state[c] # "START_PENDING"
  BY DEF StartInv
<1>1. Sending(c) = {}
  BY DEF Init, Sending
<1>2. Inbox(c) = <<>> \o <<>>
  BY DEF Init, Inbox
<1>3. Inbox(c) = <<>>
  BY <1>2
<1>4. Starts(Inbox(c)) = {}
  BY <1>3 DEF Starts
<1> QED
  BY <1>1, <1>4 DEF Init

\* Every step keeps StartInv: sbi_hsm_start_handler creates the one message of
\* a stopped hart, list_push moves it to the inbox, sbi_msg_handler consumes it.
LEMMA NextStartInv == PoolInv /\ StartInv /\ [Next]_vars => StartInv'
<1> SUFFICES ASSUME PoolInv, StartInv, [Next]_vars PROVE StartInv'
  OBVIOUS
<1>0. /\ pc \in [Cpus -> PcValues] /\ event \in [Cpus -> Events \cup {NULL}]
      /\ trgt \in [Cpus -> Cpus \cup {NULL}] /\ todo \in [Cpus -> SUBSET Cpus]
      /\ state \in [Cpus -> {"STOPPED", "START_PENDING", "STARTED"}]
  BY DEF PoolInv, TypeOK
<1>1. ASSUME NEW c \in Cpus, sbi_ipi_handler(c) PROVE StartInv'
  <2>1. \A q \in Cpus : Inbox(q)' = Inbox(q)
    BY <1>1, OthersKeepInbox DEF Guest
  <2>2. \A q \in Cpus : Sending(q)' = Sending(q)
    BY <1>0, <1>1 DEF sbi_ipi_handler, MayCall, SendTo, Goto, Sending
  <2> QED
    BY <1>1, <2>1, <2>2, StartFrame DEF sbi_ipi_handler, hart
<1>2. ASSUME NEW c \in Cpus, NEW t \in Cpus, sbi_hsm_start_handler(c, t)
      PROVE  StartInv'
  <2>1. \A q \in Cpus : Inbox(q)' = Inbox(q)
    BY <1>2, OthersKeepInbox DEF Guest
  <2>2. \A q \in Cpus : Starts(Inbox(q))' = Starts(Inbox(q))
    BY <2>1 DEF Starts
  <2>3. \A q \in Cpus : q # t => Sending(q)' = Sending(q)
    BY <1>0, <1>2 DEF sbi_hsm_start_handler, MayCall, SendTo, Goto, Sending
  <2>4. Sending(t)' = Sending(t) \cup {c}
    BY <1>0, <1>2 DEF sbi_hsm_start_handler, MayCall, SendTo, Goto, Sending
  <2>5. state[t] = "STOPPED" /\ state' = [state EXCEPT ![t] = "START_PENDING"]
    BY <1>2 DEF sbi_hsm_start_handler
  <2>6. Sending(t) = {} /\ Starts(Inbox(t)) = {}
    BY <2>5 DEF StartInv
  <2>7. Sending(t)' = {c} /\ Starts(Inbox(t))' = {} /\ state'[t] = "START_PENDING"
    BY <1>0, <2>2, <2>4, <2>5, <2>6
  <2>8. \A q \in Cpus : q # t => state'[q] = state[q]
    BY <1>0, <2>5
  <2> QED
    BY <2>2, <2>3, <2>7, <2>8 DEF StartInv
<1>3. ASSUME NEW c \in Cpus, list_push(c) PROVE StartInv'
  <2>1. PICK t \in Cpus : t = trgt[c]
    BY <1>3, PushReady
  <2>2. PICK m \in Message : m = [event |-> event[c], from |-> c, no |-> calls[c]]
    BY <1>3, PushReady
  <2>3. Inbox(t)' = Append(Inbox(t), m) /\ \A q \in Cpus : q # t => Inbox(q)' = Inbox(q)
    BY <1>3, <2>1, <2>2, PushSends
  <2>4. Inbox(t) \in Seq(Message)
    BY InboxParts
  <2>5. Starts(Inbox(t))' =
          IF event[c] = "HART_START" THEN Starts(Inbox(t)) \cup {Len(Inbox(t)) + 1}
          ELSE Starts(Inbox(t))
    BY <2>2, <2>3, <2>4, StartsAppend DEF Starts
  <2>6. \A q \in Cpus : q # t => Starts(Inbox(q))' = Starts(Inbox(q))
    BY <2>3 DEF Starts
  <2>7. pc[c] = "push" /\ pc' = [pc EXCEPT ![c] = "ipi"] /\ UNCHANGED <<event, trgt, state>>
    BY <1>3 DEF list_push, Goto, sender, hart
  <2>8. \A q \in Cpus : q # t => Sending(q)' = Sending(q)
    BY <1>0, <2>1, <2>7 DEF Sending
  <2>9. CASE event[c] = "HART_START"
    <3>1. c \in Sending(t) /\ Sending(t)' = Sending(t) \ {c}
      BY <1>0, <2>1, <2>7, <2>9 DEF Sending
    <3>2. Sending(t) = {c} /\ Starts(Inbox(t)) = {} /\ state[t] = "START_PENDING"
      BY <3>1 DEF StartInv
    <3>3. Sending(t)' = {} /\ Starts(Inbox(t))' = {Len(Inbox(t)) + 1}
      BY <2>5, <2>9, <3>1, <3>2
    <3> QED
      BY <2>6, <2>7, <2>8, <3>2, <3>3 DEF StartInv
  <2>10. CASE event[c] # "HART_START"
    <3>1. Sending(t)' = Sending(t)
      BY <1>0, <2>7, <2>10 DEF Sending
    <3> QED
      BY <2>5, <2>6, <2>7, <2>8, <2>10, <3>1 DEF StartInv
  <2> QED
    BY <2>9, <2>10
<1>4. ASSUME NEW c \in Cpus, sbi_msg_handler(c) PROVE StartInv'
  <2>1. /\ Inbox(c) # <<>> /\ Head(Inbox(c)) = cur[c]
        /\ Inbox(c)' = Tail(Inbox(c))
        /\ \A q \in Cpus : q # c => Inbox(q)' = Inbox(q)
    BY <1>4, HandlerTakes
  <2>2. \A q \in Cpus : q # c => Starts(Inbox(q))' = Starts(Inbox(q))
    BY <2>1 DEF Starts
  <2>3. Starts(Inbox(c))' = Starts(Tail(Inbox(c)))
    BY <2>1 DEF Starts
  <2>4. \A q \in Cpus : Sending(q)' = Sending(q)
    BY <1>0, <1>4 DEF sbi_msg_handler, Goto, sender, Sending
  <2>5. Inbox(c) \in Seq(Message)
    BY InboxParts
  <2>6. /\ 1 \in Starts(Inbox(c)) <=> cur[c].event = "HART_START"
        /\ \A i : i \in Starts(Inbox(c))' =>
                 i \in Nat /\ i > 0 /\ i + 1 \in Starts(Inbox(c))
        /\ \A i : i \in Starts(Inbox(c)) /\ i # 1 => i - 1 \in Starts(Inbox(c))'
    BY <2>1, <2>3, <2>5, StartsTail
  <2>7. CASE cur[c].event = "HART_START"
    <3>1. 1 \in Starts(Inbox(c))
      BY <2>6, <2>7
    <3>2. /\ \A i \in Starts(Inbox(c)) : i = 1
          /\ Sending(c) = {} /\ state[c] = "START_PENDING"
      BY <3>1 DEF StartInv
    <3>3. Starts(Inbox(c))' = {}
      BY <2>6, <3>2
    <3>4. state' = [state EXCEPT ![c] = "STARTED"]
      BY <1>4, <2>7, <3>2 DEF sbi_msg_handler
    <3>5. state'[c] = "STARTED" /\ \A q \in Cpus : q # c => state'[q] = state[q]
      BY <1>0, <3>4
    <3> QED
      BY <2>2, <2>4, <3>2, <3>3, <3>5 DEF StartInv
  <2>8. CASE cur[c].event # "HART_START"
    <3>1. 1 \notin Starts(Inbox(c)) /\ UNCHANGED state
      BY <1>4, <2>6, <2>8 DEF sbi_msg_handler
    <3>2. Starts(Inbox(c)) # {} <=> Starts(Inbox(c))' # {}
      BY <2>6, <3>1
    <3>3. \A i, j \in Starts(Inbox(c))' : i = j
      <4> SUFFICES ASSUME NEW i \in Starts(Inbox(c))', NEW j \in Starts(Inbox(c))'
                   PROVE  i = j
        OBVIOUS
      <4>1. i + 1 = j + 1
        BY <2>6 DEF StartInv
      <4> QED
        BY <4>1, <2>6
    <3> QED
      BY <2>2, <2>4, <3>1, <3>2, <3>3 DEF StartInv
  <2> QED
    BY <2>7, <2>8
<1>5. ASSUME NEW c \in Cpus,
             objpool_alloc(c) \/ AllocFails(c) \/ interrupts_cpu_sendipi(c) \/ FirmwareIpi(c)
      PROVE  StartInv'
  <2>1. \A q \in Cpus : Inbox(q)' = Inbox(q)
    <3>1. ~ list_push(c) \/ FirmwareIpi(c)
      BY <1>5 DEF objpool_alloc, AllocFails, interrupts_cpu_sendipi, list_push
    <3>2. ~ sbi_msg_handler(c) \/ FirmwareIpi(c)
      BY <1>5 DEF objpool_alloc, AllocFails, interrupts_cpu_sendipi, sbi_msg_handler
    <3> QED
      BY <1>5, <3>1, <3>2, OthersKeepInbox DEF Progress
  <2>2. UNCHANGED state
    BY <1>5 DEF objpool_alloc, AllocFails, interrupts_cpu_sendipi, FirmwareIpi, hart
  <2>3. \A q \in Cpus : Sending(q)' = Sending(q)
    <3>1. CASE objpool_alloc(c) \/ AllocFails(c) \/ FirmwareIpi(c)
      BY <1>0, <3>1 DEF objpool_alloc, AllocFails, FirmwareIpi, Goto, sender, Sending
    <3>2. CASE interrupts_cpu_sendipi(c)
      <4>1. event[c] = "HART_START" => todo[c] = {}
        BY <3>2 DEF interrupts_cpu_sendipi, PoolInv, Locals
      <4> QED
        BY <1>0, <3>2, <4>1 DEF interrupts_cpu_sendipi, SendTo, Goto, Sending
    <3> QED
      BY <1>5, <3>1, <3>2
  <2> QED
    BY <2>1, <2>2, <2>3, StartFrame
<1>6. ASSUME NEW c \in Cpus,
             \/ Trap(c)
             \/ Wakeup(c)
             \/ cpu_idle_wakeup(c)
             \/ list_pop(c)
             \/ objpool_free(c)
             \/ HandlerReturns(c)
             \/ TrapAck(c)
      PROVE  StartInv'
  <2>1. \A q \in Cpus : Inbox(q)' = Inbox(q)
    <3>1. ~ list_push(c) /\ ~ sbi_msg_handler(c)
      BY <1>6 DEF Trap, Wakeup, cpu_idle_wakeup, list_pop, objpool_free, HandlerReturns,
                  TrapAck, list_push, sbi_msg_handler
    <3> QED
      BY <1>6, <3>1, OthersKeepInbox DEF Progress
  <2>2. UNCHANGED state
    BY <1>6 DEF Trap, Wakeup, cpu_idle_wakeup, list_pop, objpool_free, HandlerReturns,
                TrapAck, hart
  <2>3. \A q \in Cpus : Sending(q)' = Sending(q)
    BY <1>0, <1>6 DEF Trap, Wakeup, cpu_idle_wakeup, list_pop, objpool_free, HandlerReturns,
                      TrapAck, Goto, sender, Sending
  <2> QED
    BY <2>1, <2>2, <2>3, StartFrame
<1>7. CASE UNCHANGED vars
  BY <1>7, StartFrame DEF vars, Inbox, Sending
<1> QED
  BY <1>1, <1>2, <1>3, <1>4, <1>5, <1>6, <1>7 DEF Next, Guest, Progress

\* OneStartPerHart: of the calls of sbi_hsm_start_handler that race for a
\* stopped hart one is accepted, and the hart waits for exactly its message.
THEOREM HartStartedOnce == Spec => []OneStartPerHart
<1>1. PoolInv /\ StartInv => OneStartPerHart
  <2> SUFFICES ASSUME PoolInv, StartInv, NEW c \in Cpus
               PROVE  StartsInFlight(c) = IF state[c] = "START_PENDING" THEN 1 ELSE 0
    BY DEF OneStartPerHart
  <2>1. StartsInFlight(c) = Cardinality(Sending(c)) + Cardinality(Starts(Inbox(c)))
    BY DEF StartsInFlight, Sending, Starts
  <2>2. Cardinality({}) = 0
    BY FS_EmptySet
  <2>3. ASSUME NEW S, S # {}, \A x, y \in S : x = y PROVE Cardinality(S) = 1
    <3>1. PICK x : S = {x}
      BY <2>3
    <3> QED
      BY <3>1, FS_Singleton
  <2>4. CASE state[c] = "START_PENDING"
    <3>1. \/ Cardinality(Sending(c)) = 1 /\ Cardinality(Starts(Inbox(c))) = 0
          \/ Cardinality(Sending(c)) = 0 /\ Cardinality(Starts(Inbox(c))) = 1
      BY <2>2, <2>3, <2>4 DEF StartInv
    <3> QED
      BY <2>1, <2>4, <3>1
  <2>5. CASE state[c] # "START_PENDING"
    <3>1. Cardinality(Sending(c)) = 0 /\ Cardinality(Starts(Inbox(c))) = 0
      BY <2>2, <2>5 DEF StartInv
    <3> QED
      BY <2>1, <2>5, <3>1
  <2> QED
    BY <2>4, <2>5
<1>2. Spec => []StartInv
  BY SpecPoolInv, InitStartInv, NextStartInv, PTL DEF Spec
<1> QED
  BY <1>1, <1>2, SpecPoolInv, PTL
=============================================================================
