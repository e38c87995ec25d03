------------------------------- MODULE CpuMsg -------------------------------
(***************************************************************************)
(* Messages between cores: cpu_send_msg, cpu_get_msg, cpu_msg_handler and  *)
(* cpu_idle_wakeup of src/core/cpu.c over the node pool of objpool.c and   *)
(* the lists of list.h, the RISC-V software interrupt that announces them  *)
(* (interrupts_arch_handle of src/arch/riscv/interrupts.c), and the two    *)
(* users of the service in src/arch/riscv/sbi.c: SEND_IPI and HART_START.  *)
(*                                                                         *)
(* Code under the pool lock or a list lock is one step; everything else a  *)
(* core does to shared state is a step of its own.  A core in hypervisor   *)
(* mode runs with interrupts off, so it takes the software interrupt only  *)
(* from the guest (trap) or out of wfi (idle).  ERROR() spins for ever.    *)
(***************************************************************************)
EXTENDS Integers, Sequences, FiniteSets

CONSTANTS
    Cpus,       \* cores, each running one vCPU of the same VM
    Booted,     \* the cores whose vCPU has id 0: started at boot
    Nodes,      \* msg_pool: CPU_MSG_POOL_SIZE nodes
    NULL,       \* the null pointer
    Masks,      \* hart masks the guests send IPIs to
    MaxCalls    \* bound: SBI calls each guest core makes

ASSUME MsgAssumption ==
    /\ IsFiniteSet(Nodes) /\ IsFiniteSet(Cpus)
    /\ Booted \subseteq Cpus
    /\ NULL \notin Nodes \cup Cpus
    /\ Masks \subseteq SUBSET Cpus
    /\ MaxCalls \in Nat

Events  == {"SEND_IPI", "HART_START"}

\* struct cpu_msg; from and no only tell the messages of a sender apart.
Message == [event : Events, from : Cpus, no : 1 .. MaxCalls]

VARIABLES
    bitmap,         \* msg_pool.bitmap: the nodes in use
    msg,            \* node->msg
    event_list,     \* cpu_if(c)->event_list
    msip,           \* an IPI the firmware has not forwarded yet
    ssip,           \* sip.SSIP of the core
    handling_msgs,  \* cpu()->handling_msgs
    state,          \* vcpu->arch.sbi_ctx.state of the core's vCPU
    ctx_lock,       \* vcpu->arch.sbi_ctx.lock
    pc,             \* where the core is
    path,           \* why it is in cpu_msg_handler
    todo,           \* hart mask still to be served by sbi_ipi_handler, or the
                    \* one target of sbi_hsm_start_handler
    event,          \* event of the message being sent, NULL outside a call
    trgt,           \* trgtcpu of the cpu_send_msg in progress
    node,           \* the node the core has in hand
    cur,            \* local msg of cpu_msg_handler
    calls,          \* number of SBI calls of the core so far
    handled         \* history: messages the core has handled

net    == <<bitmap, msg, event_list, msip, ssip>>
hart   == <<state, ctx_lock>>
sender == <<todo, event, trgt, calls>>
vars   == <<bitmap, msg, event_list, msip, ssip, handling_msgs, state, ctx_lock,
            pc, path, todo, event, trgt, node, cur, calls, handled>>

PcValues == {"guest", "idle", "alloc", "push", "ipi", "clear", "pop", "free",
             "handle", "ack", "error"}

Goto(c, label) == pc' = [pc EXCEPT ![c] = label]

-----------------------------------------------------------------------------
\* vcpu_arch_init: the vCPU with id 0 is started, the others wait in cpu_idle.
Init ==
    /\ bitmap = {}
    /\ msg = [d \in Nodes |-> NULL]
    /\ event_list = [c \in Cpus |-> <<>>]
    /\ msip = [c \in Cpus |-> FALSE]
    /\ ssip = [c \in Cpus |-> FALSE]
    /\ handling_msgs = [c \in Cpus |-> FALSE]
    /\ state = [c \in Cpus |-> IF c \in Booted THEN "STARTED" ELSE "STOPPED"]
    /\ ctx_lock = [c \in Cpus |-> FALSE]
    /\ pc = [c \in Cpus |-> IF c \in Booted THEN "guest" ELSE "idle"]
    /\ path = [c \in Cpus |-> NULL]
    /\ todo = [c \in Cpus |-> {}]
    /\ event = [c \in Cpus |-> NULL]
    /\ trgt = [c \in Cpus |-> NULL]
    /\ node = [c \in Cpus |-> NULL]
    /\ cur = [c \in Cpus |-> NULL]
    /\ calls = [c \in Cpus |-> 0]
    /\ handled = [c \in Cpus |-> <<>>]

\* The guest of c executes (a pending software interrupt would be taken first)
\* and may make one more call.
MayCall(c) == pc[c] = "guest" /\ ~ssip[c] /\ calls[c] < MaxCalls

\* The loop of sbi_ipi_handler over the hart mask: cpu_send_msg to some hart of
\* mask, the rest later.
SendTo(c, mask) ==
    \E t \in mask :
        /\ trgt' = [trgt EXCEPT ![c] = t]
        /\ todo' = [todo EXCEPT ![c] = mask \ {t}]
        /\ Goto(c, "alloc")

\* sbi_ipi_handler: one message for each hart of the mask.
sbi_ipi_handler(c) ==
    /\ MayCall(c)
    /\ \E mask \in Masks : SendTo(c, mask)
    /\ event' = [event EXCEPT ![c] = "SEND_IPI"]
    /\ calls' = [calls EXCEPT ![c] = @ + 1]
    /\ UNCHANGED <<net, handling_msgs, hart, path, node, cur, handled>>

\* Mutant of sbi_hsm_start_handler: a pending start is not refused.
StartAgain(c, t) ==
    /\ MayCall(c)
    /\ t # c
    /\ ~ctx_lock[t]
    /\ state[t] # "STARTED"
    /\ ctx_lock' = [ctx_lock EXCEPT ![t] = TRUE]
    /\ state' = [state EXCEPT ![t] = "START_PENDING"]
    /\ SendTo(c, {t})
    /\ event' = [event EXCEPT ![c] = "HART_START"]
    /\ calls' = [calls EXCEPT ![c] = @ + 1]
    /\ UNCHANGED <<net, handling_msgs, path, node, cur, handled>>

\* sbi_hsm_start_handler for the hart on core t: only a stopped hart is sent
\* the message, and its lock is held until the message is out.  The calls that
\* are refused change nothing.
sbi_hsm_start_handler(c, t) ==
    /\ MayCall(c)
    /\ t # c
    /\ ~ctx_lock[t]
    /\ state[t] = "STOPPED"
    /\ ctx_lock' = [ctx_lock EXCEPT ![t] = TRUE]
    /\ state' = [state EXCEPT ![t] = "START_PENDING"]
    /\ SendTo(c, {t})
    /\ event' = [event EXCEPT ![c] = "HART_START"]
    /\ calls' = [calls EXCEPT ![c] = @ + 1]
    /\ UNCHANGED <<net, handling_msgs, path, node, cur, handled>>

\* objpool_alloc: a free node, marked under the pool lock.
objpool_alloc(c) ==
    /\ pc[c] = "alloc"
    /\ \E d \in Nodes \ bitmap :
        /\ bitmap' = bitmap \cup {d}
        /\ node' = [node EXCEPT ![c] = d]
    /\ Goto(c, "push")
    /\ UNCHANGED <<msg, event_list, msip, ssip, handling_msgs, hart, path,
                   sender, cur, handled>>

\* No node left: ERROR("cant allocate msg node").
AllocFails(c) ==
    /\ pc[c] = "alloc"
    /\ bitmap = Nodes
    /\ Goto(c, "error")
    /\ UNCHANGED <<net, handling_msgs, hart, path, sender, node, cur, handled>>

\* Mutant of list_push: at the head of the list.
PushAtHead(c) ==
    /\ pc[c] = "push"
    /\ msg' = [msg EXCEPT ![node[c]] =
                  [event |-> event[c], from |-> c, no |-> calls[c]]]
    /\ event_list' = [event_list EXCEPT ![trgt[c]] = <<node[c]>> \o @]
    /\ node' = [node EXCEPT ![c] = NULL]
    /\ Goto(c, "ipi")
    /\ UNCHANGED <<bitmap, msip, ssip, handling_msgs, hart, path, sender, cur,
                   handled>>

\* node->msg = *msg and list_push.
list_push(c) ==
    /\ pc[c] = "push"
    /\ msg' = [msg EXCEPT ![node[c]] =
                  [event |-> event[c], from |-> c, no |-> calls[c]]]
    /\ event_list' = [event_list EXCEPT ![trgt[c]] = Append(@, node[c])]
    /\ node' = [node EXCEPT ![c] = NULL]
    /\ Goto(c, "ipi")
    /\ UNCHANGED <<bitmap, msip, ssip, handling_msgs, hart, path, sender, cur,
                   handled>>

\* interrupts_cpu_sendipi, and the next hart of the mask.
interrupts_cpu_sendipi(c) ==
    /\ pc[c] = "ipi"
    /\ msip' = [msip EXCEPT ![trgt[c]] = TRUE]
    /\ \/ /\ SendTo(c, todo[c])
          /\ UNCHANGED <<event, ctx_lock>>
       \/ /\ todo[c] = {}
          /\ ctx_lock' = IF event[c] = "HART_START"
                         THEN [ctx_lock EXCEPT ![trgt[c]] = FALSE] ELSE ctx_lock
          /\ event' = [event EXCEPT ![c] = NULL]
          /\ trgt' = [trgt EXCEPT ![c] = NULL]
          /\ UNCHANGED todo
          /\ Goto(c, "guest")
    /\ UNCHANGED <<bitmap, msg, event_list, ssip, handling_msgs, state, path,
                   calls, node, cur, handled>>

\* The firmware turns the IPI into a software interrupt of the target.
FirmwareIpi(c) ==
    /\ msip[c]
    /\ msip' = [msip EXCEPT ![c] = FALSE]
    /\ ssip' = [ssip EXCEPT ![c] = TRUE]
    /\ UNCHANGED <<bitmap, msg, event_list, handling_msgs, hart, pc, path,
                   sender, node, cur, handled>>

-----------------------------------------------------------------------------
\* interrupts_arch_handle, SCAUSE_CODE_SSI, up to the loop of cpu_msg_handler.
Trap(c) ==
    /\ pc[c] = "guest"
    /\ ssip[c]
    /\ path' = [path EXCEPT ![c] = "trap"]
    /\ handling_msgs' = [handling_msgs EXCEPT ![c] = TRUE]
    /\ Goto(c, "pop")
    /\ UNCHANGED <<net, hart, sender, node, cur, handled>>

\* wfi returns and cpu_idle_wakeup finds the interrupt pending ...
Wakeup(c) ==
    /\ pc[c] = "idle"
    /\ ssip[c]
    /\ Goto(c, "clear")
    /\ UNCHANGED <<net, handling_msgs, hart, path, sender, node, cur, handled>>

\* ... and clears it before it looks at the list.
cpu_idle_wakeup(c) ==
    /\ pc[c] = "clear"
    /\ ssip' = [ssip EXCEPT ![c] = FALSE]
    /\ path' = [path EXCEPT ![c] = "idle"]
    /\ handling_msgs' = [handling_msgs EXCEPT ![c] = TRUE]
    /\ Goto(c, "pop")
    /\ UNCHANGED <<bitmap, msg, event_list, msip, hart, sender, node, cur,
                   handled>>

\* cpu_get_msg: list_pop takes the oldest node off the core's own list.
list_pop(c) ==
    /\ pc[c] = "pop"
    /\ event_list[c] # <<>>
    /\ node' = [node EXCEPT ![c] = Head(event_list[c])]
    /\ event_list' = [event_list EXCEPT ![c] = Tail(@)]
    /\ Goto(c, "free")
    /\ UNCHANGED <<bitmap, msg, msip, ssip, handling_msgs, hart, path, sender,
                   cur, handled>>

\* Mutant of objpool_free: the bit stays set.
NodeNotFreed(c) ==
    /\ pc[c] = "free"
    /\ cur' = [cur EXCEPT ![c] = msg[node[c]]]
    /\ node' = [node EXCEPT ![c] = NULL]
    /\ Goto(c, "handle")
    /\ UNCHANGED <<net, handling_msgs, hart, path, sender, handled>>

\* *msg = node->msg and objpool_free.
objpool_free(c) ==
    /\ pc[c] = "free"
    /\ cur' = [cur EXCEPT ![c] = msg[node[c]]]
    /\ bitmap' = bitmap \ {node[c]}
    /\ node' = [node EXCEPT ![c] = NULL]
    /\ Goto(c, "handle")
    /\ UNCHANGED <<msg, event_list, msip, ssip, handling_msgs, hart, path,
                   sender, handled>>

\* sbi_msg_handler: SEND_IPI raises the guest's software interrupt (only the
\* guest sees it; handled records it), HART_START starts the hart, if that is
\* what it waits for, under its lock.
sbi_msg_handler(c) ==
    /\ pc[c] = "handle"
    /\ \/ /\ cur[c].event = "SEND_IPI"
          /\ UNCHANGED state
       \/ /\ cur[c].event = "HART_START"
          /\ ~ctx_lock[c]
          /\ state' = IF state[c] = "START_PENDING"
                      THEN [state EXCEPT ![c] = "STARTED"] ELSE state
    /\ handled' = [handled EXCEPT ![c] = Append(@, cur[c])]
    /\ cur' = [cur EXCEPT ![c] = NULL]
    /\ Goto(c, "pop")
    /\ UNCHANGED <<net, handling_msgs, ctx_lock, path, sender, node>>

\* Mutant of HandlerReturns: one message per interrupt ("if", not "while").
ReturnsEarly(c) ==
    /\ pc[c] = "pop"
    /\ handling_msgs' = [handling_msgs EXCEPT ![c] = FALSE]
    /\ Goto(c, IF path[c] = "trap" THEN "ack"
               ELSE IF state[c] = "STARTED" THEN "guest" ELSE "idle")
    /\ path' = [path EXCEPT ![c] = NULL]
    /\ UNCHANGED <<net, hart, sender, node, cur, handled>>

\* The list is empty: cpu_msg_handler returns.  cpu_idle_wakeup then runs the
\* vCPU, or idles again if it is not started.
HandlerReturns(c) ==
    /\ pc[c] = "pop"
    /\ event_list[c] = <<>>
    /\ handling_msgs' = [handling_msgs EXCEPT ![c] = FALSE]
    /\ Goto(c, IF path[c] = "trap" THEN "ack"
               ELSE IF state[c] = "STARTED" THEN "guest" ELSE "idle")
    /\ path' = [path EXCEPT ![c] = NULL]
    /\ UNCHANGED <<net, hart, sender, node, cur, handled>>

\* Back in interrupts_arch_handle: the interrupt is cleared after the handler.
TrapAck(c) ==
    /\ pc[c] = "ack"
    /\ ssip' = [ssip EXCEPT ![c] = FALSE]
    /\ Goto(c, "guest")
    /\ UNCHANGED <<bitmap, msg, event_list, msip, handling_msgs, hart, path,
                   sender, node, cur, handled>>

-----------------------------------------------------------------------------
\* What the core does by itself once it is in the hypervisor or interrupted.
Progress(c) ==
    \/ objpool_alloc(c)
    \/ AllocFails(c)
    \/ list_push(c)
    \/ interrupts_cpu_sendipi(c)
    \/ Trap(c)
    \/ Wakeup(c)
    \/ cpu_idle_wakeup(c)
    \/ list_pop(c)
    \/ objpool_free(c)
    \/ sbi_msg_handler(c)
    \/ HandlerReturns(c)
    \/ TrapAck(c)

\* What its guest may ask for.
Guest(c) == sbi_ipi_handler(c) \/ \E t \in Cpus : sbi_hsm_start_handler(c, t)

Next == \E c \in Cpus : Guest(c) \/ Progress(c) \/ FirmwareIpi(c)

Spec == Init /\ [][Next]_vars

\* Cores keep executing and the firmware forwards every IPI; guests need not
\* call anything.
FairSpec == Spec /\ \A c \in Cpus : WF_vars(Progress(c)) /\ WF_vars(FirmwareIpi(c))

-----------------------------------------------------------------------------
\* Types.
TypeOK ==
    /\ bitmap \in SUBSET Nodes
    /\ msg \in [Nodes -> Message \cup {NULL}]
    /\ event_list \in [Cpus -> Seq(Nodes)]
    /\ msip \in [Cpus -> BOOLEAN]
    /\ ssip \in [Cpus -> BOOLEAN]
    /\ handling_msgs \in [Cpus -> BOOLEAN]
    /\ state \in [Cpus -> {"STOPPED", "START_PENDING", "STARTED"}]
    /\ ctx_lock \in [Cpus -> BOOLEAN]
    /\ pc \in [Cpus -> PcValues]
    /\ path \in [Cpus -> {"trap", "idle", NULL}]
    /\ todo \in [Cpus -> SUBSET Cpus]
    /\ event \in [Cpus -> Events \cup {NULL}]
    /\ trgt \in [Cpus -> Cpus \cup {NULL}]
    /\ node \in [Cpus -> Nodes \cup {NULL}]
    /\ cur \in [Cpus -> Message \cup {NULL}]
    /\ calls \in [Cpus -> 0 .. MaxCalls]
    /\ handled \in [Cpus -> Seq(Message)]

\* Positions a node can be in: in a list, or in the hands of one core.
Queued(c) == {event_list[c][i] : i \in DOMAIN event_list[c]}
InHand(c) == IF pc[c] \in {"push", "free"} THEN {node[c]} ELSE {}

\* Every node in use is in exactly one place (one list, once, or one core's
\* hands) and every other node is free: none is leaked, none is shared, and
\* ERROR("cant allocate msg node") means that all of them hold live messages.
NodeOwnership ==
    /\ TypeOK
    /\ bitmap = UNION {Queued(c) \cup InHand(c) : c \in Cpus}
    /\ \A c \in Cpus : Cardinality(Queued(c)) = Len(event_list[c])
    /\ \A c, d \in Cpus :
        /\ InHand(c) \cap Queued(d) = {}
        /\ c # d => /\ InHand(c) \cap InHand(d) = {}
                    /\ Queued(c) \cap Queued(d) = {}

\* The messages for c that it has not handled: the one in hand, then its list.
Inbox(c) ==
    (CASE pc[c] = "free"   -> <<msg[node[c]]>>
       [] pc[c] = "handle" -> <<cur[c]>>
       [] OTHER            -> <<>>)
    \o [i \in DOMAIN event_list[c] |-> msg[event_list[c][i]]]

\* However nodes are recycled between senders and receivers, every message is
\* handled at most once, unaltered, and in the order in which it was pushed.
Abstract == INSTANCE Channel
    WITH Procs <- Cpus, inbox <- [c \in Cpus |-> Inbox(c)]
ImplementsChannel == Abstract!Spec

\* HART_START messages on their way to c, from the request to the handler.
StartsInFlight(c) ==
    Cardinality({s \in Cpus : /\ event[s] = "HART_START"
                              /\ trgt[s] = c
                              /\ pc[s] \in {"alloc", "push", "error"}})
    + Cardinality({i \in DOMAIN Inbox(c) : Inbox(c)[i].event = "HART_START"})

\* A stopped hart is started by exactly one of the calls that race for it: the
\* hart is START_PENDING exactly while one HART_START is on its way to it.
OneStartPerHart ==
    \A c \in Cpus :
        StartsInFlight(c) = IF state[c] = "START_PENDING" THEN 1 ELSE 0

\* An accepted hart start completes (unless the caller ran out of nodes): the
\* target idles, and the idle path cannot miss the message.
AcceptedStartCompletes ==
    \A c \in Cpus :
        state[c] = "START_PENDING"
            ~> \/ state[c] = "STARTED"
               \/ \E s \in Cpus : pc[s] = "error"
=============================================================================
