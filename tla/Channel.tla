------------------------------- MODULE Channel -------------------------------
(***************************************************************************)
(* What inter-core messaging promises, independently of node pools, lists  *)
(* and interrupts: each core has one first-in first-out inbox, a sender    *)
(* appends to it and its owner handles the messages one by one, each       *)
(* exactly once and in the order in which they were sent.  CpuMsg.tla      *)
(* shows that cpu_send_msg and cpu_msg_handler implement it.               *)
(***************************************************************************)
EXTENDS Sequences

CONSTANTS Procs, Message

VARIABLES
    inbox,      \* inbox[p]: messages sent to p that it has not handled
    handled     \* handled[p]: messages p has handled, in that order

vars == <<inbox, handled>>

Init ==
    /\ inbox = [p \in Procs |-> <<>>]
    /\ handled = [p \in Procs |-> <<>>]

Send(p, m) ==
    /\ inbox' = [inbox EXCEPT ![p] = Append(@, m)]
    /\ UNCHANGED handled

Handle(p) ==
    /\ inbox[p] # <<>>
    /\ inbox' = [inbox EXCEPT ![p] = Tail(@)]
    /\ handled' = [handled EXCEPT ![p] = Append(@, Head(inbox[p]))]

Next == \E p \in Procs : (\E m \in Message : Send(p, m)) \/ Handle(p)

Spec == Init /\ [][Next]_vars
=============================================================================
