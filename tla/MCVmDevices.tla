---------------------------- MODULE MCVmDevices ----------------------------
(* One configuration for each thing that can happen to a VM's devices. *)
EXTENDS VmDevices

v1 == "v1"
v2 == "v2"

Both(a, b) == [vm \in {v1, v2} |-> IF vm = v1 THEN a ELSE b]
NoDevices ==
    [arch |-> "riscv", init |-> "ready", irqs |-> Both(<<>>, <<>>), groups |-> Both(<<>>, <<>>),
     devs |-> Both(<<>>, <<>>), gmask |-> Both({}, {}),
     smes |-> 4, banks |-> 2]
Arm == [NoDevices EXCEPT !.arch = "armv8-a", !.init = "none"]
G(mask, id) == [mask |-> mask, id |-> id]

MCConfigs ==
    { \* one master uses the ring, which is smaller than its commands
      [NoDevices EXCEPT !.devs = Both(<<{0}, {}, {0}, {1}>>, <<>>), !.irqs = Both(<<7>>, <<8>>)],
      \* two masters use the ring, and another device
      [NoDevices EXCEPT !.devs = Both(<<{0}>>, <<{1}>>)],
      \* both VMs have the device, and an interrupt
      [NoDevices EXCEPT !.devs = Both(<<{0}>>, <<{0}>>), !.irqs = Both(<<7>>, <<7>>)],
      \* there is no IOMMU, it was set up in part, the directory is too short
      [NoDevices EXCEPT !.init = "none", !.devs = Both(<<{0}>>, <<{1}>>)],
      [NoDevices EXCEPT !.init = "half", !.devs = Both(<<{0}>>, <<>>)],
      [NoDevices EXCEPT !.devs = Both(<<{2}>>, <<{1}>>)],
      \* an interrupt of the hypervisor; interrupts of two VMs in one word
      [NoDevices EXCEPT !.irqs = Both(<<1>>, <<8, 7>>)],
      [Arm EXCEPT !.irqs = Both(<<1, 7>>, <<1, 8>>), !.devs = Both(<<{0}>>, <<{1}>>)],
      \* devices go into a group of their VM, a group takes in another one
      [Arm EXCEPT !.groups = Both(<<G({0}, {1})>>, <<>>), !.devs = Both(<<{0, 1}, {1}>>, <<{2}>>)],
      [Arm EXCEPT !.groups = Both(<<G({0}, {1}), G({0, 2}, {1})>>, <<>>),
                  !.devs = Both(<<>>, <<{2}>>)],
      \* a global mask; both VMs have a stream
      [Arm EXCEPT !.gmask = Both({0}, {}), !.devs = Both(<<{1}, {2}>>, <<{1, 2, 3}>>)],
      [Arm EXCEPT !.groups = Both(<<G({0}, {1})>>, <<>>), !.devs = Both(<<>>, <<{0, 1}>>)],
      \* there are fewer entries, or banks, than are needed
      [Arm EXCEPT !.devs = Both(<<{0}, {1}>>, <<{2}>>), !.smes = 2],
      [Arm EXCEPT !.devs = Both(<<{0}, {1}>>, <<>>),
                  !.groups = Both(<<>>, <<G({0}, {2}), G({0}, {3})>>), !.smes = 3],
      [Arm EXCEPT !.devs = Both(<<{0}>>, <<{1}>>), !.groups = Both(<<>>, <<G({0}, {2})>>),
                  !.banks = 1],
      \* an entry that was given up is taken by the other VM: the next search gives it up again,
      \* or takes it for a conflict
      [Arm EXCEPT !.groups = Both(<<G({0}, {1}), G({0, 2}, {1}), G({0, 2, 3}, {1})>>, <<>>),
                  !.devs = Both(<<>>, <<{0}>>)],
      [Arm EXCEPT !.groups = Both(<<G({0}, {1}), G({0, 2}, {1}), G({2}, {1})>>, <<>>),
                  !.devs = Both(<<>>, <<{0}>>)],
      \* a group takes in two others; a VM has a stream twice; groups have some streams in common
      [Arm EXCEPT !.groups = Both(<<G({0}, {1}), G({0}, {1, 2}), G({0, 2}, {1})>>, <<>>),
                  !.devs = Both(<<>>, <<{0}>>)],
      [Arm EXCEPT !.devs = Both(<<{0}, {0}>>, <<{1}>>)],
      [Arm EXCEPT !.groups = Both(<<G({0}, {1}), G({2}, {1})>>, <<>>), !.devs = Both(<<>>, <<{0}>>)]
    }
=============================================================================
