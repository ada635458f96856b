---------------------------- MODULE MCCpuTopology ----------------------------
(* Three CPUs on up to two packages, with package numbers below and above    *)
(* what the arrays hold, a core number the bitset has no room for, and       *)
(* kernels without topology, without sysfs, without /proc/cpuinfo.           *)
EXTENDS CpuTopology, TLC

Layouts == [Cpu -> {-1, 0, 1, 2}]
CoreNumbers == {0 :> 0 @@ 1 :> 0 @@ 2 :> 1, 0 :> 1 @@ 1 :> 8 @@ 2 :> 2}
Readings == {0 :> <<0, 2>> @@ 1 :> <<3, 1>> @@ 2 :> <<0, 0>>,
             0 :> <<1>> @@ 1 :> <<2>> @@ 2 :> <<3>>}

MCMachine(p, c, f, t, x, s, pr) ==
  [pkg |-> p, core |-> c, freq |-> f, model |-> [u \in Cpu |-> p[u]],
   topo |-> t, fixed |-> x, sysfs |-> s, proc |-> pr]

MCMachines ==
  {MCMachine(p, c, f, TRUE, {0}, TRUE, TRUE) :
     p \in Layouts, c \in CoreNumbers, f \in Readings}
  \cup {MCMachine(p, c, f, t, x, s, pr) :
     p \in {0 :> 0 @@ 1 :> 1 @@ 2 :> 1}, c \in CoreNumbers, f \in Readings,
     t \in BOOLEAN, x \in {{}, {0}, Cpu}, s \in BOOLEAN, pr \in BOOLEAN}
=============================================================================
