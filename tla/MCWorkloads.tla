----------------------------- MODULE MCWorkloads -----------------------------
(* Workloads with two microVM pods and a containerd pod, each of a workload *)
(* of its own.                                                              *)
EXTENDS Workloads, TLC

CONSTANTS vm1, vm2, ctr

MCPods == {vm1, vm2, ctr}
MCMicroVms == {vm1, vm2}
MCWorkloadOf == [p \in MCPods |-> p]

\* All pods, the containerd pod alone, none.
MCDesiredSets == {MCPods, {ctr}, {}}

\* The two microVM pods are interchangeable.
Symmetry == Permutations(MCMicroVms)

=============================================================================
