-------------------------- MODULE MCNodeIpAllocator --------------------------
(* NodeIpAllocator on the smallest CIDR the code admits (a /28). *)
EXTENDS NodeIpAllocator, TLC

PodSymmetry == Permutations(PairPods)

=============================================================================
