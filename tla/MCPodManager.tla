---------------------------- MODULE MCPodManager ----------------------------
(* ProbeSet, and with it PodManager, with one pod: no step reads one record  *)
(* to write another, and every property speaks of one pod.                   *)
EXTENDS ProbeSet

CONSTANTS p1, w1

MCPods == {p1}
MCWorkloadOf == [p \in MCPods |-> w1]
MCThreshold == [k \in Kinds |-> 2]

=============================================================================
