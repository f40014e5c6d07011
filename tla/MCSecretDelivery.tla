--------------------------- MODULE MCSecretDelivery ---------------------------
(* The node is told of one workload's secrets; control may answer with the     *)
(* first secret of another workload instead.                                   *)
EXTENDS SecretDelivery

CONSTANTS t1, other

MCIds == {t1, other}
MCTargets == {t1}
MCMisnamed == {[target |-> other, version |-> 1, sequence |-> 1]}

=============================================================================
