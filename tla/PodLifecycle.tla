----------------------------- MODULE PodLifecycle -----------------------------
(***************************************************************************)
(* What the agent promises about the state of one pod record, whoever      *)
(* writes it: the reconciler's boot and evict paths and the probe loop all *)
(* write the same field.  PodManager and Workloads implement this.         *)
(*                                                                         *)
(* A pod that is being evicted never comes back to life by itself: only a  *)
(* new boot, which installs a fresh record, leads out of Terminating.      *)
(***************************************************************************)
CONSTANT Pods

VARIABLE state      \* pod -> its state, "Absent" when it has no record

States == {"Absent", "Booting", "Running", "Terminating"}

Init == state = [p \in Pods |-> "Absent"]

Move(p, from, to) ==
    /\ state[p] \in from
    /\ state' = [state EXCEPT ![p] = to]

\* boot_pod installs a fresh record; one left behind by a failed eviction is
\* overwritten.
Boot(p) == Move(p, {"Absent", "Terminating"}, "Booting")

\* The probe loop: Booting -> Running, and back when liveness fails.
Promote(p) == Move(p, {"Booting"}, "Running")

Restart(p) == Move(p, {"Running"}, "Booting")

\* begin_eviction, then remove_pod when the eviction succeeded.
Evict(p) == Move(p, {"Booting", "Running"}, "Terminating")

Remove(p) == Move(p, {"Terminating"}, "Absent")

Next ==
    \E p \in Pods : Boot(p) \/ Promote(p) \/ Restart(p) \/ Evict(p) \/ Remove(p)

Spec == Init /\ [][Next]_state

=============================================================================
