------------------------------ MODULE PodManager ------------------------------
(***************************************************************************)
(* The pod table (workloads/pod_manager.rs) and the tasks that share it:   *)
(*   - the schedule task, which adds, evicts and removes records           *)
(*     (Workloads models what else it does);                               *)
(*   - the probe loop, which takes one batch of results from the probe     *)
(*     manager and applies them one by one, awaiting an event RPC between  *)
(*     two of them;                                                        *)
(*   - the policy watch, which sets policy_enforced on every pod;          *)
(*   - the routes watch, which recomputes router_connected for every pod.  *)
(* One step is one critical section of the table's lock, or of the probe   *)
(* manager's.                                                              *)
(***************************************************************************)
EXTENDS Integers

CONSTANTS
    Pods,           \* pod ids
    WorkloadOf,     \* pod -> workload id
    MaxRestarts     \* ProbeLoopConfig::max_restart_attempts

ASSUME MaxRestartsAssumption == MaxRestarts \in Nat

VARIABLES
    pods,           \* pod -> its record, for the pods in the table
    caller,         \* where the schedule task is: step and pod
    runners,        \* ProbeManager: the pods with a probe runner
    results,        \* the rest of the probe batch being applied
    failed_events   \* history: ProbeFailed events of the current episode

vars == <<pods, caller, runners, results, failed_events>>

Workloads == {WorkloadOf[p] : p \in Pods}

Idle == [step |-> "idle"]

\* What run_probes and all_passing return: until the startup probe is done,
\* live and ready are reported while not everything passes.
Outcomes ==
    [live : {TRUE}, ready : {TRUE}, passing : BOOLEAN]
        \cup [live : BOOLEAN, ready : {FALSE}, passing : {FALSE}]
        \cup [live : {FALSE}, ready : {TRUE}, passing : {FALSE}]

Put(f, x, v) == [y \in DOMAIN f \cup {x} |-> IF y = x THEN v ELSE f[y]]

Drop(f, x) == [y \in DOMAIN f \ {x} |-> f[y]]

Init ==
    /\ pods = [p \in {} |-> 0]
    /\ caller = Idle
    /\ runners = {}
    /\ results = [p \in {} |-> 0]
    /\ failed_events = [p \in Pods |-> 0]

---------------------------------------------------------------------------
(* The schedule task: the calls of boot_pod and evict_pod, in their order. *)

\* Pod::new, state Booting, mark_started; a stuck Terminating record of the
\* same pod is overwritten.
NewPod == [
    state |-> "Booting",
    policy_enforced |-> FALSE, router_connected |-> FALSE,
    probe_live |-> FALSE, probe_ready |-> FALSE,
    probe_ever_passed |-> FALSE, probe_failure_reported |-> FALSE,
    restart_count |-> 0]

AddPod(p) ==
    /\ caller = Idle
    /\ p \in DOMAIN pods => pods[p].state = "Terminating"
    /\ pods' = Put(pods, p, NewPod)
    /\ caller' = [step |-> "register", pod |-> p]
    /\ failed_events' = [failed_events EXCEPT ![p] = 0]
    /\ UNCHANGED <<runners, results>>

BugRegisterRunner(p) ==
    /\ caller = [step |-> "register", pod |-> p]
    /\ caller' = Idle
    /\ UNCHANGED <<pods, runners, results, failed_events>>

RegisterRunner(p) ==
    /\ caller = [step |-> "register", pod |-> p]
    /\ runners' = runners \cup {p}
    /\ caller' = Idle
    /\ UNCHANGED <<pods, results, failed_events>>

BeginEviction(p) ==
    /\ caller = Idle
    /\ p \in DOMAIN pods /\ pods[p].state \in {"Booting", "Running"}
    /\ pods' = [pods EXCEPT ![p].state = "Terminating"]
    /\ caller' = [step |-> "unregister", pod |-> p]
    /\ UNCHANGED <<runners, results, failed_events>>

BugUnregisterRunner(p) ==
    /\ caller = [step |-> "unregister", pod |-> p]
    /\ caller' = [step |-> "remove", pod |-> p]
    /\ UNCHANGED <<pods, runners, results, failed_events>>

UnregisterRunner(p) ==
    /\ caller = [step |-> "unregister", pod |-> p]
    /\ runners' = runners \ {p}
    /\ caller' = [step |-> "remove", pod |-> p]
    /\ UNCHANGED <<pods, results, failed_events>>

\* remove_pod; not reached when stopping or tearing down the pod failed.
RemovePod(p) ==
    /\ caller = [step |-> "remove", pod |-> p]
    /\ pods' \in {pods, Drop(pods, p)}
    /\ caller' = Idle
    /\ UNCHANGED <<runners, results, failed_events>>

---------------------------------------------------------------------------
(* The probe loop. *)

\* ProbeManager::tick runs every registered runner once.
ProbeTick ==
    /\ DOMAIN results = {} /\ runners # {}
    /\ results' \in [runners -> Outcomes]
    /\ UNCHANGED <<pods, caller, runners, failed_events>>

\* A Running pod whose liveness fails is restarted until its attempts are
\* used up; after that only BackOff is emitted.
BugRestarts(pod, r) ==
    pod.state = "Running" /\ ~r.live /\ pod.restart_count <= MaxRestarts

Restarts(pod, r) ==
    pod.state = "Running" /\ ~r.live /\ pod.restart_count < MaxRestarts

BugNextState(pod, r) ==
    IF r.passing THEN "Running"
    ELSE IF Restarts(pod, r) THEN "Booting"
    ELSE pod.state

NextState(pod, r) ==
    IF pod.state = "Booting" /\ r.passing THEN "Running"
    ELSE IF Restarts(pod, r) THEN "Booting"
    ELSE pod.state

ProbeFailed(r) == ~(r.live /\ r.ready)

\* ProbeFailed is emitted on the edge, for a pod that has once passed.
BugEmitsFailure(pod, r) ==
    ProbeFailed(r) /\ (pod.probe_ever_passed \/ r.passing)

EmitsFailure(pod, r) ==
    /\ ProbeFailed(r)
    /\ pod.probe_ever_passed \/ r.passing
    /\ ~pod.probe_failure_reported

\* The record after one result.
Updated(pod, r) == [pod EXCEPT
    !.state = NextState(pod, r),
    !.probe_live = r.live,
    !.probe_ready = r.ready,
    !.probe_ever_passed = @ \/ r.passing,
    !.probe_failure_reported =
        ProbeFailed(r) /\ ~Restarts(pod, r) /\ (@ \/ EmitsFailure(pod, r)),
    !.restart_count = IF Restarts(pod, r) THEN @ + 1 ELSE @]

\* failed_events: an episode ends with a healthy result or a restart.
ProcessProbeResult(p) ==
    /\ p \in DOMAIN results
    /\ results' = Drop(results, p)
    /\ IF p \in DOMAIN pods
       THEN LET pod == pods[p]
                r == results[p]
            IN  /\ pods' = [pods EXCEPT ![p] = Updated(pod, r)]
                /\ failed_events' = [failed_events EXCEPT ![p] =
                    IF ~ProbeFailed(r) \/ Restarts(pod, r) THEN 0
                    ELSE IF EmitsFailure(pod, r) THEN @ + 1
                    ELSE @]
       ELSE UNCHANGED <<pods, failed_events>>
    /\ UNCHANGED <<caller, runners>>

---------------------------------------------------------------------------
(* The policy watch and the routes watch. *)

\* After every frame that sync_policy accepts, a stale one included.
MarkAllPodsPolicyEnforced ==
    /\ pods' = [p \in DOMAIN pods |-> [pods[p] EXCEPT !.policy_enforced = TRUE]]
    /\ UNCHANGED <<caller, runners, results, failed_events>>

\* unrouted: the workloads that are a source of a route with dummy_ip = 0.
ReevaluateRouterConnected(unrouted) ==
    /\ pods' = [p \in DOMAIN pods |->
           [pods[p] EXCEPT !.router_connected = WorkloadOf[p] \notin unrouted]]
    /\ UNCHANGED <<caller, runners, results, failed_events>>

---------------------------------------------------------------------------

CallerStep(p) == AddPod(p) \/ BeginEviction(p)

FinishCall(p) == RegisterRunner(p) \/ UnregisterRunner(p) \/ RemovePod(p)

Next ==
    \/ \E p \in Pods : CallerStep(p)
    \/ \E p \in Pods : FinishCall(p)
    \/ ProbeTick
    \/ \E p \in Pods : ProcessProbeResult(p)
    \/ MarkAllPodsPolicyEnforced
    \/ \E unrouted \in SUBSET Workloads : ReevaluateRouterConnected(unrouted)

\* Fairness: a call that has begun is finished, the interval timer of the
\* probe loop fires again, and each result of a batch is applied.
Fairness ==
    /\ \A p \in Pods : WF_vars(FinishCall(p))
    /\ WF_vars(ProbeTick)
    /\ \A p \in Pods : WF_vars(ProcessProbeResult(p))

Spec == Init /\ [][Next]_vars /\ Fairness

---------------------------------------------------------------------------
(* Properties. *)

Active == {p \in DOMAIN pods : pods[p].state \in {"Booting", "Running"}}

PodRecords == [
    state : {"Booting", "Running", "Terminating"},
    policy_enforced : BOOLEAN, router_connected : BOOLEAN,
    probe_live : BOOLEAN, probe_ready : BOOLEAN,
    probe_ever_passed : BOOLEAN, probe_failure_reported : BOOLEAN,
    restart_count : 0..MaxRestarts]

\* Types; no pod is restarted more often than the loop's configuration allows,
\* in any order of failures, recoveries and late results.
TypeOK ==
    /\ DOMAIN pods \subseteq Pods
    /\ \A p \in DOMAIN pods : pods[p] \in PodRecords
    /\ runners \subseteq Pods
    /\ DOMAIN results \subseteq Pods
    /\ \A p \in DOMAIN results : results[p] \in Outcomes

\* Between two calls of the schedule task the probe manager tracks exactly the
\* live pods: none is left unprobed (it would stay Booting for ever), and no
\* evicted pod, a stuck one included, is still probed.
RunnersMatchTable == caller = Idle => runners = Active

\* A failure episode is announced once: probe_failure_reported is an edge
\* trigger that survives the mix of liveness and readiness failures.
FailureAnnouncedOnce == \A p \in Pods : failed_events[p] <= 1

\* The table implements PodLifecycle although four tasks write it: a late
\* probe result never revives a pod that is being evicted.
Lifecycle == INSTANCE PodLifecycle WITH
    state <- [p \in Pods |-> IF p \in DOMAIN pods THEN pods[p].state ELSE "Absent"]

LifecycleSpec == Lifecycle!Spec

\* Ruling D (pod_manager.rs): a pod does not become Running before its policy
\* is enforced and its routes are connected.
RulingD ==
    [][\A p \in Active \cap Active' :
        pods[p].state = "Booting" /\ pods'[p].state = "Running"
            => pods'[p].policy_enforced /\ pods'[p].router_connected]_vars

=============================================================================
