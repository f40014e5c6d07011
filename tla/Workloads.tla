------------------------------ MODULE Workloads ------------------------------
(***************************************************************************)
(* WorkloadManager (workloads/mod.rs) with the reconciler and the two      *)
(* runtime adapters: the one task that turns schedule frames into running  *)
(* sandboxes.  A frame is the full desired state.  The task evicts, then   *)
(* boots, one pod after the other; an error is logged and the task goes on *)
(* to the next pod, so whatever a failed step leaves behind stays.         *)
(*                                                                         *)
(* A step of the task ends where the code awaits, or where an early return *)
(* would leave the state as it is.  The probe loop is abstracted to the    *)
(* transitions it may cause (PodManager models it in full).                *)
(*                                                                         *)
(* No awaited call of the task has a timeout, so no step need ever happen: *)
(* the specification has no fairness.                                      *)
(*                                                                         *)
(* sandboxes, netns and containers are the world outside the agent: what   *)
(* may run on the node.  An adapter that reports a failed boot may have    *)
(* left the sandbox running (boot = "failed"); one that reports a failed   *)
(* stop stopped nothing.  A sandbox that ends by itself stays in the set:  *)
(* nothing tells the agent, no action reads the set, and every property    *)
(* quantifies over all of it.                                              *)
(***************************************************************************)
EXTENDS Integers

CONSTANTS
    HostCount,      \* size of the node's workload CIDR
    Pods,           \* pod ids
    MicroVms,       \* the pods that run on Cloud Hypervisor; others: containerd
    WorkloadOf,     \* pod -> workload id (its fingerprint follows from it)
    DesiredSets,    \* the sets of pods that a schedule frame may name
    MaxFrames,      \* bound: schedule frames received
    MaxCid          \* bound: VSOCK CIDs handed out

ASSUME PodsAssumption ==
    /\ MicroVms \subseteq Pods
    /\ DesiredSets \subseteq SUBSET Pods
    /\ WorkloadOf \in [Pods -> {WorkloadOf[p] : p \in Pods}]

\* What the allocator takes for granted: the prefix is at most 28 bits long ...
ASSUME HostCountAssumption == HostCount \in Nat /\ HostCount >= 16

VARIABLES
    next_offset, free, allocated,       \* NodeIpAllocator
    frames, desired, toEvict, toBoot,   \* the frame being reconciled
    task,           \* the pod in work: step, pod, guest offset and CID
    pods,           \* PodManager: pod -> [state, pid]
    pod_source_ips, \* pod -> guest offset
    src_identity,   \* SRC_IDENTITY_MAP: guest offset -> workload
    next_cid, microvms, guards, boot_gate, attest,
    netns, containers, sandboxes

ipVars == <<next_offset, free, allocated>>
frameVars == <<frames, desired, toEvict, toBoot>>
identVars == <<pod_source_ips, src_identity>>
vmVars == <<next_cid, microvms, guards, boot_gate, attest>>
hostVars == <<netns, containers, sandboxes>>
vars == <<ipVars, frameVars, task, pods, identVars, vmVars, hostVars>>

Ip == INSTANCE NodeIpAllocator WITH PairPods <- Pods, SinglePods <- {}

\* ... and no pod id is another pod's gateway label.
ASSUME GwAssumption == \A p, q \in Pods : Ip!Gw(p) # q

FirstCid == 3

NoPid == 0      \* a containerd handle is never used to find the container

Idle == [step |-> "idle"]

\* f with x mapped to v, and f without x.
Put(f, x, v) == [y \in DOMAIN f \cup {x} |-> IF y = x THEN v ELSE f[y]]

Drop(f, x) == [y \in DOMAIN f \ {x} |-> f[y]]

Empty == [x \in {} |-> 0]

Init ==
    /\ Ip!Init
    /\ frames = 0
    /\ desired = {} /\ toEvict = {} /\ toBoot = {}
    /\ task = Idle
    /\ pods = Empty
    /\ pod_source_ips = Empty /\ src_identity = Empty
    /\ next_cid = FirstCid
    /\ microvms = {} /\ guards = {} /\ boot_gate = FALSE /\ attest = Empty
    /\ netns = {} /\ containers = {} /\ sandboxes = {}

---------------------------------------------------------------------------
(* reconcile: diff the frame against the pod table, by workload id. *)

Active == {p \in DOMAIN pods : pods[p].state \in {"Booting", "Running"}}

WorkloadsOf(ps) == {WorkloadOf[p] : p \in ps}

BugReconcileBoot(d) ==
    /\ toBoot' = d
    /\ toEvict' = {p \in Active : WorkloadOf[p] \notin WorkloadsOf(d)}

BugReconcileEvict(d) ==
    /\ toBoot' = {p \in d : WorkloadOf[p] \notin WorkloadsOf(Active)}
    /\ toEvict' = {p \in Active : /\ pods[p].state = "Running"
                                  /\ WorkloadOf[p] \notin WorkloadsOf(d)}

Reconcile(d) ==
    /\ toBoot' = {p \in d : WorkloadOf[p] \notin WorkloadsOf(Active)}
    /\ toEvict' = {p \in Active : WorkloadOf[p] \notin WorkloadsOf(d)}

\* run_schedule_watch: the next frame is read when the last one is done.
NewFrame(d) ==
    /\ task = Idle /\ toEvict = {} /\ toBoot = {}
    /\ frames < MaxFrames
    /\ frames' = frames + 1
    /\ desired' = d
    /\ Reconcile(d)
    /\ UNCHANGED <<ipVars, task, pods, identVars, vmVars, hostVars>>

At(step) == task.step = step

Goto(step) == task' = [task EXCEPT !.step = step]

---------------------------------------------------------------------------
(* evict_pod *)

BeginEviction(p) ==
    /\ task = Idle /\ p \in toEvict
    /\ toEvict' = toEvict \ {p}
    /\ pods' = [pods EXCEPT ![p].state = "Terminating"]
    /\ task' = [step |-> "stop", pod |-> p]
    /\ UNCHANGED <<ipVars, frames, desired, toBoot, identVars, vmVars, hostVars>>

\* ContainerdAdapter::stop ignores every RPC's outcome: the container may be
\* gone, dead but still on record, or untouched.  The channel was opened at
\* boot, so the one error it can return does not happen here.
StopContainer(p) ==
    /\ At("stop") /\ p = task.pod /\ p \notin MicroVms
    /\ \/ /\ containers' = containers \ {p}
          /\ sandboxes' = {s \in sandboxes : s.pod # p}
       \/ /\ sandboxes' = {s \in sandboxes : s.pod # p}
          /\ UNCHANGED containers
       \/ UNCHANGED <<containers, sandboxes>>
    /\ Goto("release")
    /\ UNCHANGED <<ipVars, frameVars, pods, identVars, vmVars, netns>>

\* guard.disarm: drops the guard and closes the node-wide gate.
Disarm(cid) ==
    /\ guards' = guards \ {cid}
    /\ boot_gate' = FALSE

\* reg.unregister_boot_measurement and reg.unregister_workload_context.
UnregisterAttestation(cid) == attest' = Drop(attest, cid)

\* registry.unregister: an error of the map is only logged, and the entry
\* stays.
UnregisterIdentity(ip) == src_identity' \in {src_identity, Drop(src_identity, ip)}

\* The adapter is forgotten first; shutdown_vm, then disarm and unregister.
\* Without an adapter only the attestation material goes.
StopVm(p) ==
    LET cid == pods[p].pid IN
    /\ At("stop") /\ p = task.pod /\ p \in MicroVms
    /\ IF cid \in microvms
       THEN /\ microvms' = microvms \ {cid}
            /\ sandboxes' = {s \in sandboxes : s.handle # cid}
            /\ Disarm(cid)
       ELSE UNCHANGED <<microvms, sandboxes, guards, boot_gate>>
    /\ UnregisterAttestation(cid)
    /\ Goto("release")
    /\ UNCHANGED <<ipVars, frameVars, pods, identVars, next_cid, netns, containers>>

\* shutdown_vm failed: evict_pod returns, the record stays Terminating.
BugStopVmFails(p) ==
    LET cid == pods[p].pid IN
    /\ At("stop") /\ p = task.pod /\ p \in MicroVms
    /\ cid \in microvms
    /\ microvms' = microvms \ {cid}
    /\ Disarm(cid)
    /\ task' = Idle
    /\ UNCHANGED <<ipVars, frameVars, pods, identVars, next_cid, attest, hostVars>>

StopVmFails(p) ==
    LET cid == pods[p].pid IN
    /\ At("stop") /\ p = task.pod /\ p \in MicroVms
    /\ cid \in microvms
    /\ microvms' = microvms \ {cid}
    /\ task' = Idle
    /\ UNCHANGED <<ipVars, frameVars, pods, identVars, next_cid, guards,
                   boot_gate, attest, hostVars>>

\* destroy_netns is best effort: a namespace that is there may stay.
DestroyNetns(p) == netns' \in {netns, netns \ {p}}

\* Unregister the source identity, release the pair, drop the namespace: all
\* of it only for a pod with a registered address.
BugReleaseAddress(p) ==
    /\ At("release") /\ p = task.pod
    /\ UnregisterIdentity(pod_source_ips[p])
    /\ pod_source_ips' = Drop(pod_source_ips, p)
    /\ IF p \in MicroVms THEN UNCHANGED netns ELSE DestroyNetns(p)
    /\ Goto("teardown")
    /\ UNCHANGED <<ipVars, frameVars, pods, vmVars, containers, sandboxes>>

ReleaseAddress(p) ==
    /\ At("release") /\ p = task.pod
    /\ IF p \in DOMAIN pod_source_ips
       THEN /\ UnregisterIdentity(pod_source_ips[p])
            /\ pod_source_ips' = Drop(pod_source_ips, p)
            /\ Ip!ReleasePair(p)
            /\ IF p \in MicroVms THEN UNCHANGED netns ELSE DestroyNetns(p)
       ELSE UNCHANGED <<identVars, ipVars, netns>>
    /\ Goto("teardown")
    /\ UNCHANGED <<frameVars, pods, vmVars, containers, sandboxes>>

\* teardown_pod_scratch, then remove_pod; when the scratch directory cannot
\* be removed the record stays.
Teardown(p) ==
    /\ At("teardown") /\ p = task.pod
    /\ pods' \in {pods, Drop(pods, p)}
    /\ task' = Idle
    /\ UNCHANGED <<ipVars, frameVars, identVars, vmVars, hostVars>>

EvictStep(p) ==
    \/ BeginEviction(p)
    \/ StopContainer(p)
    \/ StopVm(p)
    \/ StopVmFails(p)
    \/ ReleaseAddress(p)
    \/ Teardown(p)

---------------------------------------------------------------------------
(* boot_pod *)

BootNext(p) == task = Idle /\ toEvict = {} /\ p \in toBoot

\* An early return before anything is reserved: no PodSpec, a refused mount,
\* an invalid role.
RejectBoot(p) ==
    /\ BootNext(p)
    /\ toBoot' = toBoot \ {p}
    /\ UNCHANGED <<ipVars, frames, desired, toEvict, task, pods, identVars,
                   vmVars, hostVars>>

\* request_and_install is awaited, and its outcome does not matter here; it
\* may never return (ControlClient!GetChannelReturns).
RequestKey(p) ==
    /\ BootNext(p)
    /\ toBoot' = toBoot \ {p}
    /\ task' = [step |-> "key", pod |-> p]
    /\ UNCHANGED <<ipVars, frames, desired, toEvict, pods, identVars, vmVars,
                   hostVars>>

AllocateAddress(p) ==
    /\ At("key") /\ p = task.pod
    /\ \E o \in Ip!HostOffsets :
        /\ Ip!AllocatePair(p, o)
        /\ task' = [step |-> "register", pod |-> p, ip |-> o + 1, cid |-> NoPid]
    /\ UNCHANGED <<frameVars, pods, identVars, vmVars, hostVars>>

\* allocate_p2p_pair has no pair left.
AllocateAddressFails(p) ==
    /\ At("key") /\ p = task.pod
    /\ Ip!PairExhausted
    /\ task' = Idle
    /\ UNCHANGED <<ipVars, frameVars, pods, identVars, vmVars, hostVars>>

\* The identity is registered before the sandbox exists.
RegisterIdentity(p) ==
    /\ At("register") /\ p = task.pod
    /\ src_identity' = Put(src_identity, task.ip, WorkloadOf[p])
    /\ Goto("launch")
    /\ UNCHANGED <<ipVars, frameVars, pods, pod_source_ips, vmVars, hostVars>>

RegisterIdentityFails(p) ==
    /\ At("register") /\ p = task.pod
    /\ Ip!ReleasePair(p)
    /\ task' = Idle
    /\ UNCHANGED <<frameVars, pods, identVars, vmVars, hostVars>>

\* guard.arm: the classifiers are attached, then the gate is opened.
Arm(cid) ==
    /\ guards' = guards \cup {cid}
    /\ boot_gate' = TRUE

\* boot_microvm: a CID is used up even when arming the guard fails.
BugArmGuard(p) ==
    /\ At("launch") /\ p = task.pod /\ p \in MicroVms
    /\ next_cid <= MaxCid
    /\ Arm(next_cid)
    /\ task' = [task EXCEPT !.step = "attest", !.cid = next_cid]
    /\ UNCHANGED <<ipVars, frameVars, pods, identVars, next_cid, microvms,
                   attest, hostVars>>

BugReuseCid(p) ==
    /\ At("launch") /\ p = task.pod /\ p \in MicroVms
    /\ \E cid \in (FirstCid..next_cid) \ microvms :
        /\ cid <= MaxCid
        /\ \A c \in (FirstCid..next_cid) \ microvms : cid <= c
        /\ next_cid' = IF cid = next_cid THEN next_cid + 1 ELSE next_cid
        /\ Arm(cid)
        /\ task' = [task EXCEPT !.step = "attest", !.cid = cid]
    /\ UNCHANGED <<ipVars, frameVars, pods, identVars, microvms, attest, hostVars>>

ArmGuard(p) ==
    /\ At("launch") /\ p = task.pod /\ p \in MicroVms
    /\ next_cid <= MaxCid
    /\ next_cid' = next_cid + 1
    /\ Arm(next_cid)
    /\ task' = [task EXCEPT !.step = "attest", !.cid = next_cid]
    /\ UNCHANGED <<ipVars, frameVars, pods, identVars, microvms, attest, hostVars>>

\* A mount the runtime cannot honour is refused before a CID is taken.
ArmGuardFails(p) ==
    /\ At("launch") /\ p = task.pod /\ p \in MicroVms
    /\ next_cid' \in {next_cid, next_cid + 1} \cap (0..(MaxCid + 1))
    /\ Goto("failed")
    /\ UNCHANGED <<ipVars, frameVars, pods, identVars, microvms, guards,
                   boot_gate, attest, hostVars>>

\* boot_microvm_inner: image and measurement, then measurement and context
\* are registered for the CID.
RegisterAttestation(p) ==
    /\ At("attest") /\ p = task.pod
    /\ attest' = Put(attest, task.cid, p)
    /\ Goto("start")
    /\ UNCHANGED <<ipVars, frameVars, pods, identVars, next_cid, microvms,
                   guards, boot_gate, hostVars>>

\* The sandbox that a boot of p starts, and whether the agent was told so.
Sandbox(p, boot) ==
    [pod |-> p, handle |-> task.cid, ip |-> task.ip, boot |-> boot]

StartVm(p) ==
    /\ At("start") /\ p = task.pod
    /\ sandboxes' = sandboxes \cup {Sandbox(p, "ok")}
    /\ microvms' = microvms \cup {task.cid}
    /\ Goto("commit")
    /\ UNCHANGED <<ipVars, frameVars, pods, identVars, next_cid, guards,
                   boot_gate, attest, netns, containers>>

\* Any error of boot_microvm_inner: unregister and disarm.
AbortVm(p) ==
    /\ p = task.pod
    /\ UnregisterAttestation(task.cid)
    /\ Disarm(task.cid)
    /\ Goto("failed")
    /\ UNCHANGED <<ipVars, frameVars, pods, identVars, next_cid, microvms,
                   netns, containers>>

\* The image is not in the cache, or a boot artifact cannot be measured.
MeasureFails(p) == At("attest") /\ AbortVm(p) /\ UNCHANGED sandboxes

\* create_vm or boot_vm returned an error; a VM that runs nonetheless is not
\* deleted.
StartVmFails(p) ==
    /\ At("start")
    /\ AbortVm(p)
    /\ sandboxes' \in {sandboxes, sandboxes \cup {Sandbox(p, "failed")}}

\* boot_containerd: `ip netns add` refuses an existing name.
CreateNetns(p) ==
    /\ At("launch") /\ p = task.pod /\ p \notin MicroVms
    /\ p \notin netns
    /\ netns' = netns \cup {p}
    /\ Goto("configure")
    /\ UNCHANGED <<ipVars, frameVars, pods, identVars, vmVars, containers, sandboxes>>

CreateNetnsFails(p) ==
    /\ At("launch") /\ p = task.pod /\ p \notin MicroVms
    /\ Goto("failed")
    /\ UNCHANGED <<ipVars, frameVars, pods, identVars, vmVars, hostVars>>

\* configure_netns: a veth pair, addresses and a default route.
ConfigureNetns(p) ==
    /\ At("configure") /\ p = task.pod
    /\ Goto("start_container")
    /\ UNCHANGED <<ipVars, frameVars, pods, identVars, vmVars, hostVars>>

ConfigureNetnsFails(p) ==
    /\ At("configure") /\ p = task.pod
    /\ DestroyNetns(p)
    /\ Goto("failed")
    /\ UNCHANGED <<ipVars, frameVars, pods, identVars, vmVars, containers, sandboxes>>

\* ContainerdAdapter::boot: containerd refuses an existing container id.
StartContainer(p) ==
    /\ At("start_container") /\ p = task.pod
    /\ p \notin containers
    /\ containers' = containers \cup {p}
    /\ sandboxes' = sandboxes \cup {Sandbox(p, "ok")}
    /\ Goto("commit")
    /\ UNCHANGED <<ipVars, frameVars, pods, identVars, vmVars, netns>>

\* boot failed before or after the container was created, or its task runs
\* although start returned an error (nothing is deleted): the namespace is
\* destroyed.
AbortContainer(p) ==
    /\ At("start_container") /\ p = task.pod
    /\ \/ UNCHANGED <<containers, sandboxes>>
       \/ /\ p \notin containers
          /\ containers' = containers \cup {p}
          /\ sandboxes' \in {sandboxes, sandboxes \cup {Sandbox(p, "failed")}}
    /\ DestroyNetns(p)
    /\ Goto("failed")
    /\ UNCHANGED <<ipVars, frameVars, pods, identVars, vmVars>>

\* The runtime's boot failed: unregister this boot's address and release the
\* pod's pairs.
CleanUp(p) ==
    /\ At("failed") /\ p = task.pod
    /\ UnregisterIdentity(task.ip)
    /\ Ip!ReleasePair(p)
    /\ task' = Idle
    /\ UNCHANGED <<frameVars, pods, pod_source_ips, vmVars, hostVars>>

\* The runtime's boot succeeded: the pod's record, in state Booting.
CommitPod(p) ==
    /\ At("commit") /\ p = task.pod
    /\ pod_source_ips' = Put(pod_source_ips, p, task.ip)
    /\ pods' = Put(pods, p, [state |-> "Booting", pid |-> task.cid])
    /\ task' = Idle
    /\ UNCHANGED <<ipVars, frameVars, src_identity, vmVars, hostVars>>

BootStep(p) ==
    \/ RejectBoot(p)
    \/ RequestKey(p)
    \/ AllocateAddress(p)
    \/ AllocateAddressFails(p)
    \/ RegisterIdentity(p)
    \/ RegisterIdentityFails(p)
    \/ ArmGuard(p)
    \/ ArmGuardFails(p)
    \/ RegisterAttestation(p)
    \/ StartVm(p)
    \/ MeasureFails(p)
    \/ StartVmFails(p)
    \/ CreateNetns(p)
    \/ CreateNetnsFails(p)
    \/ ConfigureNetns(p)
    \/ ConfigureNetnsFails(p)
    \/ StartContainer(p)
    \/ AbortContainer(p)
    \/ CleanUp(p)
    \/ CommitPod(p)

---------------------------------------------------------------------------
(* The probe loop, from its own task: PodManager!ProcessProbeResult. *)

SetState(p, from, to) ==
    /\ p \in DOMAIN pods
    /\ pods[p].state \in from
    /\ pods' = [pods EXCEPT ![p].state = to]
    /\ UNCHANGED <<ipVars, frameVars, task, identVars, vmVars, hostVars>>

BugPromote(p) == SetState(p, {"Booting", "Terminating"}, "Running")

Promote(p) == SetState(p, {"Booting"}, "Running")

Restart(p) == SetState(p, {"Running"}, "Booting")

---------------------------------------------------------------------------

Next ==
    \/ \E d \in DesiredSets : NewFrame(d)
    \/ \E p \in Pods : EvictStep(p)
    \/ \E p \in Pods : BootStep(p)
    \/ \E p \in Pods : Promote(p)
    \/ \E p \in Pods : Restart(p)

Spec == Init /\ [][Next]_vars

---------------------------------------------------------------------------
(* Properties. *)

Cids == FirstCid..(next_cid - 1)

SandboxRecords ==
    [pod : Pods, handle : Cids \cup {NoPid}, ip : Ip!HostOffsets,
     boot : {"ok", "failed"}]

\* Types; every CID in use was handed out, and every address is a host
\* address of the CIDR.
TypeOK ==
    /\ Ip!TypeOK
    /\ desired \subseteq Pods /\ toEvict \subseteq Pods /\ toBoot \subseteq Pods
    /\ DOMAIN pods \subseteq Pods
    /\ \A p \in DOMAIN pods :
        pods[p] \in [state : {"Booting", "Running", "Terminating"},
                     pid : Cids \cup {NoPid}]
    /\ DOMAIN pod_source_ips \subseteq Pods
    /\ DOMAIN src_identity \subseteq Ip!HostOffsets
    /\ microvms \cup guards \cup DOMAIN attest \subseteq Cids
    /\ boot_gate \in BOOLEAN
    /\ netns \cup containers \subseteq Pods \ MicroVms
    /\ sandboxes \subseteq SandboxRecords

\* The boot-race guard: a microVM whose boot succeeded, stuck evictions
\* included, has its TC guard in place and its attestation material registered
\* for its pod as long as it runs.  One that runs although its boot failed has
\* lost both, so it can never attest: no CID is used again.
GuardedVm ==
    \A s \in sandboxes : s.pod \in MicroVms =>
        IF s.boot = "ok"
        THEN /\ s.handle \in guards
             /\ s.handle \in DOMAIN attest
             /\ attest[s.handle] = s.pod
        ELSE s.handle \notin guards \cup DOMAIN attest

\* Every pod the agent counts as alive keeps its own address: allocated to
\* it, attributed to its workload, and shared with no other live pod,
\* whatever failed boots and evictions of other pods or of earlier
\* incarnations released.
ManagedAttributed ==
    \A p \in Active :
        /\ p \in DOMAIN pod_source_ips
        /\ LET ip == pod_source_ips[p] IN
            /\ ip \in DOMAIN allocated /\ allocated[ip] = p
            /\ ip \in DOMAIN src_identity /\ src_identity[ip] = WorkloadOf[p]
            /\ \A q \in Active \ {p} :
                q \in DOMAIN pod_source_ips => pod_source_ips[q] # ip

\* Between two pods' steps, addresses are held only by pods with a record: no
\* failed boot and no finished eviction leaks a pair.
NoAddressLeak ==
    task = Idle => \A o \in DOMAIN allocated :
        \E p \in DOMAIN pods : allocated[o] \in {p, Ip!Gw(p)}

\* When the evictions of a frame are done, no live pod belongs to a workload
\* the frame does not name, whatever its probes and its stops did meanwhile.
Converged ==
    task = Idle /\ toEvict = {} => WorkloadsOf(Active) \subseteq WorkloadsOf(desired)

\* The pod table implements PodLifecycle: eviction is final, whichever task
\* writes the record.
Lifecycle == INSTANCE PodLifecycle WITH
    state <- [p \in Pods |-> IF p \in DOMAIN pods THEN pods[p].state ELSE "Absent"]

LifecycleSpec == Lifecycle!Spec

\* What belongs to one pod: its record, its addresses and which of them are
\* attributed to it, its VMs with their guards and adapters, and what runs for
\* it.  (The node-wide gate belongs to nobody.)
Belongings(q) ==
    LET ips == {o \in DOMAIN allocated : allocated[o] \in {q, Ip!Gw(q)}}
        vms == {c \in DOMAIN attest : attest[c] = q}
    IN  <<{pods[r] : r \in {q} \cap DOMAIN pods},
          {pod_source_ips[r] : r \in {q} \cap DOMAIN pod_source_ips},
          ips,
          {o \in ips \cap DOMAIN src_identity : src_identity[o] = WorkloadOf[q]},
          vms, vms \cap guards, vms \cap microvms,
          {q} \cap netns, {q} \cap containers,
          {s \in sandboxes : s.pod = q}>>

InWork == IF task = Idle THEN {} ELSE {task.pod}

\* What belongs to a pod changes only while the schedule task works on that very
\* pod, or by a probe's verdict on it: evicting or booting one pod, with every
\* failed step and clean-up, leaves the others as they are.
OthersUntouched ==
    [][\A q \in Pods \ (InWork \cup InWork') :
        Belongings(q)' = Belongings(q) \/ Promote(q) \/ Restart(q)]_vars

\* A packet of a sandbox that the agent booted is attributed to its own
\* workload or to nobody (mod.rs: the address is registered before boot,
\* fail-closed otherwise).
LiveAttributed ==
    \A s \in sandboxes :
        s.boot = "ok" /\ s.ip \in DOMAIN src_identity =>
            src_identity[s.ip] = WorkloadOf[s.pod]

=============================================================================
