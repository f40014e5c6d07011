---------------------------- MODULE WorkloadsProofs ----------------------------
(***************************************************************************)
(* What holds of Workloads for any pods, workloads, runtimes and CIDR, with *)
(* proofs.  The invariant has three parts: the addresses (who holds which, *)
(* and what the frame still has to do), the VMs (guards, adapters and      *)
(* attestation material), and the types.  Its core is what the schedule    *)
(* task knows of the pod it is working on, at each step of a boot and of   *)
(* an eviction: a boot works on a pod that is not alive, so what it takes  *)
(* back is no live pod's.                                                  *)
(*                                                                         *)
(* The allocator's own invariant is not proved again: Workloads uses it    *)
(* only through its operations, so the theorems of NodeIpAllocatorProofs   *)
(* hold here (IpP).                                                        *)
(***************************************************************************)
EXTENDS Workloads, TLAPS

IpP == INSTANCE NodeIpAllocatorProofs WITH PairPods <- Pods, SinglePods <- {}

EvictSteps == {"stop", "release", "teardown"}

BootSteps == {"register", "launch", "attest", "start", "configure", "start_container",
              "failed", "commit"}

Evicting == task.step \in EvictSteps

Booting == task.step \in BootSteps

---------------------------------------------------------------------------
(* The inductive invariant: types. *)

TaskOK ==
    \/ task = Idle
    \/ task \in [step : EvictSteps \cup {"key"}, pod : Pods]
    \/ task \in [step : BootSteps, pod : Pods, ip : Ip!HostOffsets, cid : Cids \cup {NoPid}]

TypeInv == TypeOK /\ TaskOK /\ next_cid \in Nat /\ next_cid >= FirstCid

---------------------------------------------------------------------------
(* The inductive invariant: addresses. *)

\* p has an address of its own.
Holds(p) ==
    /\ p \in DOMAIN pod_source_ips
    /\ pod_source_ips[p] \in DOMAIN allocated
    /\ allocated[pod_source_ips[p]] = p

\* p has no address at all.
HoldsNone(p) == \A o \in DOMAIN allocated : allocated[o] \notin {p, Ip!Gw(p)}

\* The packets from ip are p's.
Attributed(ip, p) == ip \in DOMAIN src_identity /\ src_identity[ip] = WorkloadOf[p]

AttributedInv == \A p \in Active : Holds(p) /\ Attributed(pod_source_ips[p], p)

\* What is still to be evicted lives, what is still to be booted does not, and a
\* live pod outside the frame is still to be evicted.
FrameInv ==
    /\ toEvict \subseteq Active
    /\ toBoot \cap Active = {} /\ toBoot \subseteq desired
    /\ \A p \in Active : WorkloadOf[p] \in WorkloadsOf(desired) \/ p \in toEvict

\* The pod being evicted has its address until it is released.
EvictInv ==
    Evicting =>
        /\ task.pod \in DOMAIN pods /\ pods[task.pod].state = "Terminating"
        /\ task.step \in {"stop", "release"} => Holds(task.pod)
        /\ task.step = "teardown" => HoldsNone(task.pod)

\* The pod being booted is not alive, and has an address the boot may take back.
BootInv ==
    Booting =>
        /\ task.pod \notin Active /\ task.pod \in desired \ toBoot
        /\ task.ip \in DOMAIN allocated /\ allocated[task.ip] = task.pod
        /\ task.step # "register" => Attributed(task.ip, task.pod)

\* So is the one whose key is being requested, and it need not have an address.
KeyInv ==
    task.step = "key" => task.pod \notin Active /\ task.pod \in desired \ toBoot

\* Addresses are held by pods with a record, and by the pod being booted.
LeakInv ==
    \A o \in DOMAIN allocated :
        \E p \in Pods :
            /\ p \in DOMAIN pods \/ (Booting /\ p = task.pod)
            /\ allocated[o] \in {p, Ip!Gw(p)}

AddressInv ==
    IpP!IInv /\ AttributedInv /\ FrameInv /\ EvictInv /\ BootInv /\ KeyInv /\ LeakInv

---------------------------------------------------------------------------
(* The inductive invariant: VMs. *)

\* The adapter of a VM is there, and its attestation material names its pod.
VmKept(cid, p) == cid \in microvms /\ cid \in DOMAIN attest /\ attest[cid] = p

\* No sandbox runs under this CID yet.
Unused(cid) == \A s \in sandboxes : s.handle # cid

KeptInv == \A p \in Active \cap MicroVms : VmKept(pods[p].pid, p)

VmStepInv ==
    /\ task.step = "stop" /\ task.pod \in MicroVms => VmKept(pods[task.pod].pid, task.pod)
    /\ task.step = "attest" =>
           /\ task.pod \in MicroVms
           /\ task.cid \in guards /\ task.cid \notin DOMAIN attest /\ Unused(task.cid)
    /\ task.step = "start" =>
           /\ task.pod \in MicroVms
           /\ task.cid \in guards /\ Unused(task.cid)
           /\ task.cid \in DOMAIN attest /\ attest[task.cid] = task.pod
    /\ task.step = "commit" /\ task.pod \in MicroVms => VmKept(task.cid, task.pod)
    /\ task.step \in {"configure", "start_container"} => task.pod \notin MicroVms

VmInv == KeptInv /\ VmStepInv /\ GuardedVm

---------------------------------------------------------------------------
(* The inductive invariant: containers have no CID. *)

ContainerInv ==
    /\ \A s \in sandboxes : s.pod \notin MicroVms => s.handle = NoPid
    /\ task.step \in {"register", "launch", "configure", "start_container"} =>
           task.cid = NoPid

IInv == TypeInv /\ AddressInv /\ VmInv /\ ContainerInv

---------------------------------------------------------------------------
(* The allocator, as Workloads uses it. *)

\* What the allocator's theorems take for granted holds of the instance.
LEMMA AllocatorAssumptions ==
    /\ Pods \cap {} = {}
    /\ \A p, q \in IpP!PodIds : IpP!Gw(p) # q
  BY GwAssumption DEF IpP!PodIds, Ip!Gw, IpP!Gw

\* Labels of pods, and of a pod and its gateway, differ.
LEMMA Labels ==
    ASSUME NEW p \in Pods, NEW q \in Pods
    PROVE  Ip!Gw(p) # q /\ (Ip!Gw(p) = Ip!Gw(q) => p = q)
  BY GwAssumption DEF Ip!Gw

\* Handing out a pair is a step of the allocator ...
LEMMA AllocateIsNext ==
    ASSUME NEW p \in Pods, NEW o \in Ip!HostOffsets, Ip!AllocatePair(p, o)
    PROVE  IpP!Next
  BY DEF IpP!Next, Ip!AllocatePair, Ip!Reuse, Ip!Advance, Ip!HostOffsets,
         Ip!ReusablePairs, Ip!AssignPair, Ip!Insert, Ip!Gw, Ip!Align, Ip!PairFits,
         IpP!AllocatePair, IpP!Reuse, IpP!Advance, IpP!HostOffsets,
         IpP!ReusablePairs, IpP!AssignPair, IpP!Insert, IpP!Gw, IpP!Align,
         IpP!PairFits

\* ... and so is taking one back.
LEMMA ReleaseIsNext ==
    ASSUME NEW p \in Pods, Ip!ReleasePair(p)
    PROVE  IpP!Next
  BY DEF IpP!Next, Ip!ReleasePair, Ip!OwnedBy, Ip!RetainOthers, Ip!Gw,
         IpP!ReleasePair, IpP!OwnedBy, IpP!RetainOthers, IpP!Gw

\* A pair given out: two addresses nobody holds, one of them the guest's.
LEMMA AllocateFacts ==
    ASSUME IpP!IInv, NEW p \in Pods, NEW o \in Ip!HostOffsets, Ip!AllocatePair(p, o)
    PROVE  /\ IpP!IInv'
           /\ o + 1 \in Ip!HostOffsets
           /\ DOMAIN allocated' = DOMAIN allocated \cup {o, o + 1}
           /\ allocated'[o] = Ip!Gw(p)
           /\ allocated'[o + 1] = p
           /\ \A x \in DOMAIN allocated :
                x \notin {o, o + 1} /\ allocated'[x] = allocated[x]
  <1>1. IpP!Next
    BY AllocateIsNext
  <1>2. IpP!IInv'
    BY <1>1, IpP!NextInv, HostCountAssumption, AllocatorAssumptions
  <1>3. o \in Nat /\ Ip!AssignPair(p, o)
    BY HostCountAssumption DEF Ip!AllocatePair, Ip!Reuse, Ip!Advance, Ip!HostOffsets
  <1>4. /\ DOMAIN allocated' = DOMAIN allocated \cup {o, o + 1}
        /\ allocated'[o] = Ip!Gw(p)
        /\ allocated'[o + 1] = p
        /\ \A x \in DOMAIN allocated : x \notin {o, o + 1} =>
             allocated'[x] = allocated[x]
    BY <1>3 DEF Ip!AssignPair, Ip!Insert
  <1>5. o + 1 \in Ip!HostOffsets
    BY <1>2, <1>4 DEF IpP!IInv, IpP!TypeOK, IpP!HostOffsets, Ip!HostOffsets
  <1>6. o \notin DOMAIN allocated /\ o + 1 \notin DOMAIN allocated
    <2>1. CASE Ip!Reuse(p, o)
      BY <2>1 DEF Ip!Reuse, Ip!ReusablePairs, IpP!IInv, IpP!NoDoubleUse
    <2>2. CASE Ip!Advance(p, o)
      <3>1. next_offset \in Nat /\ o = Ip!Align(next_offset)
        BY <2>2 DEF Ip!Advance, IpP!IInv, IpP!TypeOK
      <3>2. o >= next_offset
        BY <3>1 DEF Ip!Align
      <3>3. \A x \in DOMAIN allocated : x \in Nat /\ x < next_offset
        BY <3>1, HostCountAssumption
           DEF IpP!IInv, IpP!TypeOK, IpP!NoDoubleUse, IpP!HostOffsets
      <3> QED
        BY <1>3, <3>1, <3>2, <3>3
    <2> QED
      BY <2>1, <2>2 DEF Ip!AllocatePair
  <1> QED
    BY <1>2, <1>4, <1>5, <1>6

\* A release takes away what p holds, and nothing else.
LEMMA ReleaseFacts ==
    ASSUME IpP!IInv, NEW p \in Pods, Ip!ReleasePair(p)
    PROVE  /\ IpP!IInv'
           /\ DOMAIN allocated' \subseteq DOMAIN allocated
           /\ \A x \in DOMAIN allocated :
                x \in DOMAIN allocated' <=> allocated[x] \notin {p, Ip!Gw(p)}
           /\ \A x \in DOMAIN allocated' : allocated'[x] = allocated[x]
  <1>1. IpP!Next
    BY ReleaseIsNext
  <1>2. IpP!IInv'
    BY <1>1, IpP!NextInv, HostCountAssumption, AllocatorAssumptions
  <1> QED
    BY <1>2 DEF Ip!ReleasePair, Ip!OwnedBy, Ip!RetainOthers

\* A step that leaves the allocator alone.
LEMMA AllocatorSame ==
    ASSUME IpP!IInv, UNCHANGED ipVars
    PROVE  IpP!IInv'
  BY DEF ipVars, IpP!IInv, IpP!TypeOK, IpP!NoDoubleUse, IpP!PairIntact,
         IpP!NoBlockLost

\* The allocator's types are those TypeOK names.
LEMMA AllocatorTypes == IpP!IInv => Ip!TypeOK
  BY DEF IpP!IInv, IpP!TypeOK, Ip!TypeOK, IpP!HostOffsets, Ip!HostOffsets,
         IpP!Owners, Ip!Owners, IpP!PodIds, Ip!PodIds, IpP!Gw, Ip!Gw

---------------------------------------------------------------------------
(* The record of the pod in work. *)

\* The next step of an eviction.
LEMMA GotoEvict ==
    ASSUME TaskOK, NEW s, task.step \in EvictSteps, Goto(s)
    PROVE  task.pod \in Pods /\ task' = [step |-> s, pod |-> task.pod]
  BY DEF TaskOK, Goto, Idle, EvictSteps, BootSteps

\* The next step of a boot.
LEMMA GotoBoot ==
    ASSUME TaskOK, NEW s, task.step \in BootSteps, Goto(s)
    PROVE  /\ task.pod \in Pods /\ task.ip \in Ip!HostOffsets
           /\ task.cid \in Cids \cup {NoPid}
           /\ task' = [step |-> s, pod |-> task.pod, ip |-> task.ip, cid |-> task.cid]
  <1>1. task \in [step : BootSteps, pod : Pods, ip : Ip!HostOffsets, cid : Cids \cup {NoPid}]
    BY DEF TaskOK, Idle, EvictSteps, BootSteps
  <1> QED
    BY <1>1 DEF Goto

\* The step at which boot_microvm gets its CID changes two fields.
LEMMA ArmRecord ==
    ASSUME TaskOK, task.step \in BootSteps, NEW c,
           task' = [task EXCEPT !.step = "attest", !.cid = c]
    PROVE  /\ task.pod \in Pods /\ task.ip \in Ip!HostOffsets
           /\ task' = [step |-> "attest", pod |-> task.pod, ip |-> task.ip, cid |-> c]
  <1>1. task \in [step : BootSteps, pod : Pods, ip : Ip!HostOffsets, cid : Cids \cup {NoPid}]
    BY DEF TaskOK, Idle, EvictSteps, BootSteps
  <1> QED
    BY <1>1

\* A range grows with its upper end.
LEMMA RangeGrows ==
    ASSUME NEW a \in Int, NEW m \in Int, NEW n \in Int, m <= n
    PROVE  a..(m - 1) \subseteq a..(n - 1)
  OBVIOUS

\* CIDs are counted up: one that was handed out stays so.
LEMMA CidsGrow ==
    ASSUME next_cid \in Nat, next_cid >= FirstCid, next_cid' \in {next_cid, next_cid + 1}
    PROVE  /\ next_cid' \in Nat /\ next_cid' >= FirstCid
           /\ Cids \subseteq Cids'
           /\ next_cid \notin Cids
           /\ next_cid' = next_cid + 1 => next_cid \in Cids'
           /\ NoPid \notin Cids
  <1>1. next_cid' \in Nat /\ next_cid' >= next_cid /\ next_cid' >= FirstCid
    BY DEF FirstCid
  <1>2. Cids \subseteq Cids'
    <2>1. FirstCid \in Int /\ next_cid \in Int /\ next_cid' \in Int /\ next_cid <= next_cid'
      BY <1>1 DEF FirstCid
    <2>2. FirstCid..(next_cid - 1) \subseteq FirstCid..(next_cid' - 1)
      BY ONLY <2>1, RangeGrows
    <2> QED
      BY <2>2 DEF Cids
  <1>3. next_cid \notin Cids /\ NoPid \notin Cids
    BY DEF Cids, FirstCid, NoPid
  <1>4. next_cid' = next_cid + 1 => next_cid \in Cids'
    BY DEF Cids, FirstCid
  <1> QED
    BY <1>1, <1>2, <1>3, <1>4

---------------------------------------------------------------------------
(* Types. *)

\* An action of an eviction keeps the types.
LEMMA TypeEvict ==
    ASSUME TypeInv, Ip!TypeOK', FrameInv, NEW p \in Pods, EvictStep(p)
    PROVE  TypeInv'
  <1>1. next_cid' = next_cid /\ Cids' = Cids
    BY DEF EvictStep, BeginEviction, StopContainer, StopVm, StopVmFails, ReleaseAddress,
           Teardown, vmVars, Cids
  <1>2. CASE BeginEviction(p)
    BY <1>1, <1>2
       DEF BeginEviction, TypeInv, TypeOK, TaskOK, FrameInv, Active, EvictSteps, BootSteps,
           identVars, vmVars, hostVars, SandboxRecords
  <1>3. CASE StopContainer(p)
    <2>1. task.pod \in Pods /\ task' = [step |-> "release", pod |-> task.pod]
      BY <1>3, GotoEvict DEF StopContainer, At, EvictSteps, TypeInv
    <2> QED
      BY <1>1, <1>3, <2>1
         DEF StopContainer, TypeInv, TypeOK, TaskOK, EvictSteps, frameVars, identVars,
             vmVars, SandboxRecords
  <1>4. CASE StopVm(p)
    <2>1. task.pod \in Pods /\ task' = [step |-> "release", pod |-> task.pod]
      BY <1>4, GotoEvict DEF StopVm, At, EvictSteps, TypeInv
    <2> QED
      BY <1>1, <1>4, <2>1
         DEF StopVm, TypeInv, TypeOK, TaskOK, EvictSteps, frameVars, identVars, Disarm,
             UnregisterAttestation, Drop, SandboxRecords
  <1>5. CASE StopVmFails(p)
    BY <1>1, <1>5
       DEF StopVmFails, TypeInv, TypeOK, TaskOK, frameVars, identVars, hostVars,
           SandboxRecords
  <1>6. CASE ReleaseAddress(p)
    <2>1. task.pod \in Pods /\ task' = [step |-> "teardown", pod |-> task.pod]
      BY <1>6, GotoEvict DEF ReleaseAddress, At, EvictSteps, TypeInv
    <2>2. /\ DOMAIN src_identity' \subseteq DOMAIN src_identity
          /\ DOMAIN pod_source_ips' \subseteq DOMAIN pod_source_ips
          /\ netns' \subseteq netns
      BY <1>6 DEF ReleaseAddress, UnregisterIdentity, Drop, DestroyNetns, identVars
    <2> QED
      BY <1>1, <1>6, <2>1, <2>2
         DEF ReleaseAddress, TypeInv, TypeOK, TaskOK, EvictSteps, frameVars, vmVars,
             SandboxRecords
  <1>7. CASE Teardown(p)
    BY <1>1, <1>7
       DEF Teardown, TypeInv, TypeOK, TaskOK, frameVars, identVars, vmVars, hostVars,
           SandboxRecords, Drop
  <1> QED
    BY <1>2, <1>3, <1>4, <1>5, <1>6, <1>7 DEF EvictStep

\* An action of a boot keeps the types.
LEMMA TypeBoot ==
    ASSUME TypeInv, IpP!IInv, Ip!TypeOK', VmStepInv, NEW p \in Pods, BootStep(p)
    PROVE  TypeInv'
  <1>1. CASE RejectBoot(p) \/ RequestKey(p) \/ AllocateAddressFails(p)
    <2>1. TaskOK'
      BY <1>1 DEF RejectBoot, RequestKey, AllocateAddressFails, TypeInv, TaskOK, vmVars,
                  Cids
    <2> QED
      BY <1>1, <2>1 DEF RejectBoot, RequestKey, AllocateAddressFails, TypeInv, TypeOK,
                        frameVars, identVars, vmVars, hostVars, SandboxRecords, Cids
  <1>2. CASE AllocateAddress(p)
    <2>1. next_cid' = next_cid /\ Cids' = Cids
      BY <1>2 DEF AllocateAddress, vmVars, Cids
    <2>2. PICK o \in Ip!HostOffsets :
            /\ Ip!AllocatePair(p, o)
            /\ task' = [step |-> "register", pod |-> p, ip |-> o + 1, cid |-> NoPid]
      BY <1>2 DEF AllocateAddress
    <2>3. o + 1 \in Ip!HostOffsets
      BY <2>2, AllocateFacts
    <2>4. TaskOK'
      BY <2>2, <2>3 DEF TaskOK, BootSteps
    <2> QED
      BY <1>2, <2>1, <2>4 DEF AllocateAddress, TypeInv, TypeOK, frameVars, identVars,
                              vmVars, hostVars, SandboxRecords
  <1>3. CASE RegisterIdentity(p)
    <2>1. next_cid' = next_cid /\ Cids' = Cids
      BY <1>3 DEF RegisterIdentity, vmVars, Cids
    <2>2. /\ task.ip \in Ip!HostOffsets
          /\ task' \in [step : BootSteps, pod : Pods, ip : Ip!HostOffsets, cid : Cids \cup {NoPid}]
      BY <1>3, GotoBoot DEF RegisterIdentity, At, BootSteps, TypeInv
    <2>3. TaskOK'
      BY <2>1, <2>2 DEF TaskOK
    <2> QED
      BY <1>3, <2>1, <2>2, <2>3 DEF RegisterIdentity, TypeInv, TypeOK, Put, frameVars,
                                    vmVars, hostVars, SandboxRecords
  <1>4. CASE RegisterIdentityFails(p) \/ CleanUp(p)
    <2>1. next_cid' = next_cid /\ Cids' = Cids
      BY <1>4 DEF RegisterIdentityFails, CleanUp, vmVars, Cids
    <2>2. DOMAIN src_identity' \subseteq DOMAIN src_identity /\ pod_source_ips' = pod_source_ips
      BY <1>4 DEF RegisterIdentityFails, CleanUp, UnregisterIdentity, Drop, identVars
    <2> QED
      BY <1>4, <2>1, <2>2 DEF RegisterIdentityFails, CleanUp, TypeInv, TypeOK, TaskOK,
                              frameVars, vmVars, hostVars, SandboxRecords
  <1>5. CASE ArmGuard(p)
    <2>1. /\ next_cid' \in Nat /\ next_cid' >= FirstCid
          /\ Cids \subseteq Cids' /\ next_cid \in Cids'
      BY <1>5, CidsGrow DEF ArmGuard, TypeInv
    <2>2. task' \in [step : BootSteps, pod : Pods, ip : Ip!HostOffsets, cid : Cids' \cup {NoPid}]
      <3>1. /\ task.pod \in Pods /\ task.ip \in Ip!HostOffsets
            /\ task' = [step |-> "attest", pod |-> task.pod, ip |-> task.ip, cid |-> next_cid]
        BY <1>5, ArmRecord DEF ArmGuard, At, BootSteps, TypeInv
      <3> QED
        BY <2>1, <3>1 DEF BootSteps
    <2>3. TaskOK'
      BY <2>2 DEF TaskOK
    <2> QED
      BY <1>5, <2>1, <2>3 DEF ArmGuard, Arm, TypeInv, TypeOK, frameVars, identVars,
                              hostVars, SandboxRecords
  <1>6. CASE ArmGuardFails(p)
    <2>1. next_cid' \in Nat /\ next_cid' >= FirstCid /\ Cids \subseteq Cids'
      BY <1>6, CidsGrow DEF ArmGuardFails, TypeInv
    <2>2. task' \in [step : BootSteps, pod : Pods, ip : Ip!HostOffsets, cid : Cids' \cup {NoPid}]
      BY <1>6, <2>1, GotoBoot DEF ArmGuardFails, At, BootSteps, TypeInv
    <2>3. TaskOK'
      BY <2>2 DEF TaskOK
    <2> QED
      BY <1>6, <2>1, <2>3 DEF ArmGuardFails, TypeInv, TypeOK, frameVars, identVars,
                              hostVars, SandboxRecords
  <1>7. ASSUME \/ RegisterAttestation(p) \/ StartVm(p) \/ MeasureFails(p) \/ StartVmFails(p)
               \/ CreateNetns(p) \/ CreateNetnsFails(p)
               \/ ConfigureNetns(p) \/ ConfigureNetnsFails(p)
               \/ StartContainer(p) \/ AbortContainer(p)
        PROVE  TypeInv'
    <2>1. next_cid' = next_cid /\ Cids' = Cids
      BY <1>7 DEF RegisterAttestation, StartVm, MeasureFails, StartVmFails, AbortVm,
                  CreateNetns, CreateNetnsFails, ConfigureNetns, ConfigureNetnsFails,
                  StartContainer, AbortContainer, vmVars, Cids
    <2>2. task.step \in BootSteps /\ \E s \in BootSteps : Goto(s)
      BY <1>7 DEF RegisterAttestation, StartVm, MeasureFails, StartVmFails, AbortVm,
                  CreateNetns, CreateNetnsFails, ConfigureNetns, ConfigureNetnsFails,
                  StartContainer, AbortContainer, At, BootSteps
    <2>3. /\ task.ip \in Ip!HostOffsets /\ task.cid \in Cids \cup {NoPid}
          /\ task' \in [step : BootSteps, pod : Pods, ip : Ip!HostOffsets, cid : Cids \cup {NoPid}]
      BY <2>2, GotoBoot DEF TypeInv
    <2>4. TaskOK'
      BY <2>1, <2>3 DEF TaskOK
    <2>5. CASE RegisterAttestation(p) \/ StartVm(p)
      <3>1. task.cid \in Cids
        BY <2>5 DEF RegisterAttestation, StartVm, At, VmStepInv, TypeInv, TypeOK
      <3> QED
        BY <2>1, <2>3, <2>4, <2>5, <3>1
           DEF RegisterAttestation, StartVm, Sandbox, TypeInv, TypeOK, Put, frameVars,
               identVars, hostVars, SandboxRecords
    <2>6. CASE MeasureFails(p) \/ StartVmFails(p)
      <3>1. sandboxes' \subseteq SandboxRecords
        BY <2>3, <2>6 DEF MeasureFails, StartVmFails, Sandbox, TypeInv, TypeOK,
                          SandboxRecords
      <3>2. SandboxRecords' = SandboxRecords
        BY <2>1 DEF SandboxRecords
      <3> QED
        BY <2>1, <2>4, <2>6, <3>1, <3>2
           DEF MeasureFails, StartVmFails, AbortVm, UnregisterAttestation, Disarm, Drop,
               TypeInv, TypeOK, frameVars, identVars
    <2>7. CASE \/ CreateNetns(p) \/ CreateNetnsFails(p)
               \/ ConfigureNetns(p) \/ ConfigureNetnsFails(p)
      <3>1. netns' \subseteq netns \cup (Pods \ MicroVms)
        BY <2>7 DEF CreateNetns, CreateNetnsFails, ConfigureNetns, ConfigureNetnsFails,
                    DestroyNetns, hostVars
      <3> QED
        BY <2>1, <2>4, <2>7, <3>1
           DEF CreateNetns, CreateNetnsFails, ConfigureNetns, ConfigureNetnsFails,
               TypeInv, TypeOK, frameVars, identVars, vmVars, hostVars, SandboxRecords
    <2>8. CASE StartContainer(p) \/ AbortContainer(p)
      <3>1. p \notin MicroVms
        BY <2>8 DEF StartContainer, AbortContainer, At, VmStepInv
      <3>2. netns' \subseteq netns
        BY <2>8 DEF StartContainer, AbortContainer, DestroyNetns
      <3> QED
        BY <2>1, <2>3, <2>4, <2>8, <3>1, <3>2
           DEF StartContainer, AbortContainer, Sandbox, TypeInv, TypeOK, frameVars,
               identVars, vmVars, SandboxRecords
    <2> QED
      BY <1>7, <2>5, <2>6, <2>7, <2>8
  <1>8. CASE CommitPod(p)
    <2>1. next_cid' = next_cid /\ Cids' = Cids
      BY <1>8 DEF CommitPod, vmVars, Cids
    <2>2. task.cid \in Cids \cup {NoPid}
      BY <1>8 DEF CommitPod, At, TypeInv, TaskOK, Idle, EvictSteps, BootSteps
    <2> QED
      BY <1>8, <2>1, <2>2
         DEF CommitPod, Put, TypeInv, TypeOK, TaskOK, frameVars, vmVars, hostVars,
             SandboxRecords
  <1> QED
    BY <1>1, <1>2, <1>3, <1>4, <1>5, <1>6, <1>7, <1>8 DEF BootStep

---------------------------------------------------------------------------
(* Addresses. *)

\* A step that touches neither addresses nor records, and takes the pod in work no
\* further than the address invariant looks.
LEMMA AddressSame ==
    ASSUME TypeInv, AddressInv, UNCHANGED <<ipVars, frameVars, pods, identVars>>,
           \/ task' = task
           \/ /\ task.step \in BootSteps \ {"register"}
              /\ task'.step \in BootSteps \ {"register"}
              /\ task'.pod = task.pod /\ task'.ip = task.ip
           \/ task.step = "stop" /\ task'.step = "release" /\ task'.pod = task.pod
           \/ task.step = "stop" /\ task'.step = "idle"
    PROVE  AddressInv'
  <1>1. /\ pods' = pods /\ desired' = desired /\ toEvict' = toEvict /\ toBoot' = toBoot
        /\ pod_source_ips' = pod_source_ips /\ src_identity' = src_identity
        /\ allocated' = allocated /\ Active' = Active
    BY DEF ipVars, frameVars, identVars, Active
  <1>2. IpP!IInv'
    BY AllocatorSame DEF AddressInv
  <1>3. AttributedInv'
    BY <1>1 DEF AddressInv, AttributedInv, Holds, Attributed
  <1>4. FrameInv'
    BY <1>1 DEF AddressInv, FrameInv, WorkloadsOf
  <1>5. EvictInv'
    BY <1>1 DEF AddressInv, EvictInv, Evicting, EvictSteps, BootSteps, Holds, HoldsNone
  <1>6. BootInv'
    BY <1>1 DEF AddressInv, BootInv, Booting, EvictSteps, BootSteps, Attributed
  <1>7. KeyInv'
    BY <1>1 DEF AddressInv, KeyInv, BootSteps
  <1>8. LeakInv'
    BY <1>1 DEF AddressInv, LeakInv, Booting, EvictSteps, BootSteps
  <1> QED
    BY <1>2, <1>3, <1>4, <1>5, <1>6, <1>7, <1>8 DEF AddressInv

\* The diff of a new frame: what it evicts lives, what it boots does not.
LEMMA AddressNewFrame ==
    ASSUME TypeInv, AddressInv, NEW d \in SUBSET Pods, NewFrame(d)
    PROVE  AddressInv'
  <1>1. /\ pods' = pods /\ desired' = d /\ task = Idle /\ task' = task
        /\ pod_source_ips' = pod_source_ips /\ src_identity' = src_identity
        /\ allocated' = allocated /\ Active' = Active /\ UNCHANGED ipVars
    BY DEF NewFrame, ipVars, identVars, Active
  <1>2. IpP!IInv'
    BY <1>1, AllocatorSame DEF AddressInv
  <1>3. AttributedInv'
    BY <1>1 DEF AddressInv, AttributedInv, Holds, Attributed
  <1>4. FrameInv'
    BY <1>1 DEF NewFrame, Reconcile, FrameInv, WorkloadsOf
  <1>5. EvictInv' /\ BootInv' /\ KeyInv'
    BY <1>1 DEF EvictInv, BootInv, KeyInv, Evicting, Booting, EvictSteps, BootSteps, Idle
  <1>6. LeakInv'
    BY <1>1 DEF AddressInv, LeakInv, Booting
  <1> QED
    BY <1>2, <1>3, <1>4, <1>5, <1>6 DEF AddressInv

\* begin_eviction: the record is no longer alive, its address is still its own.
LEMMA AddressBeginEviction ==
    ASSUME TypeInv, AddressInv, NEW p \in Pods, BeginEviction(p)
    PROVE  AddressInv'
  <1>1. /\ desired' = desired /\ toBoot' = toBoot /\ toEvict' = toEvict \ {p}
        /\ pod_source_ips' = pod_source_ips /\ src_identity' = src_identity
        /\ allocated' = allocated /\ UNCHANGED ipVars /\ p \in toEvict
        /\ task.step = "idle" /\ task'.step = "stop" /\ task'.pod = p
    BY DEF BeginEviction, ipVars, identVars, Idle
  <1>2. p \in Active /\ p \in DOMAIN pods
    BY <1>1 DEF AddressInv, FrameInv, Active
  <1>3. /\ DOMAIN pods' = DOMAIN pods /\ pods'[p].state = "Terminating"
        /\ Active' = Active \ {p}
    BY <1>2 DEF BeginEviction, Active, TypeInv, TypeOK
  <1>4. IpP!IInv'
    BY <1>1, AllocatorSame DEF AddressInv
  <1>5. AttributedInv'
    BY <1>1, <1>3 DEF AddressInv, AttributedInv, Holds, Attributed
  <1>6. FrameInv'
    BY <1>1, <1>3 DEF AddressInv, FrameInv, WorkloadsOf
  <1>7. EvictInv'
    BY <1>1, <1>2, <1>3 DEF AddressInv, EvictInv, AttributedInv, Holds
  <1>8. BootInv' /\ KeyInv' /\ LeakInv'
    BY <1>1, <1>3 DEF AddressInv, BootInv, KeyInv, LeakInv, Booting, BootSteps
  <1> QED
    BY <1>4, <1>5, <1>6, <1>7, <1>8 DEF AddressInv

\* The address of another pod that has one is not taken by a release of p's.
LEMMA OthersKeep ==
    ASSUME IpP!IInv, NEW p \in Pods, NEW q \in Pods, p # q, Holds(q), Ip!ReleasePair(p),
           q \in DOMAIN pod_source_ips', pod_source_ips'[q] = pod_source_ips[q]
    PROVE  Holds(q)'
  <1>1. allocated[pod_source_ips[q]] \notin {p, Ip!Gw(p)}
    BY Labels DEF Holds
  <1>2. /\ pod_source_ips[q] \in DOMAIN allocated'
        /\ allocated'[pod_source_ips[q]] = allocated[pod_source_ips[q]]
    BY <1>1, ReleaseFacts DEF Holds
  <1> QED
    BY <1>2 DEF Holds

\* release_p2p_pair and unregister, at the end of an eviction: no live pod loses its
\* address or its identity, and nothing of the evicted pod's remains.
LEMMA AddressReleaseAddress ==
    ASSUME TypeInv, AddressInv, NEW p \in Pods, ReleaseAddress(p)
    PROVE  AddressInv'
  <1>1. /\ task.step = "release" /\ task.pod = p /\ pods' = pods /\ desired' = desired
        /\ toEvict' = toEvict /\ toBoot' = toBoot /\ Active' = Active
    BY DEF ReleaseAddress, At, frameVars, Active
  <1>2. p \in DOMAIN pods /\ pods[p].state = "Terminating" /\ Holds(p) /\ p \notin Active
    BY <1>1 DEF AddressInv, EvictInv, Evicting, EvictSteps, Active
  <1>3. /\ src_identity' \in {src_identity, Drop(src_identity, pod_source_ips[p])}
        /\ pod_source_ips' = Drop(pod_source_ips, p)
        /\ Ip!ReleasePair(p)
    BY <1>2 DEF ReleaseAddress, UnregisterIdentity, Holds
  <1>4. task'.step = "teardown" /\ task'.pod = p
    BY <1>1, GotoEvict DEF ReleaseAddress, TypeInv, EvictSteps
  <1>5. IpP!IInv
    BY DEF AddressInv
  <1>6. /\ IpP!IInv'
        /\ DOMAIN allocated' \subseteq DOMAIN allocated
        /\ \A x \in DOMAIN allocated :
             x \in DOMAIN allocated' <=> allocated[x] \notin {p, Ip!Gw(p)}
        /\ \A x \in DOMAIN allocated' : allocated'[x] = allocated[x]
    BY <1>3, <1>5, ReleaseFacts
  <1>7. AttributedInv'
    <2> SUFFICES ASSUME NEW q \in Active PROVE (Holds(q) /\ Attributed(pod_source_ips[q], q))'
      BY <1>1 DEF AttributedInv
    <2>1. q \in Pods /\ q # p /\ Holds(q) /\ Attributed(pod_source_ips[q], q)
      BY <1>2 DEF AddressInv, AttributedInv, Active, TypeInv, TypeOK
    <2>2. pod_source_ips[q] # pod_source_ips[p]
      BY <1>2, <2>1 DEF Holds
    <2>3. q \in DOMAIN pod_source_ips' /\ pod_source_ips'[q] = pod_source_ips[q]
      BY <1>3, <2>1 DEF Drop, Holds
    <2>4. Holds(q)'
      BY <1>3, <1>5, <2>1, <2>3, OthersKeep
    <2>5. Attributed(pod_source_ips[q], q)'
      BY <1>3, <2>1, <2>2, <2>3 DEF Attributed, Drop
    <2> QED
      BY <2>4, <2>5
  <1>8. FrameInv'
    BY <1>1 DEF AddressInv, FrameInv, WorkloadsOf
  <1>9. EvictInv'
    BY <1>1, <1>2, <1>4, <1>6 DEF EvictInv, HoldsNone
  <1>10. BootInv' /\ KeyInv'
    BY <1>4 DEF BootInv, KeyInv, Booting, BootSteps
  <1>11. LeakInv'
    BY <1>1, <1>4, <1>6 DEF AddressInv, LeakInv, Booting, BootSteps
  <1> QED
    BY <1>6, <1>7, <1>8, <1>9, <1>10, <1>11 DEF AddressInv

\* remove_pod: the record goes, and with it nothing that still has an address.
LEMMA AddressTeardown ==
    ASSUME TypeInv, AddressInv, NEW p \in Pods, Teardown(p)
    PROVE  AddressInv'
  <1>1. /\ task.step = "teardown" /\ task.pod = p /\ task'.step = "idle"
        /\ desired' = desired /\ toEvict' = toEvict /\ toBoot' = toBoot
        /\ pod_source_ips' = pod_source_ips /\ src_identity' = src_identity
        /\ allocated' = allocated /\ UNCHANGED ipVars
    BY DEF Teardown, At, frameVars, identVars, ipVars, Idle
  <1>2. p \in DOMAIN pods /\ pods[p].state = "Terminating" /\ HoldsNone(p)
    BY <1>1 DEF AddressInv, EvictInv, Evicting, EvictSteps
  <1>3. DOMAIN pods \ {p} \subseteq DOMAIN pods' /\ Active' = Active
    BY <1>2 DEF Teardown, Drop, Active
  <1>4. IpP!IInv'
    BY <1>1, AllocatorSame DEF AddressInv
  <1>5. AttributedInv'
    BY <1>1, <1>3 DEF AddressInv, AttributedInv, Holds, Attributed
  <1>6. FrameInv'
    BY <1>1, <1>3 DEF AddressInv, FrameInv, WorkloadsOf
  <1>7. EvictInv' /\ BootInv' /\ KeyInv'
    BY <1>1 DEF EvictInv, BootInv, KeyInv, Evicting, Booting, EvictSteps, BootSteps
  <1>8. LeakInv'
    <2> SUFFICES ASSUME NEW o \in DOMAIN allocated
                 PROVE  \E q \in Pods : q \in DOMAIN pods' /\ allocated[o] \in {q, Ip!Gw(q)}
      BY <1>1 DEF LeakInv
    <2>1. PICK q \in Pods : q \in DOMAIN pods /\ allocated[o] \in {q, Ip!Gw(q)}
      BY <1>1 DEF AddressInv, LeakInv, Booting, BootSteps
    <2>2. q # p
      BY <1>2, <2>1 DEF HoldsNone
    <2> QED
      BY <1>3, <2>1, <2>2
  <1> QED
    BY <1>4, <1>5, <1>6, <1>7, <1>8 DEF AddressInv

\* A boot that is refused at once, or when no address is left, and one that begins by
\* requesting its key.
LEMMA AddressRequest ==
    ASSUME TypeInv, AddressInv, NEW p \in Pods,
           RejectBoot(p) \/ RequestKey(p) \/ AllocateAddressFails(p)
    PROVE  AddressInv'
  <1>1. /\ desired' = desired /\ toEvict' = toEvict /\ toBoot' \subseteq toBoot
        /\ pod_source_ips' = pod_source_ips /\ src_identity' = src_identity
        /\ pods' = pods /\ Active' = Active
        /\ allocated' = allocated /\ UNCHANGED ipVars
    BY DEF RejectBoot, RequestKey, AllocateAddressFails, frameVars, identVars, ipVars,
           Active
  <1>2. /\ task.step \in {"idle", "key"}
        /\ \/ task'.step = "idle"
           \/ task'.step = "key" /\ task'.pod = p /\ p \in toBoot \ toBoot'
    BY DEF RejectBoot, RequestKey, AllocateAddressFails, BootNext, At, Idle
  <1>3. IpP!IInv'
    BY <1>1, AllocatorSame DEF AddressInv
  <1>4. AttributedInv'
    BY <1>1 DEF AddressInv, AttributedInv, Holds, Attributed
  <1>5. FrameInv'
    BY <1>1 DEF AddressInv, FrameInv, WorkloadsOf
  <1>6. EvictInv' /\ BootInv' /\ LeakInv'
    BY <1>1, <1>2 DEF AddressInv, EvictInv, BootInv, LeakInv, Evicting, Booting,
                      EvictSteps, BootSteps
  <1>7. KeyInv'
    BY <1>1, <1>2 DEF AddressInv, FrameInv, KeyInv
  <1> QED
    BY <1>3, <1>4, <1>5, <1>6, <1>7 DEF AddressInv

\* allocate_p2p_pair: the pair is nobody's, so every other pod keeps its own.
LEMMA AddressAllocate ==
    ASSUME TypeInv, AddressInv, NEW p \in Pods, AllocateAddress(p)
    PROVE  AddressInv'
  <1>1. /\ desired' = desired /\ toEvict' = toEvict /\ toBoot' = toBoot
        /\ pod_source_ips' = pod_source_ips /\ src_identity' = src_identity
        /\ pods' = pods /\ task.step = "key" /\ task.pod = p /\ Active' = Active
    BY DEF AllocateAddress, At, frameVars, identVars, Active
  <1>2. PICK o \in Ip!HostOffsets :
          /\ Ip!AllocatePair(p, o)
          /\ task' = [step |-> "register", pod |-> p, ip |-> o + 1, cid |-> NoPid]
    BY DEF AllocateAddress
  <1>3. IpP!IInv
    BY DEF AddressInv
  <1>4. /\ IpP!IInv'
        /\ DOMAIN allocated' = DOMAIN allocated \cup {o, o + 1}
        /\ allocated'[o] = Ip!Gw(p)
        /\ allocated'[o + 1] = p
        /\ \A x \in DOMAIN allocated : allocated'[x] = allocated[x]
    BY <1>2, <1>3, AllocateFacts
  <1>5. task'.step = "register" /\ task'.pod = p /\ task'.ip = o + 1
    BY <1>2
  <1>6. AttributedInv'
    BY <1>1, <1>4 DEF AddressInv, AttributedInv, Holds, Attributed
  <1>7. FrameInv'
    BY <1>1 DEF AddressInv, FrameInv, WorkloadsOf
  <1>8. EvictInv'
    BY <1>5 DEF EvictInv, Evicting, EvictSteps
  <1>9. BootInv' /\ KeyInv'
    BY <1>1, <1>4, <1>5 DEF AddressInv, KeyInv, BootInv
  <1>10. LeakInv'
    <2>1. Booting' /\ task'.pod = p
      BY <1>5 DEF Booting, BootSteps
    <2> SUFFICES ASSUME NEW x \in DOMAIN allocated'
                 PROVE  \E q \in Pods : /\ q \in DOMAIN pods \/ q = p
                                        /\ allocated'[x] \in {q, Ip!Gw(q)}
      BY <1>1, <2>1 DEF LeakInv
    <2>2. CASE x \in DOMAIN allocated
      BY <1>1, <1>4, <2>2 DEF AddressInv, LeakInv, Booting, BootSteps
    <2>3. CASE x \in {o, o + 1}
      BY <1>4, <2>3
    <2> QED
      BY <1>4, <2>2, <2>3
  <1> QED
    BY <1>4, <1>6, <1>7, <1>8, <1>9, <1>10 DEF AddressInv

\* A live pod's address is not the one of the boot in work.
LEMMA NotTheBoots ==
    ASSUME AddressInv, Booting, NEW q \in Active
    PROVE  q # task.pod /\ pod_source_ips[q] # task.ip
  BY DEF AddressInv, AttributedInv, Holds, BootInv

\* The identity of the pod being booted, at an address no live pod has.
LEMMA AddressRegister ==
    ASSUME TypeInv, AddressInv, NEW p \in Pods, RegisterIdentity(p)
    PROVE  AddressInv'
  <1>1. /\ desired' = desired /\ toEvict' = toEvict /\ toBoot' = toBoot
        /\ pod_source_ips' = pod_source_ips
        /\ src_identity' = Put(src_identity, task.ip, WorkloadOf[p])
        /\ pods' = pods /\ Active' = Active
        /\ allocated' = allocated /\ UNCHANGED ipVars
        /\ task.step = "register" /\ task.pod = p /\ Booting
    BY DEF RegisterIdentity, At, frameVars, ipVars, Active, Booting, BootSteps
  <1>2. task'.step = "launch" /\ task'.pod = p /\ task'.ip = task.ip
    BY <1>1, GotoBoot DEF RegisterIdentity, TypeInv, Booting
  <1>3. IpP!IInv'
    BY <1>1, AllocatorSame DEF AddressInv
  <1>4. AttributedInv'
    <2> SUFFICES ASSUME NEW q \in Active PROVE (Holds(q) /\ Attributed(pod_source_ips[q], q))'
      BY <1>1 DEF AttributedInv
    <2>1. Holds(q) /\ Attributed(pod_source_ips[q], q) /\ pod_source_ips[q] # task.ip
      BY <1>1, NotTheBoots DEF AddressInv, AttributedInv
    <2> QED
      BY <1>1, <2>1 DEF Holds, Attributed, Put
  <1>5. FrameInv'
    BY <1>1 DEF AddressInv, FrameInv, WorkloadsOf
  <1>6. EvictInv'
    BY <1>2 DEF EvictInv, Evicting, EvictSteps
  <1>7. BootInv' /\ KeyInv'
    BY <1>1, <1>2 DEF AddressInv, BootInv, KeyInv, Attributed, Put
  <1>8. LeakInv'
    BY <1>1, <1>2 DEF AddressInv, LeakInv, Booting, BootSteps
  <1> QED
    BY <1>3, <1>4, <1>5, <1>6, <1>7, <1>8 DEF AddressInv

\* A failed boot takes its address back, from nobody who is alive.
LEMMA AddressTakeBack ==
    ASSUME TypeInv, AddressInv, NEW p \in Pods, RegisterIdentityFails(p) \/ CleanUp(p)
    PROVE  AddressInv'
  <1>1. /\ desired' = desired /\ toEvict' = toEvict /\ toBoot' = toBoot
        /\ pod_source_ips' = pod_source_ips
        /\ src_identity' \in {src_identity, Drop(src_identity, task.ip)}
        /\ pods' = pods /\ Active' = Active /\ Ip!ReleasePair(p)
        /\ Booting /\ task.pod = p /\ task'.step = "idle"
    BY DEF RegisterIdentityFails, CleanUp, UnregisterIdentity, At, frameVars, identVars,
           Active, Booting, BootSteps, Idle
  <1>2. IpP!IInv
    BY DEF AddressInv
  <1>3. /\ IpP!IInv'
        /\ DOMAIN allocated' \subseteq DOMAIN allocated
        /\ \A x \in DOMAIN allocated :
             x \in DOMAIN allocated' <=> allocated[x] \notin {p, Ip!Gw(p)}
        /\ \A x \in DOMAIN allocated' : allocated'[x] = allocated[x]
    BY <1>1, <1>2, ReleaseFacts
  <1>4. AttributedInv'
    <2> SUFFICES ASSUME NEW q \in Active PROVE (Holds(q) /\ Attributed(pod_source_ips[q], q))'
      BY <1>1 DEF AttributedInv
    <2>1. /\ q \in Pods /\ q # p /\ Holds(q) /\ Attributed(pod_source_ips[q], q)
          /\ pod_source_ips[q] # task.ip
      BY <1>1, NotTheBoots DEF AddressInv, AttributedInv, Active, TypeInv, TypeOK
    <2>2. q \in DOMAIN pod_source_ips' /\ pod_source_ips'[q] = pod_source_ips[q]
      BY <1>1, <2>1 DEF Holds
    <2>3. Holds(q)'
      BY <1>1, <1>2, <2>1, <2>2, OthersKeep
    <2>4. Attributed(pod_source_ips[q], q)'
      BY <1>1, <2>1 DEF Attributed, Drop
    <2> QED
      BY <2>3, <2>4
  <1>5. FrameInv'
    BY <1>1 DEF AddressInv, FrameInv, WorkloadsOf
  <1>6. EvictInv' /\ BootInv' /\ KeyInv'
    BY <1>1 DEF EvictInv, BootInv, KeyInv, Evicting, Booting, EvictSteps, BootSteps
  <1>7. LeakInv'
    <2> SUFFICES ASSUME NEW x \in DOMAIN allocated'
                 PROVE  \E q \in Pods : q \in DOMAIN pods /\ allocated'[x] \in {q, Ip!Gw(q)}
      BY <1>1 DEF LeakInv
    <2>1. /\ x \in DOMAIN allocated /\ allocated'[x] = allocated[x]
          /\ allocated[x] \notin {p, Ip!Gw(p)}
      BY <1>3
    <2> QED
      BY <1>1, <2>1 DEF AddressInv, LeakInv
  <1> QED
    BY <1>3, <1>4, <1>5, <1>6, <1>7 DEF AddressInv

\* The record of a pod that came up: it lives, with the address of its boot.
LEMMA AddressCommit ==
    ASSUME TypeInv, AddressInv, NEW p \in Pods, CommitPod(p)
    PROVE  AddressInv'
  <1>1. /\ desired' = desired /\ toEvict' = toEvict /\ toBoot' = toBoot
        /\ pod_source_ips' = Put(pod_source_ips, p, task.ip)
        /\ src_identity' = src_identity
        /\ pods' = Put(pods, p, [state |-> "Booting", pid |-> task.cid])
        /\ allocated' = allocated /\ UNCHANGED ipVars
        /\ task.step = "commit" /\ task.pod = p /\ task'.step = "idle"
    BY DEF CommitPod, At, frameVars, ipVars, Idle
  <1>2. /\ p \notin Active /\ p \in desired \ toBoot /\ p \notin toEvict
        /\ task.ip \in DOMAIN allocated /\ allocated[task.ip] = p /\ Attributed(task.ip, p)
    BY <1>1 DEF AddressInv, BootInv, Booting, BootSteps, FrameInv
  <1>3. DOMAIN pods' = DOMAIN pods \cup {p} /\ Active' = Active \cup {p}
    BY <1>1 DEF Put, Active
  <1>4. IpP!IInv'
    BY <1>1, AllocatorSame DEF AddressInv
  <1>5. AttributedInv'
    BY <1>1, <1>2, <1>3 DEF AddressInv, AttributedInv, Holds, Attributed, Put
  <1>6. FrameInv'
    BY <1>1, <1>2, <1>3 DEF AddressInv, FrameInv, WorkloadsOf
  <1>7. EvictInv' /\ BootInv' /\ KeyInv'
    BY <1>1 DEF EvictInv, BootInv, KeyInv, Evicting, Booting, EvictSteps, BootSteps
  <1>8. LeakInv'
    BY <1>1, <1>3 DEF AddressInv, LeakInv
  <1> QED
    BY <1>4, <1>5, <1>6, <1>7, <1>8 DEF AddressInv

\* What the probe loop writes leaves a live pod alive, and no other.
LEMMA AddressProbe ==
    ASSUME TypeInv, AddressInv, NEW p \in Pods, Promote(p) \/ Restart(p)
    PROVE  AddressInv'
  <1>1. /\ desired' = desired /\ toEvict' = toEvict /\ toBoot' = toBoot
        /\ pod_source_ips' = pod_source_ips /\ src_identity' = src_identity
        /\ allocated' = allocated /\ UNCHANGED ipVars /\ task' = task
    BY DEF Promote, Restart, SetState, frameVars, ipVars, identVars
  <1>2. /\ DOMAIN pods' = DOMAIN pods /\ Active' = Active
        /\ \A q \in DOMAIN pods : pods[q].state = "Terminating" => pods'[q] = pods[q]
    BY DEF Promote, Restart, SetState, Active, TypeInv, TypeOK
  <1>3. IpP!IInv'
    BY <1>1, AllocatorSame DEF AddressInv
  <1>4. AttributedInv'
    BY <1>1, <1>2 DEF AddressInv, AttributedInv, Holds, Attributed
  <1>5. FrameInv'
    BY <1>1, <1>2 DEF AddressInv, FrameInv, WorkloadsOf
  <1>6. EvictInv'
    BY <1>1, <1>2 DEF AddressInv, EvictInv, Evicting, Holds, HoldsNone
  <1>7. BootInv' /\ KeyInv' /\ LeakInv'
    BY <1>1, <1>2 DEF AddressInv, BootInv, KeyInv, LeakInv, Booting, Attributed
  <1> QED
    BY <1>3, <1>4, <1>5, <1>6, <1>7 DEF AddressInv

\* Every step of an eviction keeps the address invariant.
LEMMA AddressEvict ==
    ASSUME TypeInv, AddressInv, NEW p \in Pods, EvictStep(p)
    PROVE  AddressInv'
  <1>1. ASSUME StopContainer(p) \/ StopVm(p)
        PROVE  AddressInv'
    <2>1. /\ UNCHANGED <<ipVars, frameVars, pods, identVars>>
          /\ task.step = "stop" /\ Goto("release")
      BY <1>1 DEF StopContainer, StopVm, At
    <2>2. task'.step = "release" /\ task'.pod = task.pod
      BY <2>1, GotoEvict DEF TypeInv, EvictSteps
    <2> QED
      BY <2>1, <2>2, AddressSame
  <1>2. ASSUME StopVmFails(p)
        PROVE  AddressInv'
    <2>1. /\ UNCHANGED <<ipVars, frameVars, pods, identVars>>
          /\ task.step = "stop" /\ task'.step = "idle"
      BY <1>2 DEF StopVmFails, At, Idle
    <2> QED
      BY <2>1, AddressSame
  <1> QED
    BY <1>1, <1>2, AddressBeginEviction, AddressReleaseAddress, AddressTeardown DEF EvictStep

\* Every step of a boot keeps the address invariant.
LEMMA AddressBoot ==
    ASSUME TypeInv, AddressInv, NEW p \in Pods, BootStep(p)
    PROVE  AddressInv'
  <1>1. ASSUME \/ ArmGuardFails(p) \/ RegisterAttestation(p) \/ StartVm(p)
               \/ MeasureFails(p) \/ StartVmFails(p) \/ CreateNetns(p) \/ CreateNetnsFails(p)
               \/ ConfigureNetns(p) \/ ConfigureNetnsFails(p)
               \/ StartContainer(p) \/ AbortContainer(p)
        PROVE  AddressInv'
    <2>1. /\ UNCHANGED <<ipVars, frameVars, pods, identVars>>
          /\ task.step \in BootSteps \ {"register"}
          /\ \E s \in BootSteps \ {"register"} : Goto(s)
      BY <1>1 DEF ArmGuardFails, RegisterAttestation, StartVm, MeasureFails, StartVmFails,
                  AbortVm, CreateNetns, CreateNetnsFails, ConfigureNetns,
                  ConfigureNetnsFails, StartContainer, AbortContainer, At, BootSteps
    <2>2. /\ task'.step \in BootSteps \ {"register"}
          /\ task'.pod = task.pod /\ task'.ip = task.ip
      BY <2>1, GotoBoot DEF TypeInv
    <2> QED
      BY <2>1, <2>2, AddressSame
  <1>2. ASSUME ArmGuard(p)
        PROVE  AddressInv'
    <2>1. /\ UNCHANGED <<ipVars, frameVars, pods, identVars>>
          /\ task.step = "launch"
          /\ task' = [task EXCEPT !.step = "attest", !.cid = next_cid]
      BY <1>2 DEF ArmGuard, At
    <2>2. task'.step = "attest" /\ task'.pod = task.pod /\ task'.ip = task.ip
      BY <2>1, ArmRecord DEF TypeInv, BootSteps
    <2>3. task.step \in BootSteps \ {"register"} /\ task'.step \in BootSteps \ {"register"}
      BY <2>1, <2>2 DEF BootSteps
    <2> QED
      BY <2>1, <2>2, <2>3, AddressSame
  <1> QED
    BY <1>1, <1>2, AddressRequest, AddressAllocate, AddressRegister, AddressTakeBack,
       AddressCommit
       DEF BootStep

---------------------------------------------------------------------------
(* VMs. *)

\* Steps of the task at which the VM invariant asks for nothing.
QuietSteps == {"idle", "release", "teardown", "key", "register", "launch", "failed"}

\* A step that touches no adapter, guard or attestation material, keeps the CIDs of the
\* live pods, and leaves no VM in the making.
LEMMA VmSame ==
    ASSUME VmInv, UNCHANGED <<microvms, guards, attest>>,
           \A s \in sandboxes' : s \in sandboxes \/ s.pod \notin MicroVms,
           Active' \subseteq Active, \A q \in Active' : pods'[q].pid = pods[q].pid,
           task'.step \in QuietSteps
    PROVE  VmInv'
  <1>1. KeptInv'
    BY DEF VmInv, KeptInv, VmKept
  <1>2. VmStepInv'
    BY DEF VmStepInv, QuietSteps
  <1>3. GuardedVm'
    BY DEF VmInv, GuardedVm
  <1> QED
    BY <1>1, <1>2, <1>3 DEF VmInv

\* begin_eviction: the VM to be stopped still has its adapter and its material.
LEMMA VmBeginEviction ==
    ASSUME TypeInv, AddressInv, VmInv, NEW p \in Pods, BeginEviction(p)
    PROVE  VmInv'
  <1>1. /\ microvms' = microvms /\ guards' = guards /\ attest' = attest
        /\ sandboxes' = sandboxes /\ task'.step = "stop" /\ task'.pod = p
    BY DEF BeginEviction, vmVars, hostVars
  <1>2. p \in Active /\ p \in DOMAIN pods
    BY DEF BeginEviction, AddressInv, FrameInv, Active
  <1>3. /\ Active' \subseteq Active
        /\ \A q \in DOMAIN pods : pods'[q].pid = pods[q].pid
    BY <1>2 DEF BeginEviction, Active, TypeInv, TypeOK
  <1>4. KeptInv'
    BY <1>1, <1>3 DEF VmInv, KeptInv, VmKept, Active
  <1>5. VmStepInv'
    BY <1>1, <1>2, <1>3 DEF VmInv, KeptInv, VmStepInv, VmKept
  <1>6. GuardedVm'
    BY <1>1 DEF VmInv, GuardedVm
  <1> QED
    BY <1>4, <1>5, <1>6 DEF VmInv

\* The CID of the VM being stopped is no live pod's.
LEMMA StoppedIsNotLive ==
    ASSUME AddressInv, VmInv, task.step = "stop", task.pod \in MicroVms,
           NEW q \in Active, q \in MicroVms
    PROVE  /\ VmKept(pods[task.pod].pid, task.pod)
           /\ VmKept(pods[q].pid, q) /\ pods[q].pid # pods[task.pod].pid
  <1>1. VmKept(pods[task.pod].pid, task.pod) /\ VmKept(pods[q].pid, q)
    BY DEF VmInv, VmStepInv, KeptInv
  <1>2. task.pod \notin Active
    BY DEF AddressInv, EvictInv, Evicting, EvictSteps, Active
  <1> QED
    BY <1>1, <1>2 DEF VmKept

\* MicroVmAdapter::stop takes down one VM, with its guard and its material.
LEMMA VmStop ==
    ASSUME TypeInv, AddressInv, VmInv, NEW p \in Pods, StopVm(p)
    PROVE  VmInv'
  <1> DEFINE cid == pods[p].pid
  <1>1. /\ task.step = "stop" /\ task.pod = p /\ p \in MicroVms /\ pods' = pods
        /\ attest' = Drop(attest, cid) /\ Active' = Active
    BY DEF StopVm, At, UnregisterAttestation, Active
  <1>2. VmKept(cid, p)
    BY <1>1 DEF VmInv, VmStepInv
  <1>3. /\ microvms' = microvms \ {cid} /\ guards' = guards \ {cid}
        /\ sandboxes' = {s \in sandboxes : s.handle # cid}
    BY <1>2 DEF StopVm, Disarm, VmKept
  <1>4. task'.step = "release"
    BY <1>1, GotoEvict DEF StopVm, TypeInv, EvictSteps
  <1>5. KeptInv'
    <2> SUFFICES ASSUME NEW q \in Active, q \in MicroVms PROVE VmKept(pods[q].pid, q)'
      BY <1>1 DEF KeptInv
    <2>1. VmKept(pods[q].pid, q) /\ pods[q].pid # cid
      BY <1>1, StoppedIsNotLive
    <2> QED
      BY <1>1, <1>3, <2>1 DEF VmKept, Drop
  <1>6. VmStepInv'
    BY <1>4 DEF VmStepInv
  <1>7. GuardedVm'
    BY <1>1, <1>3 DEF VmInv, GuardedVm, Drop
  <1> QED
    BY <1>5, <1>6, <1>7 DEF VmInv

\* A failed shutdown forgets the adapter, and leaves guard and material to the VM.
LEMMA VmStopFails ==
    ASSUME TypeInv, AddressInv, VmInv, NEW p \in Pods, StopVmFails(p)
    PROVE  VmInv'
  <1>1. /\ task.step = "stop" /\ task.pod = p /\ p \in MicroVms /\ pods' = pods
        /\ microvms' = microvms \ {pods[p].pid} /\ guards' = guards /\ attest' = attest
        /\ sandboxes' = sandboxes /\ Active' = Active /\ task'.step = "idle"
    BY DEF StopVmFails, At, hostVars, Active, Idle
  <1>2. KeptInv'
    BY <1>1, StoppedIsNotLive DEF KeptInv, VmKept
  <1>3. VmStepInv'
    BY <1>1 DEF VmStepInv
  <1>4. GuardedVm'
    BY <1>1 DEF VmInv, GuardedVm
  <1> QED
    BY <1>2, <1>3, <1>4 DEF VmInv

\* The guard of a VM to come, under a CID nobody has had.
LEMMA VmArm ==
    ASSUME TypeInv, VmInv, NEW p \in Pods, ArmGuard(p)
    PROVE  VmInv'
  <1>1. /\ task.step = "launch" /\ task.pod = p /\ p \in MicroVms /\ pods' = pods
        /\ guards' = guards \cup {next_cid} /\ microvms' = microvms /\ attest' = attest
        /\ sandboxes' = sandboxes /\ Active' = Active
    BY DEF ArmGuard, Arm, At, hostVars, Active
  <1>2. task'.step = "attest" /\ task'.pod = p /\ task'.cid = next_cid
    BY <1>1, ArmRecord DEF ArmGuard, TypeInv, BootSteps
  <1>3. next_cid \notin Cids /\ next_cid # NoPid
    <2>1. next_cid \in Nat /\ next_cid >= FirstCid
      BY DEF TypeInv
    <2> QED
      BY <2>1 DEF Cids, FirstCid, NoPid
  <1>4. next_cid \notin DOMAIN attest /\ Unused(next_cid)
    BY <1>3 DEF TypeInv, TypeOK, SandboxRecords, Unused
  <1>5. KeptInv'
    BY <1>1 DEF VmInv, KeptInv, VmKept
  <1>6. VmStepInv'
    BY <1>1, <1>2, <1>4 DEF VmStepInv, Unused
  <1>7. GuardedVm'
    BY <1>1, <1>4 DEF VmInv, GuardedVm, Unused
  <1> QED
    BY <1>5, <1>6, <1>7 DEF VmInv

\* The material of the VM to come takes no other VM's place.
LEMMA VmRegister ==
    ASSUME TypeInv, VmInv, NEW p \in Pods, RegisterAttestation(p)
    PROVE  VmInv'
  <1>1. /\ task.step = "attest" /\ task.pod = p /\ pods' = pods
        /\ guards' = guards /\ microvms' = microvms /\ attest' = Put(attest, task.cid, p)
        /\ sandboxes' = sandboxes /\ Active' = Active
    BY DEF RegisterAttestation, At, hostVars, Active
  <1>2. task'.step = "start" /\ task'.pod = p /\ task'.cid = task.cid
    BY <1>1, GotoBoot DEF RegisterAttestation, TypeInv, BootSteps
  <1>3. /\ p \in MicroVms /\ task.cid \in guards /\ task.cid \notin DOMAIN attest
        /\ Unused(task.cid)
    BY <1>1 DEF VmInv, VmStepInv
  <1>4. KeptInv'
    BY <1>1, <1>3 DEF VmInv, KeptInv, VmKept, Put
  <1>5. VmStepInv'
    BY <1>1, <1>2, <1>3 DEF VmStepInv, Unused, Put
  <1>6. GuardedVm'
    BY <1>1, <1>3 DEF VmInv, GuardedVm, Unused, Put
  <1> QED
    BY <1>4, <1>5, <1>6 DEF VmInv

\* The VM starts behind its guard.
LEMMA VmStart ==
    ASSUME TypeInv, VmInv, NEW p \in Pods, StartVm(p)
    PROVE  VmInv'
  <1>1. /\ task.step = "start" /\ task.pod = p /\ pods' = pods
        /\ guards' = guards /\ microvms' = microvms \cup {task.cid} /\ attest' = attest
        /\ sandboxes' = sandboxes \cup {Sandbox(p, "ok")}
        /\ Active' = Active
    BY DEF StartVm, At, Active
  <1>2. task'.step = "commit" /\ task'.pod = p /\ task'.cid = task.cid
    BY <1>1, GotoBoot DEF StartVm, TypeInv, BootSteps
  <1>3. task.cid \in guards /\ task.cid \in DOMAIN attest /\ attest[task.cid] = p
    BY <1>1 DEF VmInv, VmStepInv
  <1>4. KeptInv'
    BY <1>1 DEF VmInv, KeptInv, VmKept
  <1>5. VmStepInv'
    BY <1>1, <1>2, <1>3 DEF VmStepInv, VmKept
  <1>6. GuardedVm'
    BY <1>1, <1>3 DEF VmInv, GuardedVm, Sandbox
  <1> QED
    BY <1>4, <1>5, <1>6 DEF VmInv

\* A boot that fails after its guard takes back what no VM that came up uses.
LEMMA VmAbort ==
    ASSUME TypeInv, AddressInv, VmInv, NEW p \in Pods, MeasureFails(p) \/ StartVmFails(p)
    PROVE  VmInv'
  <1>1. /\ task.step \in {"attest", "start"} /\ task.pod = p /\ pods' = pods
        /\ guards' = guards \ {task.cid} /\ microvms' = microvms
        /\ attest' = Drop(attest, task.cid)
        /\ sandboxes' \in {sandboxes, sandboxes \cup {Sandbox(p, "failed")}}
        /\ Active' = Active
    BY DEF MeasureFails, StartVmFails, AbortVm, UnregisterAttestation, Disarm, At, Active
  <1>2. task'.step = "failed"
    BY <1>1, GotoBoot DEF MeasureFails, StartVmFails, AbortVm, TypeInv, BootSteps
  <1>3. Unused(task.cid) /\ (task.cid \in DOMAIN attest => attest[task.cid] = p)
    BY <1>1 DEF VmInv, VmStepInv
  <1>4. p \notin Active
    BY <1>1 DEF AddressInv, BootInv, Booting, BootSteps
  <1>5. KeptInv'
    BY <1>1, <1>3, <1>4 DEF VmInv, KeptInv, VmKept, Drop
  <1>6. VmStepInv'
    BY <1>2 DEF VmStepInv
  <1>7. GuardedVm'
    BY <1>1, <1>3 DEF VmInv, GuardedVm, Drop, Unused, Sandbox
  <1> QED
    BY <1>5, <1>6, <1>7 DEF VmInv

\* The steps of a containerd boot: no VM is in the making.
LEMMA VmContainer ==
    ASSUME TypeInv, VmInv, NEW p \in Pods,
           CreateNetns(p) \/ ConfigureNetns(p) \/ StartContainer(p)
    PROVE  VmInv'
  <1>1. /\ task.step \in BootSteps /\ task.pod = p /\ p \notin MicroVms /\ pods' = pods
        /\ guards' = guards /\ microvms' = microvms /\ attest' = attest /\ Active' = Active
        /\ \A s \in sandboxes' : s \in sandboxes \/ s.pod = p
    BY DEF CreateNetns, ConfigureNetns, StartContainer, Sandbox, At, BootSteps, vmVars,
           hostVars, VmInv, VmStepInv, Active
  <1>2. task'.step \in {"configure", "start_container", "commit"} /\ task'.pod = p
    BY <1>1, GotoBoot DEF CreateNetns, ConfigureNetns, StartContainer, TypeInv
  <1>3. KeptInv'
    BY <1>1 DEF VmInv, KeptInv, VmKept
  <1>4. VmStepInv'
    BY <1>1, <1>2 DEF VmStepInv
  <1>5. GuardedVm'
    BY <1>1 DEF VmInv, GuardedVm
  <1> QED
    BY <1>3, <1>4, <1>5 DEF VmInv

\* The record of a pod that came up names the CID its VM was started with.
LEMMA VmCommit ==
    ASSUME VmInv, NEW p \in Pods, CommitPod(p)
    PROVE  VmInv'
  <1>1. /\ task.step = "commit" /\ task.pod = p /\ task'.step = "idle"
        /\ guards' = guards /\ microvms' = microvms /\ attest' = attest
        /\ sandboxes' = sandboxes
        /\ pods' = Put(pods, p, [state |-> "Booting", pid |-> task.cid])
    BY DEF CommitPod, At, vmVars, hostVars, Idle
  <1>2. /\ Active' \subseteq Active \cup {p} /\ pods'[p].pid = task.cid
        /\ \A q \in Active \ {p} : pods'[q] = pods[q]
    BY <1>1 DEF Put, Active
  <1>3. KeptInv'
    BY <1>1, <1>2 DEF VmInv, KeptInv, VmStepInv, VmKept
  <1>4. VmStepInv'
    BY <1>1 DEF VmStepInv
  <1>5. GuardedVm'
    BY <1>1 DEF VmInv, GuardedVm
  <1> QED
    BY <1>3, <1>4, <1>5 DEF VmInv

\* The probe loop's writes.
LEMMA VmAround ==
    ASSUME TypeInv, AddressInv, VmInv,
           \/ \E p \in Pods : Promote(p) \/ Restart(p)
           \/ UNCHANGED vars
    PROVE  VmInv'
  <1>1. /\ task' = task /\ guards' = guards /\ microvms' = microvms /\ attest' = attest
        /\ sandboxes' = sandboxes
    BY DEF Promote, Restart, SetState, vars, vmVars, hostVars
  <1>2. Active' = Active /\ \A q \in DOMAIN pods : pods'[q].pid = pods[q].pid
    BY DEF Promote, Restart, SetState, vars, Active, TypeInv, TypeOK
  <1>3. KeptInv'
    BY <1>1, <1>2 DEF VmInv, KeptInv, VmKept, Active
  <1>4. task.step = "stop" => task.pod \in DOMAIN pods
    BY DEF AddressInv, EvictInv, Evicting, EvictSteps
  <1>5. VmStepInv'
    BY <1>1, <1>2, <1>4 DEF VmInv, VmStepInv, VmKept, Unused
  <1>6. GuardedVm'
    BY <1>1 DEF VmInv, GuardedVm
  <1> QED
    BY <1>3, <1>5, <1>6 DEF VmInv

\* Every step of an eviction keeps the VM invariant.
LEMMA VmEvict ==
    ASSUME TypeInv, AddressInv, VmInv, NEW p \in Pods, EvictStep(p)
    PROVE  VmInv'
  <1>1. ASSUME StopContainer(p) \/ ReleaseAddress(p) \/ Teardown(p)
        PROVE  VmInv'
    <2>1. /\ UNCHANGED <<microvms, guards, attest>> /\ sandboxes' \subseteq sandboxes
          /\ task.step \in EvictSteps
      BY <1>1 DEF StopContainer, ReleaseAddress, Teardown, vmVars, hostVars, At, EvictSteps
    <2>2. Active' \subseteq Active /\ \A q \in Active' : pods'[q].pid = pods[q].pid
      BY <1>1 DEF StopContainer, ReleaseAddress, Teardown, Active, Drop
    <2>3. task'.step \in QuietSteps
      <3>1. CASE Teardown(p)
        BY <3>1 DEF Teardown, Idle, QuietSteps
      <3>2. CASE StopContainer(p) \/ ReleaseAddress(p)
        BY <2>1, <3>2, GotoEvict DEF StopContainer, ReleaseAddress, TypeInv, QuietSteps
      <3> QED
        BY <1>1, <3>1, <3>2
    <2> QED
      BY <2>1, <2>2, <2>3, VmSame
  <1> QED
    BY <1>1, VmBeginEviction, VmStop, VmStopFails DEF EvictStep

\* Every step of a boot keeps the VM invariant.
LEMMA VmBoot ==
    ASSUME TypeInv, AddressInv, VmInv, NEW p \in Pods, BootStep(p)
    PROVE  VmInv'
  <1>1. ASSUME \/ RejectBoot(p) \/ RequestKey(p) \/ AllocateAddress(p)
               \/ AllocateAddressFails(p) \/ RegisterIdentity(p)
               \/ RegisterIdentityFails(p) \/ ArmGuardFails(p) \/ CreateNetnsFails(p)
               \/ ConfigureNetnsFails(p) \/ AbortContainer(p) \/ CleanUp(p)
        PROVE  VmInv'
    <2>1. /\ UNCHANGED <<microvms, guards, attest>> /\ pods' = pods
          /\ \A s \in sandboxes' : s \in sandboxes \/ s.pod \notin MicroVms
      BY <1>1 DEF RejectBoot, RequestKey, AllocateAddress, AllocateAddressFails,
                  RegisterIdentity, RegisterIdentityFails, ArmGuardFails, CreateNetnsFails,
                  ConfigureNetnsFails, AbortContainer, Sandbox, At, CleanUp, vmVars,
                  hostVars, VmInv, VmStepInv
    <2>2. Active' \subseteq Active /\ \A q \in Active' : pods'[q].pid = pods[q].pid
      BY <2>1 DEF Active
    <2>3. task'.step \in QuietSteps
      <3>1. CASE \/ RejectBoot(p) \/ RequestKey(p) \/ AllocateAddress(p)
                 \/ AllocateAddressFails(p) \/ RegisterIdentityFails(p) \/ CleanUp(p)
        BY <3>1 DEF RejectBoot, BootNext, RequestKey, AllocateAddress,
                    AllocateAddressFails, RegisterIdentityFails, CleanUp, Idle, QuietSteps
      <3>2. CASE \/ RegisterIdentity(p) \/ ArmGuardFails(p) \/ CreateNetnsFails(p)
                 \/ ConfigureNetnsFails(p) \/ AbortContainer(p)
        <4>1. task.step \in BootSteps /\ (Goto("launch") \/ Goto("failed"))
          BY <3>2 DEF RegisterIdentity, ArmGuardFails, CreateNetnsFails,
                      ConfigureNetnsFails, AbortContainer, At, BootSteps
        <4> QED
          BY <4>1, GotoBoot DEF TypeInv, QuietSteps
      <3> QED
        BY <1>1, <3>1, <3>2
    <2> QED
      BY <2>1, <2>2, <2>3, VmSame
  <1> QED
    BY <1>1, VmArm, VmRegister, VmStart, VmAbort, VmContainer, VmCommit DEF BootStep

---------------------------------------------------------------------------
(* All of it. *)

\* What WorkloadManager::new returns.
LEMMA InitIInv == Init => IInv
  <1> SUFFICES ASSUME Init PROVE IInv
    OBVIOUS
  <1>1. IpP!IInv
    <2>1. IpP!Init
      BY DEF Init, Ip!Init, IpP!Init
    <2> QED
      BY <2>1, IpP!InitInv, HostCountAssumption, AllocatorAssumptions
  <1>2. Active = {} /\ allocated = Empty
    BY DEF Init, Ip!Init, Active, Empty
  <1>3. TypeInv
    <2>1. Ip!TypeOK
      BY <1>1, AllocatorTypes
    <2>2. boot_gate \in BOOLEAN
      BY DEF Init
    <2>3. next_cid \in Nat /\ next_cid >= FirstCid
      BY DEF Init, FirstCid
    <2>4. TaskOK
      BY DEF Init, TaskOK
    <2>5. /\ desired = {} /\ toEvict = {} /\ toBoot = {} /\ DOMAIN pods = {}
          /\ DOMAIN pod_source_ips = {} /\ DOMAIN src_identity = {}
          /\ microvms = {} /\ guards = {} /\ DOMAIN attest = {}
          /\ netns = {} /\ containers = {} /\ sandboxes = {}
      BY DEF Init, Empty
    <2>6. TypeOK
      BY <2>1, <2>2, <2>5 DEF TypeOK
    <2> QED
      BY <2>3, <2>4, <2>6 DEF TypeInv
  <1>4. AddressInv
    BY <1>1, <1>2
       DEF Init, AddressInv, AttributedInv, FrameInv, EvictInv, BootInv, KeyInv, LeakInv,
           Evicting, Booting, EvictSteps, BootSteps, Idle, Empty
  <1>5. VmInv
    BY <1>2 DEF Init, VmInv, KeptInv, VmStepInv, GuardedVm, Idle
  <1>6. ContainerInv
    BY DEF Init, ContainerInv, Idle
  <1> QED
    BY <1>3, <1>4, <1>5, <1>6 DEF IInv

\* Every step of every task keeps the address invariant.
LEMMA AddressStep ==
    ASSUME TypeInv, AddressInv, [Next]_vars
    PROVE  AddressInv'
  <1>1. ASSUME UNCHANGED vars
        PROVE  AddressInv'
    BY <1>1, AddressSame DEF vars
  <1> QED
    BY <1>1, AddressNewFrame, AddressEvict, AddressBoot, AddressProbe, PodsAssumption
       DEF Next

\* Every step of every task keeps the VM invariant.
LEMMA VmStep ==
    ASSUME TypeInv, AddressInv, VmInv, [Next]_vars
    PROVE  VmInv'
  <1>1. ASSUME NEW d \in SUBSET Pods, NewFrame(d)
        PROVE  VmInv'
    <2>1. /\ UNCHANGED <<microvms, guards, attest>> /\ sandboxes' \subseteq sandboxes
          /\ pods' = pods /\ task'.step \in QuietSteps
      BY <1>1 DEF NewFrame, vmVars, hostVars, Idle, QuietSteps
    <2>2. Active' \subseteq Active /\ \A q \in Active' : pods'[q].pid = pods[q].pid
      BY <2>1 DEF Active
    <2> QED
      BY <2>1, <2>2, VmSame
  <1> QED
    BY <1>1, VmEvict, VmBoot, VmAround, PodsAssumption DEF Next

\* Every step of every task keeps the types.
LEMMA TypeStep ==
    ASSUME TypeInv, AddressInv, VmInv, Ip!TypeOK', [Next]_vars
    PROVE  TypeInv'
  <1>1. ASSUME NEW p \in Pods, EvictStep(p)
        PROVE  TypeInv'
    BY <1>1, TypeEvict DEF AddressInv
  <1>2. ASSUME NEW p \in Pods, BootStep(p)
        PROVE  TypeInv'
    BY <1>2, TypeBoot DEF AddressInv, VmInv
  <1>3. ASSUME NEW d \in SUBSET Pods, NewFrame(d)
        PROVE  TypeInv'
    BY <1>3 DEF NewFrame, Reconcile, TypeInv, TypeOK, TaskOK, Active, identVars, vmVars,
                hostVars, SandboxRecords, Cids
  <1>4. ASSUME \/ \E p \in Pods : Promote(p) \/ Restart(p)
               \/ UNCHANGED vars
        PROVE  TypeInv'
    <2>1. /\ task' = task /\ UNCHANGED <<frameVars, identVars, vmVars, hostVars>>
          /\ Cids' = Cids
      BY <1>4 DEF Promote, Restart, SetState, vars, vmVars, hostVars, Cids
    <2>2. /\ DOMAIN pods' = DOMAIN pods
          /\ \A p \in DOMAIN pods :
               pods'[p] \in [state : {"Booting", "Running", "Terminating"},
                             pid : Cids \cup {NoPid}]
      BY <1>4 DEF Promote, Restart, SetState, vars, TypeInv, TypeOK
    <2> QED
      BY <2>1, <2>2 DEF TypeInv, TypeOK, TaskOK, frameVars, identVars, vmVars, hostVars,
                        SandboxRecords
  <1> QED
    BY <1>1, <1>2, <1>3, <1>4, PodsAssumption DEF Next

\* Only a microVM's boot takes a CID.
LEMMA ContainerStep ==
    ASSUME TypeInv, VmInv, ContainerInv, [Next]_vars
    PROVE  ContainerInv'
  <1>1. ASSUME NEW p \in Pods, EvictStep(p)
        PROVE  ContainerInv'
    <2>1. sandboxes' \subseteq sandboxes
      BY <1>1 DEF EvictStep, BeginEviction, StopContainer, StopVm, StopVmFails,
                  ReleaseAddress, Teardown, hostVars
    <2>2. task'.step \in EvictSteps \cup {"idle"}
      <3>1. CASE BeginEviction(p) \/ StopVmFails(p) \/ Teardown(p)
        BY <3>1 DEF BeginEviction, StopVmFails, Teardown, Idle, EvictSteps
      <3>2. CASE StopContainer(p) \/ StopVm(p) \/ ReleaseAddress(p)
        <4>1. task.step \in EvictSteps /\ \E s \in EvictSteps : Goto(s)
          BY <3>2 DEF StopContainer, StopVm, ReleaseAddress, At, EvictSteps
        <4> QED
          BY <4>1, GotoEvict DEF TypeInv
      <3> QED
        BY <1>1, <3>1, <3>2 DEF EvictStep
    <2> QED
      BY <2>1, <2>2 DEF ContainerInv, EvictSteps
  <1>2. ASSUME NEW p \in Pods, BootStep(p)
        PROVE  ContainerInv'
    <2>1. \A s \in sandboxes' :
            s \in sandboxes \/ s.pod \in MicroVms \/ s.handle = NoPid
      BY <1>2
         DEF BootStep, RejectBoot, RequestKey, AllocateAddress, AllocateAddressFails,
             RegisterIdentity, RegisterIdentityFails, ArmGuard, ArmGuardFails,
             RegisterAttestation, StartVm, MeasureFails, StartVmFails, AbortVm, CreateNetns,
             CreateNetnsFails, ConfigureNetns, ConfigureNetnsFails, StartContainer,
             AbortContainer, CleanUp, CommitPod, Sandbox, At, hostVars, VmInv, VmStepInv,
             ContainerInv
    <2>2. task'.step \in {"register", "launch", "configure", "start_container"} =>
            task'.cid = NoPid
      <3>1. CASE \/ RejectBoot(p) \/ RequestKey(p) \/ AllocateAddress(p)
                 \/ AllocateAddressFails(p) \/ RegisterIdentityFails(p) \/ CleanUp(p)
                 \/ CommitPod(p)
        BY <3>1 DEF RejectBoot, BootNext, RequestKey, AllocateAddress,
                    AllocateAddressFails, RegisterIdentityFails, CleanUp, CommitPod, Idle
      <3>2. CASE ArmGuard(p)
        <4>1. task'.step = "attest"
          BY <3>2, ArmRecord DEF ArmGuard, At, BootSteps, TypeInv
        <4> QED
          BY <4>1
      <3>3. CASE RegisterIdentity(p) \/ CreateNetns(p) \/ ConfigureNetns(p)
        <4>1. /\ task.step \in {"register", "launch", "configure"}
              /\ \E s \in BootSteps : Goto(s)
          BY <3>3 DEF RegisterIdentity, CreateNetns, ConfigureNetns, At, BootSteps
        <4>2. task'.cid = task.cid
          BY <4>1, GotoBoot DEF TypeInv, BootSteps
        <4> QED
          BY <4>1, <4>2 DEF ContainerInv
      <3>4. CASE \/ ArmGuardFails(p) \/ RegisterAttestation(p) \/ StartVm(p)
                 \/ MeasureFails(p) \/ StartVmFails(p) \/ CreateNetnsFails(p)
                 \/ ConfigureNetnsFails(p) \/ StartContainer(p) \/ AbortContainer(p)
        <4>1. /\ task.step \in BootSteps
              /\ \E s \in {"start", "commit", "failed"} : Goto(s)
          BY <3>4 DEF ArmGuardFails, RegisterAttestation, StartVm, MeasureFails,
                      StartVmFails, AbortVm, CreateNetnsFails, ConfigureNetnsFails,
                      StartContainer, AbortContainer, At, BootSteps
        <4>2. task'.step \in {"start", "commit", "failed"}
          BY <4>1, GotoBoot DEF TypeInv
        <4> QED
          BY <4>2
      <3> QED
        BY <1>2, <3>1, <3>2, <3>3, <3>4 DEF BootStep
    <2> QED
      BY <2>1, <2>2 DEF ContainerInv
  <1>3. ASSUME task' = task, sandboxes' = sandboxes
        PROVE  ContainerInv'
    BY <1>3 DEF ContainerInv
  <1> QED
    BY <1>1, <1>2, <1>3 DEF Next, NewFrame, Promote, Restart, SetState, hostVars, vars

\* Every step keeps the invariant.
LEMMA NextIInv == IInv /\ [Next]_vars => IInv'
  <1> SUFFICES ASSUME IInv, [Next]_vars PROVE IInv'
    OBVIOUS
  <1>1. TypeInv /\ AddressInv /\ VmInv /\ ContainerInv
    BY DEF IInv
  <1>2. AddressInv'
    BY <1>1, AddressStep
  <1>3. VmInv'
    BY <1>1, VmStep
  <1>4. Ip!TypeOK'
    BY <1>2, AllocatorTypes, PTL DEF AddressInv
  <1>5. TypeInv'
    BY <1>1, <1>4, TypeStep
  <1>6. ContainerInv'
    BY <1>1, ContainerStep
  <1> QED
    BY <1>2, <1>3, <1>5, <1>6 DEF IInv

\* The invariant holds in every state the schedule task and the probe loop reach together.
THEOREM InvariantHolds == Spec => []IInv
  BY InitIInv, NextIInv, PTL DEF Spec

\* Every CID in use was handed out, and every address is a host address of the CIDR.
THEOREM TypeCorrect == Spec => []TypeOK
  <1>1. IInv => TypeOK
    BY DEF IInv, TypeInv
  <1> QED
    BY <1>1, InvariantHolds, PTL

\* The boot-race guard: a VM that booted never runs without its guard and its pod's
\* attestation material, and one whose boot failed has none, however boots and evictions
\* fail.
THEOREM VmsAreGuarded == Spec => []GuardedVm
  <1>1. IInv => GuardedVm
    BY DEF IInv, VmInv
  <1> QED
    BY <1>1, InvariantHolds, PTL

\* A live pod keeps its address and its identity, whatever failed boots and evictions of
\* other pods take back.
THEOREM LiveKeepAddress == Spec => []ManagedAttributed
  <1>1. IInv => ManagedAttributed
    <2> SUFFICES ASSUME AttributedInv PROVE ManagedAttributed
      BY DEF IInv, AddressInv
    <2>1. ASSUME NEW p \in Active, NEW q \in Active \ {p}
          PROVE  pod_source_ips[q] # pod_source_ips[p]
      BY DEF AttributedInv, Holds
    <2> QED
      BY <2>1 DEF ManagedAttributed, AttributedInv, Holds, Attributed
  <1> QED
    BY <1>1, InvariantHolds, PTL

\* No failed boot and no finished eviction leaks an address.
THEOREM NoLeak == Spec => []NoAddressLeak
  <1>1. IInv => NoAddressLeak
    BY DEF IInv, AddressInv, LeakInv, Booting, BootSteps, Idle, NoAddressLeak
  <1> QED
    BY <1>1, InvariantHolds, PTL

\* The evictions of a frame leave no live pod of a workload it does not name.
THEOREM FrameIsApplied == Spec => []Converged
  <1>1. IInv => Converged
    BY DEF IInv, AddressInv, FrameInv, Converged, WorkloadsOf
  <1> QED
    BY <1>1, InvariantHolds, PTL

---------------------------------------------------------------------------
(* The allocator inside. *)

\* A step of any task is a step of the allocator, or leaves it unchanged.
LEMMA AllocatorStep == [Next]_vars => [IpP!Next]_(IpP!ipVars)
  <1> SUFFICES ASSUME [Next]_vars PROVE IpP!Next \/ UNCHANGED ipVars
    BY DEF ipVars, IpP!ipVars
  <1>1. ASSUME NEW p \in Pods, EvictStep(p)
        PROVE  IpP!Next \/ UNCHANGED ipVars
    BY <1>1, ReleaseIsNext DEF EvictStep, BeginEviction, StopContainer, StopVm, StopVmFails,
                               ReleaseAddress, Teardown
  <1>2. ASSUME NEW p \in Pods, BootStep(p)
        PROVE  IpP!Next \/ UNCHANGED ipVars
    <2>1. CASE AllocateAddress(p)
      BY <2>1, AllocateIsNext DEF AllocateAddress
    <2>2. CASE RegisterIdentityFails(p) \/ CleanUp(p)
      BY <2>2, ReleaseIsNext DEF RegisterIdentityFails, CleanUp
    <2>3. CASE ~(AllocateAddress(p) \/ RegisterIdentityFails(p) \/ CleanUp(p))
      BY <1>2, <2>3
         DEF BootStep, RejectBoot, RequestKey, AllocateAddressFails, RegisterIdentity,
             ArmGuard, ArmGuardFails, RegisterAttestation, StartVm, MeasureFails, StartVmFails, AbortVm, CreateNetns,
             CreateNetnsFails, ConfigureNetns, ConfigureNetnsFails, StartContainer,
             AbortContainer, CommitPod
    <2> QED
      BY <2>1, <2>2, <2>3
  <1> QED
    BY <1>1, <1>2 DEF Next, NewFrame, Promote, Restart, SetState, vars

\* WorkloadManager uses the allocator only through its operations: what is proved of
\* NodeIpAllocator alone holds of the allocator inside the agent.
THEOREM ImplementsAllocator == Spec => IpP!Spec
  <1>1. Init => IpP!Init
    BY DEF Init, Ip!Init, IpP!Init
  <1> QED
    BY <1>1, AllocatorStep, PTL DEF Spec, IpP!Spec

\* boot_pod is refused an address only when each /30 of the node's CIDR is in use or was
\* broken up: no failed boot or eviction wears the address space out.
THEOREM ExhaustedOnlyByUse == Spec => []IpP!ExhaustedOnlyWhenFull
  BY ImplementsAllocator, IpP!ExhaustionIsReal, HostCountAssumption, AllocatorAssumptions,
     PTL

\* The /30 a live pod's traffic goes through is its own, gateway and guest, although the
\* pod's earlier boots and the boots of others failed and released theirs.
THEOREM LivePairIsWhole ==
    Spec => [](\A p \in Active :
        /\ pod_source_ips[p] % 4 = 2
        /\ pod_source_ips[p] - 1 \in DOMAIN allocated
        /\ allocated[pod_source_ips[p] - 1] = Ip!Gw(p))
  <1>1. IInv => \A p \in Active :
            /\ pod_source_ips[p] % 4 = 2
            /\ pod_source_ips[p] - 1 \in DOMAIN allocated
            /\ allocated[pod_source_ips[p] - 1] = Ip!Gw(p)
    <2> SUFFICES ASSUME IInv, NEW p \in Active
                 PROVE  /\ pod_source_ips[p] % 4 = 2
                        /\ pod_source_ips[p] - 1 \in DOMAIN allocated
                        /\ allocated[pod_source_ips[p] - 1] = Ip!Gw(p)
      OBVIOUS
    <2>1. p \in Pods /\ Holds(p)
      BY DEF IInv, AddressInv, AttributedInv, TypeInv, TypeOK, Active
    <2> QED
      BY <2>1 DEF IInv, AddressInv, Holds, IpP!IInv, IpP!PairIntact, IpP!Gw, Ip!Gw
  <1> QED
    BY <1>1, InvariantHolds, PTL

---------------------------------------------------------------------------
(* The pod table implements PodLifecycle. *)

StateOf(p) == IF p \in DOMAIN pods THEN pods[p].state ELSE "Absent"

\* When only the record of p changes, the abstract state moves at p alone.
LEMMA OneRecord ==
    ASSUME NEW p \in Pods, \A q \in Pods : q # p => StateOf(q)' = StateOf(q)
    PROVE  [q \in Pods |-> StateOf(q)]' =
             [[q \in Pods |-> StateOf(q)] EXCEPT ![p] = StateOf(p)']
  OBVIOUS

\* Most steps write no record.
LEMMA RecordsSame ==
    ASSUME NEW p \in Pods, EvictStep(p) \/ BootStep(p),
           ~(BeginEviction(p) \/ Teardown(p) \/ CommitPod(p))
    PROVE  pods' = pods
  BY DEF EvictStep, StopContainer, StopVm, StopVmFails, ReleaseAddress,
         BootStep, RejectBoot, RequestKey, AllocateAddress, AllocateAddressFails,
         RegisterIdentity, RegisterIdentityFails,
         ArmGuard, ArmGuardFails, RegisterAttestation, StartVm, MeasureFails, StartVmFails,
         AbortVm, CreateNetns, CreateNetnsFails, ConfigureNetns, ConfigureNetnsFails,
         StartContainer, AbortContainer, CleanUp

\* A step of any task is a step of PodLifecycle, or leaves the states unchanged.
LEMMA StepRefines ==
    IInv /\ [Next]_vars => [Lifecycle!Next]_([p \in Pods |->
        IF p \in DOMAIN pods THEN pods[p].state ELSE "Absent"])
  <1> DEFINE abs == [q \in Pods |-> StateOf(q)]
  <1> SUFFICES ASSUME IInv, [Next]_vars
               PROVE  Lifecycle!Next \/ abs' = abs
    BY DEF StateOf
  <1>1. ASSUME NEW p \in Pods, BeginEviction(p)
        PROVE  Lifecycle!Evict(p)
    <2>1. p \in DOMAIN pods /\ pods[p].state \in {"Booting", "Running"}
      BY <1>1 DEF BeginEviction, IInv, AddressInv, FrameInv, Active
    <2>2. \A q \in Pods : q # p => StateOf(q)' = StateOf(q)
      BY <1>1 DEF BeginEviction, StateOf
    <2>3. StateOf(p) \in {"Booting", "Running"} /\ StateOf(p)' = "Terminating"
      BY <1>1, <2>1 DEF BeginEviction, StateOf, IInv, TypeInv, TypeOK
    <2> QED
      BY <2>2, <2>3, OneRecord DEF Lifecycle!Evict, Lifecycle!Move, StateOf
  <1>2. ASSUME NEW p \in Pods, Teardown(p)
        PROVE  Lifecycle!Remove(p) \/ abs' = abs
    <2>1. CASE pods' = pods
      BY <2>1 DEF StateOf
    <2>2. CASE pods' = Drop(pods, p)
      <3>1. \A q \in Pods : q # p => StateOf(q)' = StateOf(q)
        BY <2>2 DEF Drop, StateOf
      <3>2. p \in DOMAIN pods /\ pods[p].state = "Terminating"
        BY <1>2 DEF Teardown, At, IInv, AddressInv, EvictInv, Evicting, EvictSteps
      <3>3. StateOf(p) = "Terminating" /\ StateOf(p)' = "Absent"
        BY <2>2, <3>2 DEF Drop, StateOf
      <3> QED
        BY <3>1, <3>3, OneRecord DEF Lifecycle!Remove, Lifecycle!Move, StateOf
    <2> QED
      BY <1>2, <2>1, <2>2 DEF Teardown
  <1>3. ASSUME NEW p \in Pods, CommitPod(p)
        PROVE  Lifecycle!Boot(p)
    <2>1. p \notin Active
      BY <1>3 DEF CommitPod, At, IInv, AddressInv, BootInv, Booting, BootSteps
    <2>2. \A q \in Pods : q # p => StateOf(q)' = StateOf(q)
      BY <1>3 DEF CommitPod, Put, StateOf
    <2>3. StateOf(p) \in {"Absent", "Terminating"} /\ StateOf(p)' = "Booting"
      BY <1>3, <2>1 DEF CommitPod, Put, StateOf, Active, IInv, TypeInv, TypeOK
    <2> QED
      BY <2>2, <2>3, OneRecord DEF Lifecycle!Boot, Lifecycle!Move, StateOf
  <1>4. ASSUME NEW p \in Pods, Promote(p)
        PROVE  Lifecycle!Promote(p)
    <2>1. \A q \in Pods : q # p => StateOf(q)' = StateOf(q)
      BY <1>4 DEF Promote, SetState, StateOf
    <2>2. StateOf(p) = "Booting" /\ StateOf(p)' = "Running"
      BY <1>4 DEF Promote, SetState, StateOf, IInv, TypeInv, TypeOK
    <2> QED
      BY <2>1, <2>2, OneRecord DEF Lifecycle!Promote, Lifecycle!Move, StateOf
  <1>5. ASSUME NEW p \in Pods, Restart(p)
        PROVE  Lifecycle!Restart(p)
    <2>1. \A q \in Pods : q # p => StateOf(q)' = StateOf(q)
      BY <1>5 DEF Restart, SetState, StateOf
    <2>2. StateOf(p) = "Running" /\ StateOf(p)' = "Booting"
      BY <1>5 DEF Restart, SetState, StateOf, IInv, TypeInv, TypeOK
    <2> QED
      BY <2>1, <2>2, OneRecord DEF Lifecycle!Restart, Lifecycle!Move, StateOf
  <1>6. ASSUME pods' = pods PROVE abs' = abs
    BY <1>6 DEF StateOf
  <1> QED
    <2>1. CASE \E p \in Pods : EvictStep(p) \/ BootStep(p)
      BY <1>1, <1>2, <1>3, <1>6, <2>1, RecordsSame DEF Lifecycle!Next
    <2>2. CASE (\E d \in DesiredSets : NewFrame(d)) \/ UNCHANGED vars
      BY <1>6, <2>2 DEF NewFrame, vars
    <2>3. CASE \E p \in Pods : Promote(p) \/ Restart(p)
      BY <1>4, <1>5, <2>3 DEF Lifecycle!Next
    <2> QED
      BY <2>1, <2>2, <2>3 DEF Next

\* The pod table, written by the schedule task and by the probe loop, implements
\* PodLifecycle: whatever fails on the way, eviction is final until a new boot.
THEOREM Refinement == Spec => LifecycleSpec
  <1>1. Init => Lifecycle!Init
    BY DEF Init, Empty, Lifecycle!Init
  <1> QED
    BY <1>1, InvariantHolds, StepRefines, PTL DEF Spec, LifecycleSpec, Lifecycle!Spec

---------------------------------------------------------------------------
(* The pod in work is the only one a step of the schedule task touches. *)

\* q's addresses, and those of them that are attributed to q.
Ips(q) == {o \in DOMAIN allocated : allocated[o] \in {q, Ip!Gw(q)}}

Attributions(q) == {o \in Ips(q) \cap DOMAIN src_identity : src_identity[o] = WorkloadOf[q]}

\* q's VMs.
Vms(q) == {c \in DOMAIN attest : attest[c] = q}

\* The parts of what belongs to q, each unchanged.
RecordsKept(q) ==
    /\ {pods[r] : r \in {q} \cap DOMAIN pods}' = {pods[r] : r \in {q} \cap DOMAIN pods}
    /\ {pod_source_ips[r] : r \in {q} \cap DOMAIN pod_source_ips}' =
           {pod_source_ips[r] : r \in {q} \cap DOMAIN pod_source_ips}

AddressesKept(q) == Ips(q)' = Ips(q) /\ Attributions(q)' = Attributions(q)

VmsKept(q) ==
    /\ Vms(q)' = Vms(q)
    /\ (Vms(q) \cap guards)' = Vms(q) \cap guards
    /\ (Vms(q) \cap microvms)' = Vms(q) \cap microvms

HostKept(q) ==
    /\ ({q} \cap netns)' = {q} \cap netns
    /\ ({q} \cap containers)' = {q} \cap containers
    /\ {s \in sandboxes : s.pod = q}' = {s \in sandboxes : s.pod = q}

\* Together they are all that belongs to q.
LEMMA PartsKept ==
    ASSUME NEW q, RecordsKept(q), AddressesKept(q), VmsKept(q), HostKept(q)
    PROVE  Belongings(q)' = Belongings(q)
  BY DEF Belongings, RecordsKept, AddressesKept, VmsKept, HostKept, Ips, Attributions, Vms

\* The records of the other pods.
LEMMA OthersRecords ==
    ASSUME NEW p \in Pods, NEW q \in Pods, p # q, EvictStep(p) \/ BootStep(p)
    PROVE  RecordsKept(q)
  <1>1. /\ q \in DOMAIN pods' <=> q \in DOMAIN pods
        /\ q \in DOMAIN pods => pods'[q] = pods[q]
    <2>1. CASE BeginEviction(p) \/ Teardown(p) \/ CommitPod(p)
      BY <2>1 DEF BeginEviction, Teardown, CommitPod, Put, Drop
    <2>2. CASE ~(BeginEviction(p) \/ Teardown(p) \/ CommitPod(p))
      BY <2>2, RecordsSame
    <2> QED
      BY <2>1, <2>2
  <1>2. /\ q \in DOMAIN pod_source_ips' <=> q \in DOMAIN pod_source_ips
        /\ q \in DOMAIN pod_source_ips => pod_source_ips'[q] = pod_source_ips[q]
    <2>1. CASE ReleaseAddress(p) \/ CommitPod(p)
      BY <2>1 DEF ReleaseAddress, CommitPod, Put, Drop, identVars
    <2>2. CASE ~(ReleaseAddress(p) \/ CommitPod(p))
      BY <2>2
         DEF EvictStep, BeginEviction, StopContainer, StopVm, StopVmFails, Teardown,
             BootStep, RejectBoot, RequestKey, AllocateAddress, AllocateAddressFails,
             RegisterIdentity, RegisterIdentityFails, ArmGuard, ArmGuardFails,
             RegisterAttestation, StartVm, MeasureFails, StartVmFails, AbortVm, CreateNetns,
             CreateNetnsFails, ConfigureNetns, ConfigureNetnsFails, StartContainer,
             AbortContainer, CleanUp, identVars
    <2> QED
      BY <2>1, <2>2
  <1> QED
    BY <1>1, <1>2 DEF RecordsKept

\* Addresses: what p releases or takes is not q's.
LEMMA OthersAddresses ==
    ASSUME IInv, NEW p \in Pods, NEW q \in Pods, p # q, EvictStep(p) \/ BootStep(p)
    PROVE  AddressesKept(q)
  <1>1. IpP!IInv /\ AddressInv /\ TypeInv
    BY DEF IInv, AddressInv
  <1>2. p \notin {q, Ip!Gw(q)} /\ Ip!Gw(p) \notin {q, Ip!Gw(q)}
    BY Labels
  <1>3. ASSUME NEW ip, ip \notin Ips(q), Ips(q)' = Ips(q),
               src_identity' \in {src_identity, Drop(src_identity, ip),
                                  Put(src_identity, ip, WorkloadOf[p])}
        PROVE  AddressesKept(q)
    <2>1. \A o \in Ips(q) : /\ o \in DOMAIN src_identity' <=> o \in DOMAIN src_identity
                            /\ o \in DOMAIN src_identity => src_identity'[o] = src_identity[o]
      BY <1>3 DEF Drop, Put
    <2> QED
      BY <1>3, <2>1 DEF AddressesKept, Attributions
  <1>4. ASSUME Ip!ReleasePair(p) PROVE Ips(q)' = Ips(q)
    <2>1. /\ DOMAIN allocated' \subseteq DOMAIN allocated
          /\ \A x \in DOMAIN allocated :
               x \in DOMAIN allocated' <=> allocated[x] \notin {p, Ip!Gw(p)}
          /\ \A x \in DOMAIN allocated' : allocated'[x] = allocated[x]
      BY <1>1, <1>4, ReleaseFacts
    <2> QED
      BY <1>2, <2>1 DEF Ips
  <1>5. CASE AllocateAddress(p)
    <2>1. PICK o \in Ip!HostOffsets : Ip!AllocatePair(p, o)
      BY <1>5 DEF AllocateAddress
    <2>2. /\ DOMAIN allocated' = DOMAIN allocated \cup {o, o + 1}
          /\ allocated'[o] = Ip!Gw(p)
          /\ allocated'[o + 1] = p
          /\ \A x \in DOMAIN allocated :
               x \notin {o, o + 1} /\ allocated'[x] = allocated[x]
      BY <1>1, <2>1, AllocateFacts
    <2>3. Ips(q)' = Ips(q)
      BY <1>2, <2>2 DEF Ips
    <2> QED
      BY <1>5, <2>3 DEF AllocateAddress, identVars, AddressesKept, Attributions
  <1>6. CASE ReleaseAddress(p)
    <2>1. task.pod = p /\ Holds(p)
      BY <1>1, <1>6 DEF ReleaseAddress, At, AddressInv, EvictInv, Evicting, EvictSteps
    <2>2. /\ Ip!ReleasePair(p)
          /\ src_identity' \in {src_identity, Drop(src_identity, pod_source_ips[p])}
      BY <1>6, <2>1 DEF ReleaseAddress, UnregisterIdentity, Holds
    <2>3. pod_source_ips[p] \notin Ips(q)
      BY <1>2, <2>1 DEF Holds, Ips
    <2> QED
      BY <1>3, <1>4, <2>2, <2>3
  <1>7. CASE RegisterIdentity(p) \/ RegisterIdentityFails(p) \/ CleanUp(p)
    <2>1. /\ task.pod = p /\ Booting
          /\ Ip!ReleasePair(p) \/ allocated' = allocated
          /\ src_identity' \in {src_identity, Drop(src_identity, task.ip),
                                Put(src_identity, task.ip, WorkloadOf[p])}
      BY <1>7 DEF RegisterIdentity, RegisterIdentityFails, CleanUp, UnregisterIdentity, At,
                  Booting, BootSteps, ipVars, identVars
    <2>2. task.ip \in DOMAIN allocated /\ allocated[task.ip] = p
      BY <1>1, <2>1 DEF AddressInv, BootInv
    <2>3. task.ip \notin Ips(q)
      BY <1>2, <2>2 DEF Ips
    <2>4. Ips(q)' = Ips(q)
      <3>1. CASE allocated' = allocated
        BY <3>1 DEF Ips
      <3> QED
        BY <1>4, <2>1, <3>1
    <2> QED
      BY <1>3, <2>1, <2>3, <2>4
  <1>8. CASE ~(\/ AllocateAddress(p) \/ ReleaseAddress(p) \/ RegisterIdentity(p)
               \/ RegisterIdentityFails(p) \/ CleanUp(p))
    <2>1. allocated' = allocated /\ src_identity' = src_identity
      BY <1>8
         DEF EvictStep, BeginEviction, StopContainer, StopVm, StopVmFails, Teardown,
             BootStep, RejectBoot, RequestKey, AllocateAddressFails, ArmGuard,
             ArmGuardFails, RegisterAttestation, StartVm, MeasureFails, StartVmFails,
             AbortVm, CreateNetns, CreateNetnsFails, ConfigureNetns, ConfigureNetnsFails,
             StartContainer, AbortContainer, CommitPod, ipVars, identVars
    <2> QED
      BY <2>1 DEF AddressesKept, Attributions, Ips
  <1> QED
    BY <1>5, <1>6, <1>7, <1>8

\* VMs: the CID a step works with is p's, or nobody's yet.
LEMMA OthersVms ==
    ASSUME IInv, NEW p \in Pods, NEW q \in Pods, p # q, EvictStep(p) \/ BootStep(p)
    PROVE  VmsKept(q)
  <1>1. TypeInv /\ VmInv
    BY DEF IInv
  <1>2. ASSUME NEW cid, cid \notin Vms(q),
               attest' \in {attest, Drop(attest, cid), Put(attest, cid, p)},
               guards' \in {guards, guards \ {cid}, guards \cup {cid}},
               microvms' \in {microvms, microvms \ {cid}, microvms \cup {cid}}
        PROVE  VmsKept(q)
    <2>1. Vms(q)' = Vms(q)
      BY <1>2 DEF Vms, Drop, Put
    <2> QED
      BY <1>2, <2>1 DEF VmsKept
  <1>3. CASE StopVm(p) \/ StopVmFails(p)
    <2>1. /\ task.step = "stop" /\ task.pod = p /\ p \in MicroVms
          /\ attest' \in {attest, Drop(attest, pods[p].pid)}
          /\ guards' \in {guards, guards \ {pods[p].pid}}
          /\ microvms' \in {microvms, microvms \ {pods[p].pid}}
      BY <1>3 DEF StopVm, StopVmFails, At, UnregisterAttestation, Disarm
    <2>2. pods[p].pid \notin Vms(q)
      BY <1>1, <2>1 DEF VmInv, VmStepInv, VmKept, Vms
    <2> QED
      BY <1>2, <2>1, <2>2
  <1>4. CASE ArmGuard(p)
    <2>1. next_cid \in Nat /\ next_cid >= FirstCid
      BY <1>1 DEF TypeInv
    <2>2. next_cid \notin Cids
      BY <2>1 DEF Cids, FirstCid
    <2>3. next_cid \notin Vms(q)
      BY <1>1, <2>2 DEF TypeInv, TypeOK, Vms
    <2>4. /\ attest' = attest /\ microvms' = microvms
          /\ guards' = guards \cup {next_cid}
      BY <1>4 DEF ArmGuard, Arm
    <2> QED
      BY <1>2, <2>3, <2>4
  <1>5. CASE RegisterAttestation(p) \/ StartVm(p) \/ MeasureFails(p) \/ StartVmFails(p)
    <2>1. /\ task.step \in {"attest", "start"} /\ task.pod = p
          /\ attest' \in {attest, Drop(attest, task.cid), Put(attest, task.cid, p)}
          /\ guards' \in {guards, guards \ {task.cid}}
          /\ microvms' \in {microvms, microvms \cup {task.cid}}
      BY <1>5 DEF RegisterAttestation, StartVm, MeasureFails, StartVmFails, AbortVm, At,
                  UnregisterAttestation, Disarm
    <2>2. task.cid \notin Vms(q)
      BY <1>1, <2>1 DEF VmInv, VmStepInv, Vms
    <2> QED
      BY <1>2, <2>1, <2>2
  <1>6. CASE ~(\/ StopVm(p) \/ StopVmFails(p) \/ ArmGuard(p) \/ RegisterAttestation(p)
               \/ StartVm(p) \/ MeasureFails(p) \/ StartVmFails(p))
    <2>1. attest' = attest /\ guards' = guards /\ microvms' = microvms
      BY <1>6
         DEF EvictStep, BeginEviction, StopContainer, ReleaseAddress, Teardown,
             BootStep, RejectBoot, RequestKey, AllocateAddress, AllocateAddressFails,
             RegisterIdentity, RegisterIdentityFails, ArmGuardFails, CreateNetns,
             CreateNetnsFails, ConfigureNetns, ConfigureNetnsFails, StartContainer,
             AbortContainer, CleanUp, CommitPod, vmVars
    <2> QED
      BY <2>1 DEF VmsKept, Vms
  <1> QED
    BY <1>3, <1>4, <1>5, <1>6

\* The host: a namespace, a container and a sandbox are touched under their own pod's name,
\* a VM under a CID that is its own.
LEMMA OthersHost ==
    ASSUME IInv, NEW p \in Pods, NEW q \in Pods, p # q, EvictStep(p) \/ BootStep(p)
    PROVE  HostKept(q)
  <1>1. TypeInv /\ VmInv /\ ContainerInv
    BY DEF IInv
  <1>2. /\ ({q} \cap netns)' = {q} \cap netns
        /\ ({q} \cap containers)' = {q} \cap containers
    <2>1. CASE EvictStep(p)
      BY <2>1 DEF EvictStep, BeginEviction, StopContainer, StopVm, StopVmFails,
                  ReleaseAddress, Teardown, DestroyNetns, hostVars
    <2>2. CASE BootStep(p)
      BY <2>2
         DEF BootStep, RejectBoot, RequestKey, AllocateAddress, AllocateAddressFails,
             RegisterIdentity, RegisterIdentityFails, ArmGuard, ArmGuardFails,
             RegisterAttestation, StartVm, MeasureFails, StartVmFails, AbortVm, CreateNetns,
             CreateNetnsFails, ConfigureNetns, ConfigureNetnsFails, StartContainer,
             AbortContainer, CleanUp, CommitPod, DestroyNetns, hostVars
    <2> QED
      BY <2>1, <2>2
  <1>3. {s \in sandboxes : s.pod = q}' = {s \in sandboxes : s.pod = q}
    <2>1. CASE StopVm(p)
      <3>1. /\ task.step = "stop" /\ task.pod = p /\ p \in MicroVms
            /\ sandboxes' \in {sandboxes, {s \in sandboxes : s.handle # pods[p].pid}}
        BY <2>1 DEF StopVm, At
      <3>2. VmKept(pods[p].pid, p)
        BY <1>1, <3>1 DEF VmInv, VmStepInv
      <3>3. pods[p].pid # NoPid
        BY <1>1, <3>2 DEF TypeInv, TypeOK, VmKept, Cids, FirstCid, NoPid
      <3>4. \A s \in sandboxes : s.pod = q => s.handle # pods[p].pid
        BY <1>1, <3>2, <3>3 DEF VmInv, GuardedVm, VmKept, ContainerInv
      <3> QED
        BY <3>1, <3>4
    <2>2. CASE EvictStep(p) /\ ~StopVm(p)
      BY <2>2 DEF EvictStep, BeginEviction, StopContainer, StopVmFails, ReleaseAddress,
                  Teardown, hostVars
    <2>3. CASE BootStep(p)
      <3>1. sandboxes' \in {sandboxes, sandboxes \cup {Sandbox(p, "ok")},
                            sandboxes \cup {Sandbox(p, "failed")}}
        BY <2>3
           DEF BootStep, RejectBoot, RequestKey, AllocateAddress, AllocateAddressFails,
               RegisterIdentity, RegisterIdentityFails, ArmGuard, ArmGuardFails,
               RegisterAttestation, StartVm, MeasureFails, StartVmFails, CreateNetns,
               CreateNetnsFails, ConfigureNetns, ConfigureNetnsFails, StartContainer,
               AbortContainer, CleanUp, CommitPod, hostVars
      <3> QED
        BY <3>1 DEF Sandbox
    <2> QED
      BY <2>1, <2>2, <2>3
  <1> QED
    BY <1>2, <1>3 DEF HostKept

\* A step for p is taken while p is in work, or ends or begins that work, or does nothing.
LEMMA StepsInWork ==
    ASSUME NEW p \in Pods, EvictStep(p) \/ BootStep(p), p \notin InWork \cup InWork'
    PROVE  RejectBoot(p)
  <1>1. ASSUME NEW s, s # "idle", At(s), p = task.pod PROVE FALSE
    BY <1>1 DEF At, InWork, Idle
  <1>2. ~(BeginEviction(p) \/ RequestKey(p))
    BY DEF BeginEviction, RequestKey, InWork, Idle
  <1> QED
    BY <1>1, <1>2
       DEF EvictStep, StopContainer, StopVm, StopVmFails, ReleaseAddress, Teardown,
           BootStep, AllocateAddress, AllocateAddressFails, RegisterIdentity,
           RegisterIdentityFails, ArmGuard, ArmGuardFails, RegisterAttestation, StartVm,
           MeasureFails, StartVmFails, AbortVm, CreateNetns, CreateNetnsFails,
           ConfigureNetns, ConfigureNetnsFails, StartContainer, AbortContainer, CleanUp,
           CommitPod

\* A step that leaves records, addresses, VMs and the host alone.
LEMMA NothingTouched ==
    ASSUME NEW q, UNCHANGED <<ipVars, pods, identVars, vmVars, hostVars>>
    PROVE  Belongings(q)' = Belongings(q)
  BY DEF Belongings, ipVars, identVars, vmVars, hostVars

\* Booting or evicting a pod, whatever fails on the way, leaves the records, addresses,
\* identities, guards and sandboxes of every other pod as they are.
THEOREM Isolation == Spec => OthersUntouched
  <1>1. IInv /\ [Next]_vars =>
            [\A q \in Pods \ (InWork \cup InWork') :
                Belongings(q)' = Belongings(q) \/ Promote(q) \/ Restart(q)]_vars
    <2> SUFFICES ASSUME IInv, Next, NEW q \in Pods \ (InWork \cup InWork')
                 PROVE  Belongings(q)' = Belongings(q) \/ Promote(q) \/ Restart(q)
      OBVIOUS
    <2>1. ASSUME NEW p \in Pods, EvictStep(p) \/ BootStep(p)
          PROVE  Belongings(q)' = Belongings(q)
      <3>1. CASE p = q
        <4>1. RejectBoot(q)
          BY <2>1, <3>1, StepsInWork
        <4> QED
          BY <4>1, NothingTouched DEF RejectBoot
      <3>2. CASE p # q
        BY <2>1, <3>2, OthersRecords, OthersAddresses, OthersVms, OthersHost, PartsKept
      <3> QED
        BY <3>1, <3>2
    <2>2. ASSUME NEW d \in DesiredSets, NewFrame(d)
          PROVE  Belongings(q)' = Belongings(q)
      BY <2>2, NothingTouched DEF NewFrame
    <2>3. ASSUME NEW p \in Pods, p # q, Promote(p) \/ Restart(p)
          PROVE  Belongings(q)' = Belongings(q)
      <3>1. UNCHANGED <<ipVars, identVars, vmVars, hostVars>>
        BY <2>3 DEF Promote, Restart, SetState
      <3>2. DOMAIN pods' = DOMAIN pods /\ (q \in DOMAIN pods => pods'[q] = pods[q])
        BY <2>3 DEF Promote, Restart, SetState
      <3>3. {pods[r] : r \in {q} \cap DOMAIN pods}' = {pods[r] : r \in {q} \cap DOMAIN pods}
        BY <3>2
      <3> QED
        BY <3>1, <3>3 DEF Belongings, ipVars, identVars, vmVars, hostVars
    <2> QED
      BY <2>1, <2>2, <2>3 DEF Next
  <1> QED
    BY <1>1, InvariantHolds, PTL DEF Spec, OthersUntouched

=============================================================================
