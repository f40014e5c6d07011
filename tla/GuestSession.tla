----------------------------- MODULE GuestSession -----------------------------
(***************************************************************************)
(* The attestation of microVMs and the push of their configuration         *)
(* (vsock_attest/), with the registrations the schedule task makes around  *)
(* a VM's life (boot_microvm, evict_pod) and the delegated keys that sign  *)
(* the SVIDs.  Every connection is served by a thread of its own, which    *)
(* reads the measurement, the context and the keys at different moments,   *)
(* each under its own lock.                                                *)
(*                                                                         *)
(* Artifacts stand for the hash of kernel, root file system and guest-init.*)
(* A guest may answer the challenge with anything.                         *)
(***************************************************************************)
EXTENDS DelegatedKeys

CONSTANTS
    Cids,               \* CIDs of VMs
    Sessions,           \* bound: connections
    Production          \* the build feature

ASSUME SessionAssumption == Cids \subseteq Nat \ {0} /\ Production \in BOOLEAN

VARIABLES
    task,               \* the schedule task: the VM in work
    vms,                \* VMs that run
    boot_measurements, workload_contexts,
    session,            \* per connection: where its thread is and what it read
    launched,           \* history: the workload each CID was booted for
    refused,            \* history: CIDs whose boot got no key
    pushed              \* history: what was pushed on each connection

sessionVars == <<task, vms, boot_measurements, workload_contexts, session,
                 launched, refused, pushed>>
vars == <<keyVars, sessionVars>>

\* The artifacts a workload's VM is booted from are named after it.
Artifacts == Targets

\* Only a host quote shows artifacts; the nonce may be that of another connection.
Proofs ==
    [type : {"host"}, nonce : BOOLEAN, artifacts : Artifacts]
        \cup [type : {"dev", "other"}, nonce : BOOLEAN, artifacts : {Nobody}]
NoProof == [type |-> "none", nonce |-> FALSE, artifacts |-> Nobody]

Session(pc, cid, proof, workload, ago) ==
    [pc |-> pc, cid |-> cid, proof |-> proof, workload |-> workload, ago |-> ago]

NoCid == 0
Free == Session("free", NoCid, NoProof, Nobody, 0)

\* A configuration: whether the guest got its workload's settings, and an SVID.
NotPushed == [workload |-> "none", svid |-> FALSE]

Idle == [step |-> "idle", cid |-> NoCid, workload |-> Nobody]

Init ==
    /\ KeysInit
    /\ task = Idle /\ vms = {}
    /\ boot_measurements = [c \in Cids |-> Nobody]
    /\ workload_contexts = [c \in Cids |-> Nobody]
    /\ session = [s \in Sessions |-> Free]
    /\ launched = [c \in Cids |-> Nobody] /\ refused = {}
    /\ pushed = [s \in Sessions |-> NotPushed]

TaskAt(step) == task.step = step

---------------------------------------------------------------------------
(* The schedule task: boot_pod and boot_microvm_inner, evict_pod. *)

Booted == {c \in Cids : launched[c] # Nobody}

\* CIDs are handed out in order and never reused.
NextCid(c) == c \notin Booted /\ \A d \in Cids \ Booted : c <= d

\* The key is asked for first, and its arrival awaited.  It is asked for under
\* the assignment's workload_id and looked up under the pod spec's: control is
\* taken to write the same name in both.
BugBootPod(c, w) ==
    /\ TaskAt("idle") /\ NextCid(c)
    /\ Ask("boot", w)
    /\ task' = [step |-> "measurement", cid |-> c, workload |-> w]
    /\ launched' = [launched EXCEPT ![c] = w]
    /\ UNCHANGED <<keys, next_check, needs_refresh, failures, vms,
                   boot_measurements, workload_contexts, session, refused, pushed>>

BootPod(c, w) ==
    /\ TaskAt("idle") /\ NextCid(c)
    /\ Ask("boot", w)
    /\ task' = [step |-> "key", cid |-> c, workload |-> w]
    /\ launched' = [launched EXCEPT ![c] = w]
    /\ UNCHANGED <<keys, next_check, needs_refresh, failures, vms,
                   boot_measurements, workload_contexts, session, refused, pushed>>

KeyRefused ==
    /\ RequestFails("boot")
    /\ refused' = refused \cup {task.cid}
    /\ UNCHANGED <<task, vms, boot_measurements, workload_contexts, session,
                   launched, pushed>>

\* Whether it arrived or not, the boot goes on.
KeyAwaited ==
    /\ TaskAt("key") /\ ~Pending("boot")
    /\ task' = [task EXCEPT !.step = "measurement"]
    /\ UNCHANGED <<keyVars, vms, boot_measurements, workload_contexts, session,
                   launched, refused, pushed>>

RegisterBootMeasurement ==
    /\ TaskAt("measurement")
    /\ boot_measurements' = [boot_measurements EXCEPT ![task.cid] = task.workload]
    /\ task' = [task EXCEPT !.step = "context"]
    /\ UNCHANGED <<keyVars, vms, workload_contexts, session, launched, refused, pushed>>

RegisterWorkloadContext ==
    /\ TaskAt("context")
    /\ workload_contexts' = [workload_contexts EXCEPT ![task.cid] = task.workload]
    /\ task' = [task EXCEPT !.step = "launch"]
    /\ UNCHANGED <<keyVars, vms, boot_measurements, session, launched, refused, pushed>>

Launch ==
    /\ TaskAt("launch")
    /\ vms' = vms \cup {task.cid}
    /\ task' = Idle
    /\ UNCHANGED <<keyVars, boot_measurements, workload_contexts, session, launched, refused, pushed>>

\* The boot fails, before or after the registrations, or the pod is evicted.  The
\* VM may run all the same: a failed boot may have started it, and an eviction
\* that could not stop it has dropped its adapter, so the next one does not try.
UnregisterBootMeasurement(c) ==
    /\ \/ task.step \in {"measurement", "launch"} /\ c = task.cid
       \/ TaskAt("idle") /\ c \in vms /\ boot_measurements[c] # Nobody
    /\ vms' \in {vms \ {c}, IF TaskAt("measurement") THEN vms ELSE vms \cup {c}}
    /\ boot_measurements' = [boot_measurements EXCEPT ![c] = Nobody]
    /\ task' = [step |-> "unregister", cid |-> c, workload |-> Nobody]
    /\ UNCHANGED <<keyVars, workload_contexts, session, launched, refused, pushed>>

UnregisterWorkloadContext ==
    /\ TaskAt("unregister")
    /\ workload_contexts' = [workload_contexts EXCEPT ![task.cid] = Nobody]
    /\ task' = Idle
    /\ UNCHANGED <<keyVars, vms, boot_measurements, session, launched, refused, pushed>>

---------------------------------------------------------------------------
(* handle_connection. *)

At(s, pc) == session[s].pc = pc

Becomes(s, value) ==
    /\ session' = [session EXCEPT ![s] = value]
    /\ UNCHANGED <<keyVars, task, vms, boot_measurements, workload_contexts,
                   launched, refused>>

\* Accept, and send the challenge.  The peer is a VM the agent has booted; from
\* any other CID no measurement is registered and Verify would refuse it.
Challenge(s, c) ==
    /\ At(s, "free") /\ c \in vms
    /\ Becomes(s, Session("challenged", c, NoProof, Nobody, 0))
    /\ UNCHANGED pushed

ReceiveProof(s, proof) ==
    /\ At(s, "challenged") /\ session[s].cid \in vms
    /\ Becomes(s, [session[s] EXCEPT !.pc = "proved", !.proof = proof])
    /\ UNCHANGED pushed

\* A read or a write fails, or the guest's key pair cannot be made.
Disconnect(s) ==
    /\ session[s].pc \in {"challenged", "accepted", "sign", "signed", "push"}
    /\ Becomes(s, Free)
    /\ UNCHANGED pushed

\* The challenge of this connection is in the quote.
NonceBound(s) == session[s].proof.nonce

DevSoftware(s) == NonceBound(s) /\ ~Production

\* Against the measurement of the peer's CID, as it is now.
BugHostMeasured(s) ==
    NonceBound(s) /\ boot_measurements[session[s].cid] # Nobody

HostMeasured(s) ==
    LET measurement == boot_measurements[session[s].cid] IN
    NonceBound(s) /\ measurement # Nobody /\ session[s].proof.artifacts = measurement

Verified(s) ==
    \/ session[s].proof.type = "dev" /\ DevSoftware(s)
    \/ session[s].proof.type = "host" /\ HostMeasured(s)

Verify(s) ==
    /\ At(s, "proved")
    /\ Becomes(s, IF Verified(s) THEN [session[s] EXCEPT !.pc = "accepted"] ELSE Free)
    /\ UNCHANGED pushed

\* Another lock, another moment: the pod may be gone.
ReadContext(s) ==
    /\ At(s, "accepted")
    /\ LET w == workload_contexts[session[s].cid] IN
       Becomes(s, [session[s] EXCEPT !.pc = IF w = Nobody THEN "push" ELSE "key",
                                     !.workload = w])
    /\ UNCHANGED pushed

\* build: has_valid_key at the time read now; without one the SVID is empty.
CheckKey(s) ==
    /\ At(s, "key")
    /\ Becomes(s, [session[s] EXCEPT
           !.pc = IF HasValidKey(session[s].workload, 0) THEN "sign" ELSE "push"])
    /\ UNCHANGED pushed

\* renew_svid_locally with the same time but the key held now: it may have been
\* replaced, or pruned.
Sign(s) ==
    /\ At(s, "sign")
    /\ Becomes(s, [session[s] EXCEPT
           !.pc = IF HasValidKey(session[s].workload, session[s].ago)
                  THEN "signed" ELSE "push",
           !.ago = 0])
    /\ UNCHANGED pushed

Push(s) ==
    /\ At(s, "push") \/ At(s, "signed")
    /\ Becomes(s, [session[s] EXCEPT !.pc = "closed"])
    /\ pushed' = [pushed EXCEPT ![s] =
           [workload |-> session[s].workload, svid |-> At(s, "signed")]]

Schedule ==
    \/ \E c \in Cids, w \in Targets : BootPod(c, w)
    \/ KeyAwaited
    \/ RegisterBootMeasurement
    \/ RegisterWorkloadContext
    \/ Launch
    \/ \E c \in Cids : UnregisterBootMeasurement(c)
    \/ UnregisterWorkloadContext

Connection(s) ==
    \/ \E c \in Cids : Challenge(s, c)
    \/ \E proof \in Proofs : ReceiveProof(s, proof)
    \/ Disconnect(s)
    \/ Verify(s)
    \/ ReadContext(s)
    \/ CheckKey(s)
    \/ Sign(s)
    \/ Push(s)

\* Time passes for the threads too; no key in the map has expired for more than a gap.
Time ==
    /\ Tick
    /\ session' = [s \in Sessions |->
           IF At(s, "sign") THEN [session[s] EXCEPT !.ago = Min({@ + 1, Gap})]
                            ELSE session[s]]
    /\ UNCHANGED <<task, vms, boot_measurements, workload_contexts, launched,
                   refused, pushed>>

Next ==
    \/ \E r \in Requesters : Issue(r) /\ UNCHANGED sessionVars
    \/ \E r \in Requesters : Install(r) /\ UNCHANGED sessionVars
    \/ RequestFails("loop") /\ UNCHANGED sessionVars
    \/ Check /\ UNCHANGED sessionVars
    \/ \E t \in Targets : Refresh(t) /\ UNCHANGED sessionVars
    \/ KeyRefused
    \/ Time
    \/ Schedule
    \/ \E s \in Sessions : Connection(s)

Spec == Init /\ [][Next]_vars

---------------------------------------------------------------------------
(* Properties. *)

TypeOK ==
    /\ KeysTypeOK
    /\ task \in
           [step : {"idle", "key", "measurement", "context", "launch", "unregister"},
            cid : Cids \cup {NoCid}, workload : Targets \cup {Nobody}]
    /\ vms \subseteq Cids
    /\ boot_measurements \in [Cids -> Targets \cup {Nobody}]
    /\ workload_contexts \in [Cids -> Targets \cup {Nobody}]
    /\ session \in [Sessions ->
           [pc : {"free", "challenged", "proved", "accepted", "key", "sign", "signed",
                  "push", "closed"},
            cid : Cids \cup {NoCid}, proof : Proofs \cup {NoProof},
            workload : Targets \cup {Nobody}, ago : 0..Gap]]
    /\ launched \in [Cids -> Targets \cup {Nobody}] /\ refused \subseteq Cids
    /\ pushed \in [Sessions ->
           [workload : Targets \cup {Nobody, NotPushed.workload}, svid : BOOLEAN]]

Pushed(s) == pushed[s] # NotPushed

\* A configuration with the settings of a workload goes only to the VM that was
\* booted for it, over a connection whose guest has answered this connection's
\* challenge and, in a production build, has shown the artifacts measured for
\* that VM; one without a workload carries no SVID.
PushedToProven ==
    \A s \in Sessions : Pushed(s) =>
        LET w == pushed[s].workload
            proof == session[s].proof
        IN  /\ proof.nonce
            /\ w = Nobody => ~pushed[s].svid
            /\ w # Nobody => w = launched[session[s].cid]
            /\ Production => proof.type = "host" /\ proof.artifacts = launched[session[s].cid]

\* A guest goes without an SVID only if the request made at its boot failed, or
\* too many refreshes of its workload's key in a row did: the key is there before
\* the guest can connect, and whatever a boot or the refresh loop does between a
\* thread's two looks at the key, it finds one.
IdentityDelivered ==
    [][\A s \in Sessions :
          At(s, "key") \/ At(s, "sign") =>
              LET w == session[s].workload IN
              \/ session'[s].pc # "push"
              \/ session[s].cid \in refused
              \/ w \in DOMAIN failures /\ failures[w] > Retries]_vars

=============================================================================
