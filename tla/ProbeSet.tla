------------------------------- MODULE ProbeSet -------------------------------
(***************************************************************************)
(* The probe runners (workloads/probes/mod.rs) inside the probe manager,   *)
(* and with them the whole of what decides on a pod's state: PodManager    *)
(* with ProbeTick made precise.  A runner has up to three probes, each     *)
(* with a threshold on consecutive checks; until the startup probe is done *)
(* the two others are neither run nor looked at.                           *)
(*                                                                         *)
(* What a check finds is arbitrary, and so is whether its delay and its    *)
(* period have passed at a tick.  A check is taken to return.              *)
(***************************************************************************)
EXTENDS PodManager, FiniteSetsExt

CONSTANT
    Threshold       \* success_threshold of startup and readiness, failure_threshold of liveness

Kinds == {"startup", "liveness", "readiness"}

ASSUME ThresholdAssumption == Threshold \in [Kinds -> Nat \ {0}]

VARIABLES
    probes,         \* per pod, the count of each probe its runner has
    failed_checks,  \* history: failed liveness checks in a row, up to the threshold
    healthy         \* history: no check of the last tick failed

probeVars == <<probes, failed_checks, healthy>>
allVars == <<vars, probeVars>>

\* A runner maps its probes to the count their threshold is for: consecutive
\* successes of startup and readiness, consecutive failures of liveness.  No
\* accessor looks at the other count, or beyond the threshold.
NoRunner == [k \in {} |-> 0]

NewRunner(configured) == [k \in configured |-> 0]

ProbeInit ==
    /\ Init
    /\ probes = [p \in Pods |-> NoRunner]
    /\ failed_checks = [p \in Pods |-> 0]
    /\ healthy = [p \in Pods |-> TRUE]

---------------------------------------------------------------------------
(* ProbeRunner and ProbeSetRunner. *)

Checks == {"not due", "passed", "failed"}

\* One more of the kind that is counted, or none again.
BugCount(k, n, check) ==
    IF check = (IF k = "liveness" THEN "failed" ELSE "passed")
    THEN Min({n + 1, Threshold[k]}) ELSE n

Count(k, n, check) ==
    IF check = (IF k = "liveness" THEN "failed" ELSE "passed")
    THEN Min({n + 1, Threshold[k]}) ELSE 0

Reached(runner, k) == k \in DOMAIN runner /\ runner[k] >= Threshold[k]

IsLivePassing(runner) == ~Reached(runner, "liveness")

IsReadyPassing(runner) == "readiness" \in DOMAIN runner => Reached(runner, "readiness")

StartupDone(runner) == "startup" \in DOMAIN runner => Reached(runner, "startup")

Due(runner, check) == {k \in DOMAIN runner : check[k] # "not due"}

Probe(runner, kinds, check) ==
    [k \in DOMAIN runner |-> IF k \in kinds THEN Count(k, runner[k], check[k]) ELSE runner[k]]

\* The startup probe is run whenever it is due, also after it was done once.
AfterStartup(runner, check) == Probe(runner, Due(runner, check) \cap {"startup"}, check)

\* The probes that are run at this tick.
Ran(runner, check) ==
    IF StartupDone(AfterStartup(runner, check))
    THEN Due(runner, check) ELSE Due(runner, check) \cap {"startup"}

RunProbes(runner, check) == Probe(runner, Ran(runner, check), check)

BugAllPassing(runner) == StartupDone(runner) /\ IsLivePassing(runner)

AllPassing(runner) ==
    StartupDone(runner) /\ IsLivePassing(runner) /\ IsReadyPassing(runner)

Result(runner) == [
    live |-> StartupDone(runner) => IsLivePassing(runner),
    ready |-> StartupDone(runner) => IsReadyPassing(runner),
    passing |-> AllPassing(runner)]

---------------------------------------------------------------------------
(* ProbeManager. *)

RegisterPod(p, configured) ==
    /\ RegisterRunner(p)
    /\ probes' = [probes EXCEPT ![p] = NewRunner(configured)]
    /\ failed_checks' = [failed_checks EXCEPT ![p] = 0]
    /\ healthy' = [healthy EXCEPT ![p] = TRUE]

UnregisterPod(p) ==
    /\ UnregisterRunner(p)
    /\ probes' = [probes EXCEPT ![p] = NoRunner]
    /\ failed_checks' = [failed_checks EXCEPT ![p] = 0]
    /\ healthy' = [healthy EXCEPT ![p] = TRUE]

FailedChecks(p, check) ==
    IF "liveness" \notin Ran(probes[p], check) THEN failed_checks[p]
    ELSE IF check["liveness"] = "passed" THEN 0
    ELSE Min({failed_checks[p] + 1, Threshold["liveness"]})

\* checks: what the checks of each pod find at this tick.
Tick(checks) ==
    /\ DOMAIN results = {} /\ runners # {}
    /\ probes' = [p \in Pods |-> RunProbes(probes[p], checks[p])]
    /\ results' = [p \in runners |-> Result(probes'[p])]
    /\ failed_checks' = [p \in Pods |-> FailedChecks(p, checks[p])]
    /\ healthy' = [p \in Pods |->
           \A k \in Ran(probes[p], checks[p]) : checks[p][k] = "passed"]
    /\ UNCHANGED <<pods, caller, runners, failed_events>>

AnyTick == \E checks \in [Pods -> [Kinds -> Checks]] : Tick(checks)

\* A tick at which a certain probe is due.
TickDue(p, k) ==
    \E checks \in [Pods -> [Kinds -> Checks]] : checks[p][k] # "not due" /\ Tick(checks)

FinishPodCall(p) ==
    \/ \E configured \in SUBSET Kinds : RegisterPod(p, configured)
    \/ UnregisterPod(p)
    \/ RemovePod(p) /\ UNCHANGED probeVars

ProbeNext ==
    \/ \E p \in Pods : FinishPodCall(p)
    \/ AnyTick
    \/ \E p \in Pods : CallerStep(p) /\ UNCHANGED probeVars
    \/ \E p \in Pods : ProcessProbeResult(p) /\ UNCHANGED probeVars
    \/ MarkAllPodsPolicyEnforced /\ UNCHANGED probeVars
    \/ \E unrouted \in SUBSET Workloads :
           ReevaluateRouterConnected(unrouted) /\ UNCHANGED probeVars

\* Fairness: that of PodManager, and periods pass, so that every probe is due at
\* some later tick.
ProbeSpec ==
    /\ ProbeInit /\ [][ProbeNext]_allVars
    /\ \A p \in Pods :
        /\ WF_allVars(FinishPodCall(p))
        /\ WF_allVars(ProcessProbeResult(p) /\ UNCHANGED probeVars)
        /\ \A k \in Kinds : SF_allVars(TickDue(p, k))

---------------------------------------------------------------------------
(* Properties. *)

\* The runners implement the ProbeTick of PodManager: what they report is always
\* one of the combinations on which its properties are proved.
PodManagerSpec == Spec

\* A pod is restarted only after as many failed liveness checks in a row of its
\* present life as failure_threshold says: neither a result of an earlier life
\* that arrives late, nor failures before a success, nor ones before a restart
\* and a recovery count.
RestartJustified ==
    [][\A p \in Active \cap Active' :
        pods'[p].restart_count > pods[p].restart_count
            => failed_checks[p] >= Threshold["liveness"]]_allVars

\* A pod that stays in the table and of which no check fails any more becomes
\* Running and stays so, whatever its checks found before, however often it was
\* restarted and whichever probes it has.
HealthyPodRuns ==
    \A p \in Pods :
        <>[](p \in Active /\ healthy[p])
            => <>[](p \in Active /\ pods[p].state = "Running")

=============================================================================
