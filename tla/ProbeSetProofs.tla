---------------------------- MODULE ProbeSetProofs ----------------------------
(***************************************************************************)
(* Proofs about the probe runners inside the pod table, for every set of   *)
(* pods, every threshold and every restart limit: the runners implement    *)
(* the ProbeTick of PodManager, so that everything proved there holds      *)
(* here; and a restart is always the consequence of failure_threshold      *)
(* failed liveness checks in a row of the pod's present life.              *)
(*                                                                         *)
(* The last needs to know what a result that is still waiting in the batch *)
(* may be about.  A failing result of an earlier life cannot restart the   *)
(* pod, as the new life begins Booting; and no result of the new life      *)
(* arrives before the batch that holds the old one is used up.             *)
(***************************************************************************)
EXTENDS ProbeSet, PodManagerProofs

\* The counts of a runner, and of the history, up to their thresholds.
RunnerStates == UNION {[configured -> Nat] : configured \in SUBSET Kinds}

ProbeTypeOK ==
    /\ probes \in [Pods -> RunnerStates]
    /\ failed_checks \in [Pods -> Nat]
    /\ healthy \in [Pods -> BOOLEAN]

\* A liveness probe counts the failed checks in a row of this life.
CountsFailures ==
    \A p \in Pods : "liveness" \in DOMAIN probes[p] =>
        probes[p]["liveness"] = failed_checks[p]

\* A failing result that can restart its pod is of the pod's present life and
\* was earned in it.
FailureEarned ==
    \A p \in DOMAIN results :
        ~results[p].live /\ p \in DOMAIN pods /\ pods[p].state = "Running" =>
            p \in runners /\ failed_checks[p] >= Threshold["liveness"]

ProbeInv == IInv /\ ProbeTypeOK /\ CountsFailures /\ FailureEarned

---------------------------------------------------------------------------
(* The runners implement ProbeTick. *)

\* Whatever a runner has counted, it reports one of PodManager's outcomes.
LEMMA ResultIsOutcome ==
    ASSUME NEW runner
    PROVE  Result(runner) \in Outcomes
<1>1. CASE ~StartupDone(runner)
  BY <1>1 DEF Result, AllPassing, Outcomes
<1>2. CASE StartupDone(runner)
  BY <1>2 DEF Result, AllPassing, Outcomes, IsLivePassing, IsReadyPassing
<1> QED
  BY <1>1, <1>2

\* A step of the runners and the table is a step of the table.
LEMMA StepOfTable == [ProbeNext]_allVars => [Next]_vars
<1>1. ASSUME AnyTick PROVE ProbeTick
  <2>1. PICK checks \in [Pods -> [Kinds -> Checks]] : Tick(checks)
    BY <1>1 DEF AnyTick
  <2>2. results' \in [runners -> Outcomes]
    BY <2>1, ResultIsOutcome DEF Tick
  <2> QED
    BY <2>1, <2>2 DEF Tick, ProbeTick
<1>2. ASSUME NEW p \in Pods, FinishPodCall(p) PROVE FinishCall(p)
  BY <1>2 DEF FinishPodCall, RegisterPod, UnregisterPod, FinishCall
<1> QED
  BY <1>1, <1>2 DEF ProbeNext, Next, allVars

---------------------------------------------------------------------------
(* The counts. *)

\* The smaller of two numbers is one of them.
LEMMA MinOfTwo ==
    ASSUME NEW a \in Nat, NEW b \in Nat
    PROVE  Min({a, b}) \in Nat
<1>1. \E x \in {a, b} : \A y \in {a, b} : x <= y
  <2>1. CASE a <= b
    BY <2>1
  <2>2. CASE b <= a
    BY <2>2
  <2> QED
    BY <2>1, <2>2
<1>2. Min({a, b}) \in {a, b}
  BY <1>1 DEF Min
<1> QED
  BY <1>2

\* A count stays a count.
LEMMA CountType ==
    ASSUME NEW k \in Kinds, NEW n \in Nat, NEW check
    PROVE  Count(k, n, check) \in Nat
<1>1. n + 1 \in Nat /\ Threshold[k] \in Nat
  BY ThresholdAssumption
<1> QED
  BY <1>1, MinOfTwo DEF Count

\* A tick keeps the probes a runner has, and their counts.
LEMMA RunProbesType ==
    ASSUME NEW runner \in RunnerStates, NEW check \in [Kinds -> Checks]
    PROVE  /\ RunProbes(runner, check) \in RunnerStates
           /\ DOMAIN RunProbes(runner, check) = DOMAIN runner
<1>1. PICK configured \in SUBSET Kinds : runner \in [configured -> Nat]
  BY DEF RunnerStates
<1>2. RunProbes(runner, check) \in [configured -> Nat]
  BY <1>1, CountType DEF RunProbes, Probe
<1> QED
  BY <1>1, <1>2 DEF RunnerStates

\* A liveness probe that is run counts the check as the history does.
LEMMA LivenessCount ==
    ASSUME ProbeTypeOK, CountsFailures, NEW p \in Pods,
           NEW check \in [Kinds -> Checks], "liveness" \in DOMAIN probes[p]
    PROVE  RunProbes(probes[p], check)["liveness"] = FailedChecks(p, check)
<1>1. probes[p]["liveness"] = failed_checks[p]
  BY DEF CountsFailures
<1>2. CASE "liveness" \notin Ran(probes[p], check)
  BY <1>1, <1>2 DEF RunProbes, Probe, FailedChecks
<1>3. CASE "liveness" \in Ran(probes[p], check)
  <2>1. check["liveness"] \in {"passed", "failed"}
    BY <1>3 DEF Ran, Due, Checks, Kinds
  <2>2. RunProbes(probes[p], check)["liveness"]
            = Count("liveness", failed_checks[p], check["liveness"])
    BY <1>1, <1>3 DEF RunProbes, Probe
  <2> QED
    BY <1>3, <2>1, <2>2 DEF Count, FailedChecks
<1> QED
  BY <1>2, <1>3

\* A result that is not live was earned by the failures counted so far.
LEMMA NotLiveReached ==
    ASSUME NEW runner, ~Result(runner).live
    PROVE  "liveness" \in DOMAIN runner /\ runner["liveness"] >= Threshold["liveness"]
BY DEF Result, IsLivePassing, Reached

---------------------------------------------------------------------------
(* Each action keeps the invariant of the runners. *)

\* A tick: the results are of the pods that have a runner, and up to date.
LEMMA TickInv ==
    ASSUME ProbeInv, NEW checks \in [Pods -> [Kinds -> Checks]], Tick(checks)
    PROVE  ProbeTypeOK' /\ CountsFailures' /\ FailureEarned'
<1>1. /\ probes' = [p \in Pods |-> RunProbes(probes[p], checks[p])]
      /\ results' = [p \in runners |-> Result(probes'[p])]
      /\ failed_checks' = [p \in Pods |-> FailedChecks(p, checks[p])]
      /\ healthy' = [p \in Pods |->
             \A k \in Ran(probes[p], checks[p]) : checks[p][k] = "passed"]
      /\ UNCHANGED <<pods, runners>>
  BY DEF Tick
<1>2. ASSUME NEW p \in Pods
      PROVE  /\ probes'[p] \in RunnerStates /\ DOMAIN probes'[p] = DOMAIN probes[p]
             /\ failed_checks'[p] \in Nat
  <2>1. probes[p] \in RunnerStates /\ failed_checks[p] \in Nat
    BY DEF ProbeInv, ProbeTypeOK
  <2>2. Min({failed_checks[p] + 1, Threshold["liveness"]}) \in Nat
    BY <2>1, MinOfTwo, ThresholdAssumption DEF Kinds
  <2> QED
    BY <1>1, <2>1, <2>2, RunProbesType DEF FailedChecks
<1>3. ProbeTypeOK'
  BY <1>1, <1>2 DEF ProbeTypeOK
<1>4. CountsFailures'
  BY <1>1, <1>2, LivenessCount DEF ProbeInv, CountsFailures
<1>5. FailureEarned'
  <2> SUFFICES ASSUME NEW p \in runners, ~Result(probes'[p]).live
               PROVE  failed_checks'[p] >= Threshold["liveness"]
    BY <1>1 DEF FailureEarned
  <2>1. p \in Pods
    BY DEF ProbeInv, IInv, TypeOK
  <2> QED
    BY <1>4, <2>1, NotLiveReached DEF CountsFailures
<1> QED
  BY <1>3, <1>4, <1>5

\* A new runner starts from nothing.  Its pod has no runner yet, so no failing
\* result that waits could restart it.
LEMMA RegisterPodInv ==
    ASSUME ProbeInv, NEW p \in Pods, NEW configured \in SUBSET Kinds,
           RegisterPod(p, configured)
    PROVE  ProbeTypeOK' /\ CountsFailures' /\ FailureEarned'
<1>1. /\ probes' = [probes EXCEPT ![p] = NewRunner(configured)]
      /\ failed_checks' = [failed_checks EXCEPT ![p] = 0]
      /\ healthy' = [healthy EXCEPT ![p] = TRUE]
      /\ runners' = runners \cup {p} /\ UNCHANGED <<pods, results>>
  BY DEF RegisterPod, RegisterRunner
<1>2. NewRunner(configured) \in RunnerStates
  BY DEF NewRunner, RunnerStates
<1>3. ProbeTypeOK'
  BY <1>1, <1>2 DEF ProbeInv, ProbeTypeOK
<1>4. CountsFailures'
  BY <1>1 DEF ProbeInv, ProbeTypeOK, CountsFailures, NewRunner
<1>5. p \notin runners
  BY DEF RegisterPod, RegisterRunner, ProbeInv, IInv, RunnersOK, Idle
<1>6. FailureEarned'
  BY <1>1, <1>5 DEF ProbeInv, IInv, TypeOK, ProbeTypeOK, FailureEarned
<1> QED
  BY <1>3, <1>4, <1>6

\* A pod whose runner goes is being evicted, so no result can restart it.
LEMMA UnregisterPodInv ==
    ASSUME ProbeInv, NEW p \in Pods, UnregisterPod(p)
    PROVE  ProbeTypeOK' /\ CountsFailures' /\ FailureEarned'
<1>1. /\ probes' = [probes EXCEPT ![p] = NoRunner]
      /\ failed_checks' = [failed_checks EXCEPT ![p] = 0]
      /\ healthy' = [healthy EXCEPT ![p] = TRUE]
      /\ runners' = runners \ {p} /\ UNCHANGED <<pods, results>>
  BY DEF UnregisterPod, UnregisterRunner
<1>2. NoRunner \in RunnerStates /\ DOMAIN NoRunner = {}
  BY DEF NoRunner, RunnerStates
<1>3. ProbeTypeOK'
  BY <1>1, <1>2 DEF ProbeInv, ProbeTypeOK
<1>4. CountsFailures'
  BY <1>1, <1>2 DEF ProbeInv, ProbeTypeOK, CountsFailures
<1>5. caller # Idle /\ caller.step = "unregister" /\ caller.pod = p
  BY DEF UnregisterPod, UnregisterRunner, Idle
<1>6. pods[p].state = "Terminating"
  BY <1>5 DEF ProbeInv, IInv, CallerOK
<1>7. FailureEarned'
  BY <1>1, <1>6 DEF ProbeInv, IInv, TypeOK, ProbeTypeOK, FailureEarned
<1> QED
  BY <1>3, <1>4, <1>7

\* The other steps leave the runners alone and make a record Running only when
\* its result is used up.
LEMMA TableStepInv ==
    ASSUME ProbeInv, UNCHANGED <<probeVars, runners>>,
           \A p \in DOMAIN results' : p \in DOMAIN results /\ results'[p] = results[p],
           \A p \in DOMAIN results' :
               p \in DOMAIN pods' /\ pods'[p].state = "Running"
                   => p \in DOMAIN pods /\ pods[p].state = "Running"
    PROVE  ProbeTypeOK' /\ CountsFailures' /\ FailureEarned'
<1>1. ProbeTypeOK' /\ CountsFailures'
  BY DEF ProbeInv, ProbeTypeOK, CountsFailures, probeVars
<1>2. FailureEarned'
  BY DEF ProbeInv, FailureEarned, probeVars
<1> QED
  BY <1>1, <1>2

\* The invariant of the table holds beside the runners, and theirs with it.
LEMMA ProbeNextInv == ProbeInv /\ [ProbeNext]_allVars => ProbeInv'
<1> SUFFICES ASSUME ProbeInv, [ProbeNext]_allVars PROVE ProbeInv'
  OBVIOUS
<1>1. IInv'
  BY StepOfTable, NextInv DEF ProbeInv
<1>2. ASSUME NEW p \in Pods, FinishPodCall(p)
      PROVE  ProbeTypeOK' /\ CountsFailures' /\ FailureEarned'
  <2>1. ASSUME RemovePod(p), UNCHANGED probeVars
        PROVE  ProbeTypeOK' /\ CountsFailures' /\ FailureEarned'
    BY <2>1, TableStepInv DEF RemovePod, Drop
  <2> QED
    BY <1>2, <2>1, RegisterPodInv, UnregisterPodInv DEF FinishPodCall
<1>3. ASSUME AnyTick
      PROVE  ProbeTypeOK' /\ CountsFailures' /\ FailureEarned'
  BY <1>3, TickInv DEF AnyTick
<1>4. ASSUME NEW p \in Pods, CallerStep(p), UNCHANGED probeVars
      PROVE  ProbeTypeOK' /\ CountsFailures' /\ FailureEarned'
  <2>1. ASSUME AddPod(p)
        PROVE  ProbeTypeOK' /\ CountsFailures' /\ FailureEarned'
    <3>1. /\ UNCHANGED <<runners, results>> /\ pods'[p].state = "Booting"
          /\ \A q \in DOMAIN pods' : q # p => q \in DOMAIN pods /\ pods'[q] = pods[q]
      BY <2>1 DEF AddPod, Put, NewPod
    <3> QED
      BY <1>4, <3>1, TableStepInv
  <2>2. ASSUME BeginEviction(p)
        PROVE  ProbeTypeOK' /\ CountsFailures' /\ FailureEarned'
    <3>1. pods[p] \in PodRecords /\ p \in DOMAIN pods
      BY <2>2 DEF BeginEviction, ProbeInv, IInv, TypeOK
    <3>2. /\ UNCHANGED <<runners, results>> /\ pods'[p].state = "Terminating"
          /\ \A q \in DOMAIN pods' : q # p => q \in DOMAIN pods /\ pods'[q] = pods[q]
      BY <2>2, <3>1 DEF BeginEviction, PodRecords
    <3> QED
      BY <1>4, <3>2, TableStepInv
  <2> QED
    BY <1>4, <2>1, <2>2 DEF CallerStep
<1>5. ASSUME NEW p \in Pods, ProcessProbeResult(p), UNCHANGED probeVars
      PROVE  ProbeTypeOK' /\ CountsFailures' /\ FailureEarned'
  <2>1. /\ DOMAIN results' = DOMAIN results \ {p}
        /\ \A q \in DOMAIN results' : results'[q] = results[q]
        /\ runners' = runners
    BY <1>5 DEF ProcessProbeResult, Drop
  <2>2. /\ DOMAIN pods' = DOMAIN pods
        /\ \A q \in DOMAIN pods : q # p => pods'[q] = pods[q]
    BY <1>5 DEF ProcessProbeResult
  <2> QED
    BY <1>5, <2>1, <2>2, TableStepInv
<1>6. ASSUME UNCHANGED <<runners, results>>, UNCHANGED probeVars,
             DOMAIN pods' = DOMAIN pods,
             \A p \in DOMAIN pods : pods'[p].state = pods[p].state
      PROVE  ProbeTypeOK' /\ CountsFailures' /\ FailureEarned'
  BY <1>6, TableStepInv
<1>7. \A p \in DOMAIN pods : pods[p] \in PodRecords
  BY DEF ProbeInv, IInv, TypeOK
<1>8. ASSUME MarkAllPodsPolicyEnforced, UNCHANGED probeVars
      PROVE  ProbeTypeOK' /\ CountsFailures' /\ FailureEarned'
  BY <1>6, <1>7, <1>8 DEF MarkAllPodsPolicyEnforced, PodRecords
<1>9. ASSUME NEW unrouted \in SUBSET Workloads,
             ReevaluateRouterConnected(unrouted), UNCHANGED probeVars
      PROVE  ProbeTypeOK' /\ CountsFailures' /\ FailureEarned'
  BY <1>6, <1>7, <1>9 DEF ReevaluateRouterConnected, PodRecords
<1>10. ASSUME UNCHANGED allVars
       PROVE  ProbeTypeOK' /\ CountsFailures' /\ FailureEarned'
  BY <1>6, <1>10 DEF allVars, vars
<1> QED
  BY <1>1, <1>2, <1>3, <1>4, <1>5, <1>8, <1>9, <1>10 DEF ProbeNext, ProbeInv

\* No pod, no runner, no result.
LEMMA ProbeInitInv == ProbeInit => ProbeInv
<1> SUFFICES ASSUME ProbeInit PROVE ProbeInv
  OBVIOUS
<1>1. NoRunner \in RunnerStates /\ DOMAIN NoRunner = {}
  BY DEF NoRunner, RunnerStates
<1>2. ProbeTypeOK /\ CountsFailures
  BY <1>1 DEF ProbeInit, ProbeTypeOK, CountsFailures
<1>3. IInv /\ FailureEarned
  BY InitInv DEF ProbeInit, Init, FailureEarned
<1> QED
  BY <1>2, <1>3 DEF ProbeInv

---------------------------------------------------------------------------
(* The theorems. *)

\* The strengthened invariant holds of every behaviour of the probe loop.
THEOREM ProbeInvariance == ProbeSpec => []ProbeInv
BY ProbeInitInv, ProbeNextInv, PTL DEF ProbeSpec

\* run_probes and all_passing implement the arbitrary outcome of PodManager's
\* ProbeTick: the safety part of PodManagerSpec.
THEOREM RunnersImplementTick == ProbeSpec => Init /\ [][Next]_vars
<1>1. ProbeInit => Init
  BY DEF ProbeInit
<1> QED
  BY <1>1, StepOfTable, PTL DEF ProbeSpec

\* So the records are well typed and no pod is restarted too often whatever the
\* checks find.
THEOREM ProbedTypeCorrect == ProbeSpec => []TypeOK
<1>1. ProbeInv => TypeOK
  BY DEF ProbeInv, IInv
<1> QED
  BY <1>1, ProbeInvariance, PTL

\* The runners are those of the live pods.
THEOREM ProbedRunnersCorrect == ProbeSpec => []RunnersMatchTable
<1>1. ProbeInv => RunnersMatchTable
  BY DEF ProbeInv, IInv, RunnersOK, RunnersMatchTable
<1> QED
  BY <1>1, ProbeInvariance, PTL

\* A failure episode is announced once, whichever probes fail in it.
THEOREM ProbedAnnouncedOnce == ProbeSpec => []FailureAnnouncedOnce
<1>1. ProbeInv => FailureAnnouncedOnce
  BY DEF ProbeInv, IInv, EventsOK, FailureAnnouncedOnce
<1> QED
  BY <1>1, ProbeInvariance, PTL

\* The pod lifecycle is kept with the real probe runners.
THEOREM ProbedRefinement == ProbeSpec => LifecycleSpec
<1>1. ProbeInit => Lifecycle!Init
  BY DEF ProbeInit, Init, Lifecycle!Init
<1>2. ProbeInv => IInv
  BY DEF ProbeInv
<1> QED
  BY <1>1, <1>2, ProbeInvariance, StepOfTable, StepRefines, PTL
     DEF ProbeSpec, LifecycleSpec, Lifecycle!Spec

\* Only process_probe_result counts a restart, for a Running pod whose result is
\* not live.
LEMMA OnlyFailuresRestart ==
    ASSUME ProbeInv, [ProbeNext]_allVars, NEW p \in Active \cap Active',
           pods'[p].restart_count > pods[p].restart_count
    PROVE  /\ p \in DOMAIN results /\ ~results[p].live
           /\ p \in DOMAIN pods /\ pods[p].state = "Running"
<1>1. /\ p \in Pods /\ p \in DOMAIN pods /\ p \in DOMAIN pods'
      /\ pods[p] \in PodRecords /\ pods[p].state \in {"Booting", "Running"}
      /\ pods[p].restart_count \in Nat
  BY MaxRestartsAssumption DEF Active, ProbeInv, IInv, TypeOK, PodRecords
<1>2. pods'[p].restart_count # pods[p].restart_count
  BY <1>1
<1>3. [Next]_vars
  BY StepOfTable
<1>4. ASSUME NEW q \in Pods, AddPod(q) PROVE FALSE
  BY <1>1, <1>2, <1>4 DEF AddPod, Put
<1>5. ASSUME NEW q \in Pods, BeginEviction(q) PROVE FALSE
  <2>1. pods'[p].restart_count = pods[p].restart_count
    BY <1>1, <1>5 DEF BeginEviction, PodRecords
  <2> QED
    BY <1>2, <2>1
<1>6. ASSUME NEW q \in Pods, RemovePod(q) PROVE FALSE
  BY <1>1, <1>2, <1>6 DEF RemovePod, Drop
<1>7. ASSUME \/ ProbeTick \/ UNCHANGED vars
             \/ \E q \in Pods : RegisterRunner(q) \/ UnregisterRunner(q)
      PROVE  FALSE
  BY <1>2, <1>7 DEF ProbeTick, vars, RegisterRunner, UnregisterRunner
<1>8. ASSUME \/ MarkAllPodsPolicyEnforced
             \/ \E unrouted \in SUBSET Workloads : ReevaluateRouterConnected(unrouted)
      PROVE  FALSE
  <2>1. pods'[p].restart_count = pods[p].restart_count
    BY <1>1, <1>8
       DEF MarkAllPodsPolicyEnforced, ReevaluateRouterConnected, PodRecords
  <2> QED
    BY <1>2, <2>1
<1>9. PICK q \in Pods : ProcessProbeResult(q)
  BY <1>3, <1>4, <1>5, <1>6, <1>7, <1>8 DEF Next, CallerStep, FinishCall
<1>10. q = p
  BY <1>1, <1>2, <1>9 DEF ProcessProbeResult
<1>11. p \in DOMAIN results /\ pods'[p] = Updated(pods[p], results[p])
  BY <1>1, <1>9, <1>10 DEF ProcessProbeResult
<1>12. Restarts(pods[p], results[p])
  BY <1>1, <1>2, <1>11 DEF Updated, PodRecords
<1> QED
  BY <1>1, <1>11, <1>12 DEF Restarts

\* A restart is the consequence of failure_threshold failed liveness checks in a
\* row of the pod's present life, whatever results arrive late.
THEOREM RestartIsJustified == ProbeSpec => RestartJustified
<1>1. ProbeInv /\ [ProbeNext]_allVars =>
        [\A p \in Active \cap Active' :
            pods'[p].restart_count > pods[p].restart_count
                => failed_checks[p] >= Threshold["liveness"]]_allVars
  BY OnlyFailuresRestart DEF ProbeInv, FailureEarned
<1> QED
  BY <1>1, ProbeInvariance, PTL DEF ProbeSpec, RestartJustified

=============================================================================
