--------------------------- MODULE PodManagerProofs ---------------------------
(***************************************************************************)
(* Proofs about PodManager for every set of pods and every restart limit:  *)
(* the invariants the runs check, and that the table implements            *)
(* PodLifecycle.  The refinement needs to know where the schedule task     *)
(* is: remove_pod takes out a record that a probe result may have written  *)
(* since begin_eviction, and CallerOK says that it is still Terminating.   *)
(***************************************************************************)
EXTENDS PodManager, TLAPS

\* What the schedule task knows of the pod it is working on.
CallerOK ==
    \/ caller = Idle
    \/ /\ caller \in [step : {"register", "unregister", "remove"}, pod : Pods]
       /\ caller.pod \in DOMAIN pods
       /\ IF caller.step = "register" THEN caller.pod \in Active
          ELSE pods[caller.pod].state = "Terminating"

\* The registered runners, also inside a call: RunnersMatchTable up to the pod
\* the schedule task is working on.
RunnersOK ==
    /\ caller = Idle => runners = Active
    /\ caller # Idle =>
        /\ caller.step = "register" => runners = Active \ {caller.pod}
        /\ caller.step = "unregister" => runners = Active \cup {caller.pod}
        /\ caller.step = "remove" => runners = Active

\* An announced failure is on record until the episode ends.
EventsOK ==
    /\ failed_events \in [Pods -> 0..1]
    /\ \A p \in DOMAIN pods :
        failed_events[p] = 1 => pods[p].probe_failure_reported

\* The inductive invariant.
IInv == TypeOK /\ CallerOK /\ RunnersOK /\ EventsOK

States == {"Booting", "Running", "Terminating"}

---------------------------------------------------------------------------
(* One probe result. *)

\* A result keeps the record well typed: the restart counter stays in bounds.
LEMMA UpdatedType ==
    ASSUME NEW pod \in PodRecords, NEW r \in Outcomes
    PROVE  Updated(pod, r) \in PodRecords
  <1> DEFINE s == NextState(pod, r)
             e == pod.probe_ever_passed \/ r.passing
             f == ProbeFailed(r) /\ ~Restarts(pod, r)
                    /\ (pod.probe_failure_reported \/ EmitsFailure(pod, r))
             c == IF Restarts(pod, r) THEN pod.restart_count + 1
                  ELSE pod.restart_count
  <1>1. Updated(pod, r) = [pod EXCEPT
            !.state = s, !.probe_live = r.live, !.probe_ready = r.ready,
            !.probe_ever_passed = e, !.probe_failure_reported = f,
            !.restart_count = c]
    BY Zenon DEF Updated
  <1>2. s \in States
    BY DEF NextState, PodRecords, States
  <1>3. r.live \in BOOLEAN /\ r.ready \in BOOLEAN
    BY DEF Outcomes
  <1>4. e \in BOOLEAN /\ f \in BOOLEAN
    OBVIOUS
  <1>5. c \in 0..MaxRestarts
    BY MaxRestartsAssumption DEF Restarts, PodRecords
  <1> HIDE DEF s, e, f, c
  <1> QED
    BY <1>1, <1>2, <1>3, <1>4, <1>5 DEF PodRecords, States

\* A result moves a record only between Booting and Running.
LEMMA UpdatedState ==
    ASSUME NEW pod \in PodRecords, NEW r \in Outcomes
    PROVE  /\ Updated(pod, r).state = NextState(pod, r)
           /\ pod.state = "Terminating" <=> NextState(pod, r) = "Terminating"
           /\ NextState(pod, r) \in States
  BY DEF Updated, NextState, Restarts, PodRecords, States

---------------------------------------------------------------------------
(* Each action keeps the invariant. *)

\* The empty table.
LEMMA InitInv == Init => IInv
  BY MaxRestartsAssumption
     DEF Init, IInv, TypeOK, CallerOK, RunnersOK, EventsOK, Active

\* boot_pod installs a record of a pod that has no runner.
LEMMA AddPodInv ==
    ASSUME IInv, NEW p \in Pods, AddPod(p)
    PROVE  IInv'
  <1>1. /\ DOMAIN pods' = DOMAIN pods \cup {p} /\ pods'[p] = NewPod
        /\ \A q \in DOMAIN pods : q # p => pods'[q] = pods[q]
    BY DEF AddPod, Put
  <1>2. NewPod \in PodRecords /\ NewPod.state = "Booting"
    BY MaxRestartsAssumption DEF NewPod, PodRecords
  <1>3. p \notin Active /\ Active' = Active \cup {p}
    BY <1>1, <1>2 DEF Active, AddPod
  <1>4. /\ caller = Idle /\ caller' = [step |-> "register", pod |-> p]
        /\ caller' # Idle /\ runners' = runners /\ results' = results
        /\ failed_events' = [failed_events EXCEPT ![p] = 0]
    BY DEF AddPod, Idle
  <1>5. TypeOK'
    BY <1>1, <1>2, <1>4 DEF IInv, TypeOK
  <1>6. CallerOK'
    BY <1>1, <1>3, <1>4 DEF CallerOK
  <1>7. RunnersOK'
    BY <1>3, <1>4 DEF IInv, RunnersOK
  <1>8. EventsOK'
    <2>1. failed_events' \in [Pods -> 0..1] /\ failed_events'[p] = 0
      BY <1>4 DEF IInv, EventsOK
    <2>2. \A q \in DOMAIN pods : q # p => failed_events'[q] = failed_events[q]
      BY <1>4 DEF IInv, EventsOK, TypeOK
    <2> QED
      BY <1>1, <2>1, <2>2 DEF IInv, EventsOK
  <1> QED
    BY <1>5, <1>6, <1>7, <1>8 DEF IInv

\* The new pod gets its runner.
LEMMA RegisterRunnerInv ==
    ASSUME IInv, NEW p \in Pods, RegisterRunner(p)
    PROVE  IInv'
  <1>1. caller # Idle /\ caller.step = "register" /\ caller.pod = p /\ caller' = Idle
    BY DEF RegisterRunner, Idle
  <1>2. p \in Active /\ runners = Active \ {p} /\ runners' = runners \cup {p}
    BY <1>1 DEF IInv, CallerOK, RunnersOK, RegisterRunner
  <1>3. UNCHANGED <<pods, results, failed_events>> /\ Active' = Active
    BY DEF RegisterRunner, Active
  <1> QED
    BY <1>1, <1>2, <1>3 DEF IInv, TypeOK, CallerOK, RunnersOK, EventsOK

\* begin_eviction takes the pod out of the live ones before its runner goes.
LEMMA BeginEvictionInv ==
    ASSUME IInv, NEW p \in Pods, BeginEviction(p)
    PROVE  IInv'
  <1>1. /\ caller = Idle /\ caller' = [step |-> "unregister", pod |-> p]
        /\ caller' # Idle /\ UNCHANGED <<runners, results, failed_events>>
        /\ p \in DOMAIN pods /\ p \in Active
    BY DEF BeginEviction, Idle, Active
  <1>2. /\ DOMAIN pods' = DOMAIN pods
        /\ pods'[p] = [pods[p] EXCEPT !.state = "Terminating"]
        /\ \A q \in DOMAIN pods : q # p => pods'[q] = pods[q]
    BY <1>1 DEF BeginEviction
  <1>3. /\ pods'[p] \in PodRecords /\ pods'[p].state = "Terminating"
        /\ pods'[p].probe_failure_reported = pods[p].probe_failure_reported
    BY <1>1, <1>2 DEF IInv, TypeOK, PodRecords
  <1>4. Active' = Active \ {p}
    BY <1>2, <1>3 DEF Active
  <1>5. TypeOK' /\ CallerOK'
    BY <1>1, <1>2, <1>3 DEF IInv, TypeOK, CallerOK
  <1>6. RunnersOK' /\ EventsOK'
    BY <1>1, <1>2, <1>3, <1>4 DEF IInv, RunnersOK, EventsOK
  <1> QED
    BY <1>5, <1>6 DEF IInv

\* The evicted pod loses its runner.
LEMMA UnregisterRunnerInv ==
    ASSUME IInv, NEW p \in Pods, UnregisterRunner(p)
    PROVE  IInv'
  <1>1. /\ caller # Idle /\ caller.step = "unregister" /\ caller.pod = p
        /\ caller' = [step |-> "remove", pod |-> p] /\ caller' # Idle
    BY DEF UnregisterRunner, Idle
  <1>2. UNCHANGED <<pods, results, failed_events>> /\ Active' = Active
    BY DEF UnregisterRunner, Active
  <1>3. p \in DOMAIN pods /\ pods[p].state = "Terminating" /\ p \notin Active
    BY <1>1 DEF IInv, CallerOK, Active
  <1>4. runners' = Active
    BY <1>1, <1>3 DEF IInv, RunnersOK, UnregisterRunner
  <1> QED
    BY <1>1, <1>2, <1>3, <1>4
       DEF IInv, TypeOK, CallerOK, RunnersOK, EventsOK, Active

\* remove_pod takes out a record that is not live, or leaves it.
LEMMA RemovePodInv ==
    ASSUME IInv, NEW p \in Pods, RemovePod(p)
    PROVE  IInv'
  <1>1. /\ caller # Idle /\ caller.step = "remove" /\ caller.pod = p
        /\ caller' = Idle /\ UNCHANGED <<runners, results, failed_events>>
    BY DEF RemovePod, Idle
  <1>2. p \in DOMAIN pods /\ pods[p].state = "Terminating" /\ runners = Active
    BY <1>1 DEF IInv, CallerOK, RunnersOK
  <1>3. /\ DOMAIN pods' \in {DOMAIN pods, DOMAIN pods \ {p}}
        /\ \A q \in DOMAIN pods' : q \in DOMAIN pods /\ pods'[q] = pods[q]
    BY DEF RemovePod, Drop
  <1>4. Active' = Active
    BY <1>2, <1>3 DEF Active
  <1> QED
    BY <1>1, <1>2, <1>3, <1>4 DEF IInv, TypeOK, CallerOK, RunnersOK, EventsOK

\* A batch of results is well typed.
LEMMA ProbeTickInv == IInv /\ ProbeTick => IInv'
  <1> SUFFICES ASSUME IInv, ProbeTick PROVE IInv'
    OBVIOUS
  <1>1. results' \in [runners -> Outcomes] /\ UNCHANGED <<pods, caller, runners, failed_events>>
    BY DEF ProbeTick
  <1> QED
    BY <1>1 DEF IInv, TypeOK, CallerOK, RunnersOK, EventsOK, Active

\* A late result finds the record in any state, or no record at all.
LEMMA ProcessProbeResultInv ==
    ASSUME IInv, NEW p \in Pods, ProcessProbeResult(p)
    PROVE  IInv'
  <1> DEFINE pod == pods[p]
             r == results[p]
  <1>1. p \in DOMAIN results /\ r \in Outcomes /\ UNCHANGED <<caller, runners>>
    BY DEF ProcessProbeResult, IInv, TypeOK
  <1>2. /\ DOMAIN results' \subseteq Pods
        /\ \A q \in DOMAIN results' : results'[q] \in Outcomes
    BY DEF ProcessProbeResult, Drop, IInv, TypeOK
  <1>3. CASE p \notin DOMAIN pods
    <2>1. UNCHANGED <<pods, failed_events>> /\ Active' = Active
      BY <1>3 DEF ProcessProbeResult, Active
    <2> QED
      BY <1>1, <1>2, <2>1 DEF IInv, TypeOK, CallerOK, RunnersOK, EventsOK
  <1>4. CASE p \in DOMAIN pods
    <2>1. pod \in PodRecords
      BY <1>4 DEF IInv, TypeOK
    <2>2. /\ DOMAIN pods' = DOMAIN pods /\ pods'[p] = Updated(pod, r)
          /\ \A q \in DOMAIN pods : q # p => pods'[q] = pods[q]
      BY <1>4 DEF ProcessProbeResult
    <2>3. /\ pods'[p] \in PodRecords
          /\ pods'[p].state = "Terminating" <=> pod.state = "Terminating"
          /\ pods'[p].state \in States
      BY <1>1, <2>1, <2>2, UpdatedType, UpdatedState
    <2>4. Active' = Active
      BY <1>4, <2>1, <2>2, <2>3 DEF Active, States, PodRecords
    <2>5. TypeOK'
      BY <1>1, <1>2, <2>2, <2>3 DEF IInv, TypeOK
    <2>6. CallerOK'
      BY <1>1, <1>4, <2>2, <2>3, <2>4 DEF IInv, CallerOK
    <2>7. RunnersOK'
      BY <1>1, <2>4 DEF IInv, RunnersOK
    <2>8. failed_events' = [failed_events EXCEPT ![p] =
              IF ~ProbeFailed(r) \/ Restarts(pod, r) THEN 0
              ELSE IF EmitsFailure(pod, r) THEN failed_events[p] + 1
              ELSE failed_events[p]]
      BY <1>4 DEF ProcessProbeResult
    <2>9. failed_events \in [Pods -> 0..1]
          /\ (failed_events[p] = 1 => pod.probe_failure_reported)
      BY <1>4 DEF IInv, EventsOK
    <2>10. pods'[p].probe_failure_reported
              = (/\ ProbeFailed(r) /\ ~Restarts(pod, r)
                 /\ pod.probe_failure_reported \/ EmitsFailure(pod, r))
      BY <2>1, <2>2 DEF Updated, PodRecords
    <2>11. EmitsFailure(pod, r) => failed_events[p] = 0
      BY <2>9 DEF EmitsFailure
    <2>12. /\ failed_events'[p] \in 0..1
           /\ failed_events'[p] = 1 => pods'[p].probe_failure_reported
      BY <2>8, <2>9, <2>10, <2>11
    <2>13. /\ failed_events' \in [Pods -> 0..1]
           /\ \A q \in Pods : q # p => failed_events'[q] = failed_events[q]
      BY <2>8, <2>9, <2>12
    <2>14. EventsOK'
      BY <2>2, <2>5, <2>12, <2>13 DEF IInv, EventsOK, TypeOK
    <2> QED
      BY <2>5, <2>6, <2>7, <2>14 DEF IInv
  <1> QED
    BY <1>3, <1>4

\* The policy watch and the routes watch write one field of every record.
LEMMA FieldInv ==
    ASSUME IInv, UNCHANGED <<caller, runners, results, failed_events>>,
           DOMAIN pods' = DOMAIN pods,
           \A p \in DOMAIN pods :
               /\ pods'[p] \in PodRecords
               /\ pods'[p].state = pods[p].state
               /\ pods'[p].probe_failure_reported = pods[p].probe_failure_reported
    PROVE  IInv'
  <1>1. Active' = Active
    BY DEF Active
  <1> QED
    BY <1>1 DEF IInv, TypeOK, CallerOK, RunnersOK, EventsOK

\* Every step of the four tasks keeps the invariant.
LEMMA NextInv == IInv /\ [Next]_vars => IInv'
  <1> SUFFICES ASSUME IInv, [Next]_vars PROVE IInv'
    OBVIOUS
  <1>1. ASSUME NEW p \in Pods, CallerStep(p) PROVE IInv'
    BY <1>1, AddPodInv, BeginEvictionInv DEF CallerStep
  <1>2. ASSUME NEW p \in Pods, FinishCall(p) PROVE IInv'
    BY <1>2, RegisterRunnerInv, UnregisterRunnerInv, RemovePodInv DEF FinishCall
  <1>3. CASE ProbeTick
    BY <1>3, ProbeTickInv
  <1>4. ASSUME NEW p \in Pods, ProcessProbeResult(p) PROVE IInv'
    BY <1>4, ProcessProbeResultInv
  <1>5. CASE MarkAllPodsPolicyEnforced
    <2>1. \A p \in DOMAIN pods : pods[p] \in PodRecords
      BY DEF IInv, TypeOK
    <2>2. /\ DOMAIN pods' = DOMAIN pods
          /\ \A p \in DOMAIN pods :
               pods'[p] = [pods[p] EXCEPT !.policy_enforced = TRUE]
      BY <1>5 DEF MarkAllPodsPolicyEnforced
    <2>3. \A p \in DOMAIN pods :
            /\ pods'[p] \in PodRecords /\ pods'[p].state = pods[p].state
            /\ pods'[p].probe_failure_reported = pods[p].probe_failure_reported
      BY <2>1, <2>2 DEF PodRecords
    <2> QED
      BY <1>5, <2>2, <2>3, FieldInv DEF MarkAllPodsPolicyEnforced
  <1>6. ASSUME NEW unrouted \in SUBSET Workloads, ReevaluateRouterConnected(unrouted)
        PROVE  IInv'
    <2>1. \A p \in DOMAIN pods : pods[p] \in PodRecords
      BY DEF IInv, TypeOK
    <2>2. /\ DOMAIN pods' = DOMAIN pods
          /\ \A p \in DOMAIN pods : pods'[p] =
               [pods[p] EXCEPT !.router_connected = WorkloadOf[p] \notin unrouted]
      BY <1>6 DEF ReevaluateRouterConnected
    <2>3. \A p \in DOMAIN pods :
            /\ pods'[p] \in PodRecords /\ pods'[p].state = pods[p].state
            /\ pods'[p].probe_failure_reported = pods[p].probe_failure_reported
      BY <2>1, <2>2 DEF PodRecords
    <2> QED
      BY <1>6, <2>2, <2>3, FieldInv DEF ReevaluateRouterConnected
  <1>7. CASE UNCHANGED vars
    BY <1>7 DEF vars, IInv, TypeOK, CallerOK, RunnersOK, EventsOK, Active
  <1> QED
    BY <1>1, <1>2, <1>3, <1>4, <1>5, <1>6, <1>7 DEF Next

---------------------------------------------------------------------------
(* The theorems. *)

\* IInv holds in every state the four tasks reach.
THEOREM Invariance == Spec => []IInv
  BY InitInv, NextInv, PTL DEF Spec

\* The records are well typed: no pod is restarted more often than allowed.
THEOREM TypeCorrect == Spec => []TypeOK
  <1>1. IInv => TypeOK
    BY DEF IInv
  <1> QED
    BY <1>1, Invariance, PTL

\* Between two calls of the schedule task exactly the live pods are probed.
THEOREM RunnersCorrect == Spec => []RunnersMatchTable
  <1>1. IInv => RunnersMatchTable
    BY DEF IInv, RunnersOK, RunnersMatchTable
  <1> QED
    BY <1>1, Invariance, PTL

\* No failure episode is announced twice.
THEOREM AnnouncedOnce == Spec => []FailureAnnouncedOnce
  <1>1. IInv => FailureAnnouncedOnce
    BY DEF IInv, EventsOK, FailureAnnouncedOnce
  <1> QED
    BY <1>1, Invariance, PTL

---------------------------------------------------------------------------
(* The refinement. *)

\* The state of a pod in PodLifecycle.
StateOf(p) == IF p \in DOMAIN pods THEN pods[p].state ELSE "Absent"

\* When only the record of p changes, the abstract state moves at p alone.
LEMMA OneRecord ==
    ASSUME NEW p \in Pods, \A q \in Pods : q # p => StateOf(q)' = StateOf(q)
    PROVE  [q \in Pods |-> StateOf(q)]' =
             [[q \in Pods |-> StateOf(q)] EXCEPT ![p] = StateOf(p)']
  OBVIOUS

\* A step of the table is a step of PodLifecycle, or leaves it unchanged.
LEMMA StepRefines ==
    IInv /\ [Next]_vars => [Lifecycle!Next]_([p \in Pods |->
        IF p \in DOMAIN pods THEN pods[p].state ELSE "Absent"])
  <1> DEFINE abs == [q \in Pods |-> StateOf(q)]
  <1> SUFFICES ASSUME IInv, [Next]_vars
               PROVE  Lifecycle!Next \/ abs' = abs
    BY DEF StateOf
  <1>1. ASSUME NEW p \in Pods, AddPod(p)
        PROVE  Lifecycle!Boot(p)
    <2>1. \A q \in Pods : q # p => StateOf(q)' = StateOf(q)
      BY <1>1 DEF AddPod, Put, StateOf
    <2>2. StateOf(p) \in {"Absent", "Terminating"} /\ StateOf(p)' = "Booting"
      BY <1>1 DEF AddPod, Put, NewPod, StateOf
    <2> QED
      BY <2>1, <2>2, OneRecord DEF Lifecycle!Boot, Lifecycle!Move, StateOf
  <1>2. ASSUME NEW p \in Pods, BeginEviction(p)
        PROVE  Lifecycle!Evict(p)
    <2>1. \A q \in Pods : q # p => StateOf(q)' = StateOf(q)
      BY <1>2 DEF BeginEviction, StateOf
    <2>2. StateOf(p) \in {"Booting", "Running"} /\ StateOf(p)' = "Terminating"
      BY <1>2 DEF BeginEviction, StateOf, IInv, TypeOK, PodRecords
    <2> QED
      BY <2>1, <2>2, OneRecord DEF Lifecycle!Evict, Lifecycle!Move, StateOf
  <1>3. ASSUME NEW p \in Pods, RemovePod(p)
        PROVE  Lifecycle!Remove(p) \/ abs' = abs
    <2>1. CASE pods' = pods
      BY <2>1 DEF StateOf
    <2>2. CASE pods' = Drop(pods, p)
      <3>1. \A q \in Pods : q # p => StateOf(q)' = StateOf(q)
        BY <2>2 DEF Drop, StateOf
      <3>2. caller # Idle /\ caller.step = "remove" /\ caller.pod = p
        BY <1>3 DEF RemovePod, Idle
      <3>3. StateOf(p) = "Terminating" /\ StateOf(p)' = "Absent"
        BY <2>2, <3>2 DEF Drop, StateOf, IInv, CallerOK
      <3> QED
        BY <3>1, <3>3, OneRecord DEF Lifecycle!Remove, Lifecycle!Move, StateOf
    <2> QED
      BY <1>3, <2>1, <2>2 DEF RemovePod
  <1>4. ASSUME NEW p \in Pods, ProcessProbeResult(p)
        PROVE  Lifecycle!Promote(p) \/ Lifecycle!Restart(p) \/ abs' = abs
    <2>1. CASE p \notin DOMAIN pods
      BY <1>4, <2>1 DEF ProcessProbeResult, StateOf
    <2>2. CASE p \in DOMAIN pods
      <3>1. pods[p] \in PodRecords /\ results[p] \in Outcomes
        BY <1>4, <2>2 DEF ProcessProbeResult, IInv, TypeOK
      <3>2. \A q \in Pods : q # p => StateOf(q)' = StateOf(q)
        BY <1>4, <2>2 DEF ProcessProbeResult, StateOf
      <3>3. /\ StateOf(p) = pods[p].state
            /\ StateOf(p)' = NextState(pods[p], results[p])
        BY <1>4, <2>2, <3>1, UpdatedState DEF ProcessProbeResult, StateOf
      <3>4. abs' = [abs EXCEPT ![p] = StateOf(p)']
        BY <3>2, OneRecord
      <3>5. CASE StateOf(p) = "Booting" /\ StateOf(p)' = "Running"
        BY <3>4, <3>5 DEF Lifecycle!Promote, Lifecycle!Move, StateOf
      <3>6. CASE StateOf(p) = "Running" /\ StateOf(p)' = "Booting"
        BY <3>4, <3>6 DEF Lifecycle!Restart, Lifecycle!Move, StateOf
      <3>7. CASE StateOf(p)' = StateOf(p)
        BY <3>4, <3>7
      <3> QED
        BY <3>1, <3>3, <3>5, <3>6, <3>7 DEF NextState, Restarts, PodRecords
    <2> QED
      BY <2>1, <2>2
  <1>5. ASSUME \/ ProbeTick \/ MarkAllPodsPolicyEnforced
               \/ \E unrouted \in SUBSET Workloads : ReevaluateRouterConnected(unrouted)
               \/ \E p \in Pods : RegisterRunner(p) \/ UnregisterRunner(p)
               \/ UNCHANGED vars
        PROVE  abs' = abs
    <2>1. \A p \in DOMAIN pods : pods[p] \in PodRecords
      BY DEF IInv, TypeOK
    <2>2. /\ DOMAIN pods' = DOMAIN pods
          /\ \A p \in DOMAIN pods : pods'[p].state = pods[p].state
      BY <1>5, <2>1
         DEF ProbeTick, MarkAllPodsPolicyEnforced, ReevaluateRouterConnected,
             RegisterRunner, UnregisterRunner, vars, PodRecords
    <2> QED
      BY <2>2 DEF StateOf
  <1> QED
    BY <1>1, <1>2, <1>3, <1>4, <1>5
       DEF Next, CallerStep, FinishCall, Lifecycle!Next

\* The pod table, written by four tasks, implements PodLifecycle: eviction is
\* final, and a late probe result never revives a pod.
THEOREM Refinement == Spec => LifecycleSpec
  <1>1. Init => Lifecycle!Init
    BY DEF Init, Lifecycle!Init
  <1> QED
    BY <1>1, Invariance, StepRefines, PTL DEF Spec, LifecycleSpec, Lifecycle!Spec

=============================================================================
