---------------------------- MODULE MapSyncProofs ----------------------------
(***************************************************************************)
(* Proofs about MapSync for every set of keys, every capacity and every    *)
(* sequence of frames and failures.  FailureContained speaks of the moments*)
(* between two frames only, so it is not inductive: Progress says, for a   *)
(* frame in work, which keys the kernel holds after each operation, those  *)
(* that earlier failures left in doubt aside.                              *)
(***************************************************************************)
EXTENDS MapSync, TLAPS

\* The phases that insert and delete a key.
InsertPhase(k) ==
    IF k \in ExactKeys THEN 1 ELSE IF k \in WildcardKeys THEN 3 ELSE 5

DeletePhase(k) ==
    IF k \in ExactKeys THEN 2
    ELSE IF k \in WildcardKeys THEN 4
    ELSE IF k \in DummyIps THEN 6
    ELSE 7

\* Phase i of the frame in work is over, as far as key k is concerned.
Past(i, k) == sync.phase > i \/ (sync.phase = i /\ k \notin sync.todo)

\* The keys the kernel should hold now: an inserted key once its insertion is
\* past, a deleted one until its deletion is.
Expected(k) ==
    IF k \in Inserts(sync.frame) THEN Past(InsertPhase(k), k)
    ELSE IF k \in Deletes(sync.frame, sync.phase) THEN ~Past(DeletePhase(k), k)
    ELSE k \in mirror

\* What is left to do is part of the difference.
TodoOK == sync # Idle => sync.todo \subseteq Todo(sync.frame, sync.phase)

\* Keys in doubt aside, the kernel is exactly as far as the frame in work.
Progress ==
    sync # Idle => \A k \in Keys \ doubtful : k \in DOMAIN kernel <=> Expected(k)

\* The inductive invariant.
IInv ==
    /\ TypeOK /\ TodoOK /\ MirrorIsApplied /\ FailureContained /\ Progress
    /\ EnforcedMeansApplied

---------------------------------------------------------------------------
(* Frames and phases. *)

\* A compiled SAG frame has policy keys only.
LEMMA PolicyFrameKeys ==
    ASSUME NEW f \in PolicyFrames
    PROVE  DOMAIN f \subseteq PolicyKeys
  BY DEF PolicyFrames

\* A route frame has addresses and local destinations only.
LEMMA RouteFrameKeys ==
    ASSUME NEW f \in RouteFrames
    PROVE  DOMAIN f \subseteq RouteKeys
  <1>1. PICK r \in Routes : \E here \in SUBSET {r[k] : k \in DOMAIN r} :
          f = RouteFrame(r, here)
    BY Zenon DEF RouteFrames
  <1>2. PICK here \in SUBSET {r[k] : k \in DOMAIN r} : f = RouteFrame(r, here)
    BY <1>1
  <1>3. PICK ks \in SUBSET DummyIps : r \in [ks -> Fingerprints]
    BY DEF Routes
  <1>4. here \subseteq Fingerprints /\ DOMAIN r \subseteq DummyIps
    BY <1>2, <1>3
  <1>5. DOMAIN f = DOMAIN r \cup here
    BY <1>2 DEF RouteFrame
  <1> QED
    BY <1>4, <1>5 DEF RouteKeys

\* The frame in work is one of the two kinds, with its phase in step.
LEMMA PhaseFacts ==
    ASSUME NEW i \in 1..7
    PROVE  /\ MapsOf(i) \subseteq Own(i)
           /\ Own(i) \subseteq Keys
           /\ ~LastPhase(i) => i + 1 \in 1..7 /\ Own(i + 1) = Own(i)
           /\ LastPhase(i) <=> i \in {4, 7}
  BY DEF MapsOf, Own, IsPolicy, LastPhase, PolicyKeys, RouteKeys, Keys

\* Where a key of the frame's kind is inserted and where it is deleted.
LEMMA KeyPhases ==
    ASSUME NEW i \in 1..7, NEW k \in Own(i)
    PROVE  /\ InsertPhase(k) \in 1..7 /\ DeletePhase(k) \in 1..7
           /\ InsertPhase(k) < DeletePhase(k)
           /\ Inserting(i) => (k \in MapsOf(i) <=> InsertPhase(k) = i)
           /\ ~Inserting(i) => (k \in MapsOf(i) <=> DeletePhase(k) = i)
           /\ ~Inserting(InsertPhase(k)) => FALSE
           /\ Inserting(DeletePhase(k)) => FALSE
           /\ LastPhase(i) => DeletePhase(k) <= i
           /\ i = 1 => DeletePhase(k) > 1
           /\ i = 5 => InsertPhase(k) = 5 /\ DeletePhase(k) > 5
  BY KeysAssumption
     DEF MapsOf, Own, IsPolicy, LastPhase, Inserting, InsertPhase, DeletePhase,
         PolicyKeys, RouteKeys

---------------------------------------------------------------------------
(* Each action keeps the invariant. *)

\* Before the first frame nothing is mirrored and the maps are empty.
LEMMA InitInv == Init => IInv
  <1> SUFFICES ASSUME Init PROVE IInv
    OBVIOUS
  <1>1. DOMAIN kernel = {} /\ DOMAIN applied = {} /\ mirror = {} /\ sync = Idle
    BY DEF Init
  <1>2. policy_version \in 0..MaxVersion /\ route_version \in 0..MaxVersion
    BY KeysAssumption DEF Init
  <1>3. policy_enforced \in BOOLEAN /\ ~policy_enforced
    BY Zenon DEF Init
  <1>4. doubtful = {}
    BY DEF Init
  <1> QED
    BY <1>1, <1>2, <1>3, <1>4
       DEF IInv, TypeOK, SyncOK, TodoOK, MirrorIsApplied, FailureContained, Progress,
           EnforcedMeansApplied

\* A frame that arrives changes no map.
LEMMA BeginInv ==
    ASSUME IInv, NEW v \in 1..MaxVersion, NEW f \in PolicyFrames \cup RouteFrames,
           NEW i \in {1, 5}, DOMAIN f \subseteq Own(i), Begin(v, f, i)
    PROVE  IInv'
  <1> USE DEF Begin
  <1>1. i \in 1..7 /\ sync' # Idle
    BY DEF Idle
  <1>2. sync'.phase = i /\ sync'.todo = Todo(f, i) /\ sync'.frame = f
    OBVIOUS
  <1>3. Todo(f, i) \subseteq MapsOf(i) /\ Todo(f, i) \subseteq Keys
    BY <1>1, PhaseFacts DEF Todo
  <1>4. TypeOK'
    BY <1>1, <1>2, <1>3 DEF IInv, TypeOK, SyncOK
  <1>5. TodoOK'
    BY <1>2 DEF TodoOK, Todo, Inserts, Deletes
  <1>6. Progress'
    <2> SUFFICES ASSUME NEW k \in Keys \ doubtful
                 PROVE  k \in DOMAIN kernel <=> Expected(k)'
      BY DEF Progress
    <2>1. k \in DOMAIN kernel <=> k \in mirror
      BY DEF IInv, FailureContained, MirrorIsApplied
    <2>2. CASE k \in Inserts(f)
      <3>1. k \in Own(i) /\ k \notin mirror
        BY <2>2 DEF Inserts
      <3>2. InsertPhase(k) >= i /\ InsertPhase(k) \in 1..7
        BY <1>1, <3>1, KeyPhases
      <3>3. InsertPhase(k) = i => k \in Todo(f, i)
        BY <1>1, <2>2, <3>1, KeyPhases DEF Todo, Inserting
      <3> QED
        BY <1>1, <1>2, <2>1, <2>2, <3>1, <3>2, <3>3
           DEF Expected, Past, Inserts
    <2>3. CASE k \in Deletes(f, i)
      <3>1. k \in Own(i) /\ k \in mirror /\ k \notin Inserts(f)
        BY <2>3 DEF Deletes, Inserts
      <3>2. DeletePhase(k) > i /\ DeletePhase(k) \in 1..7
        BY <1>1, <3>1, KeyPhases
      <3> QED
        BY <1>1, <1>2, <2>1, <2>3, <3>1, <3>2
           DEF Expected, Past, Inserts, Deletes
    <2>4. CASE k \notin Inserts(f) /\ k \notin Deletes(f, i)
      BY <1>2, <2>1, <2>4 DEF Expected, Inserts, Deletes
    <2> QED
      BY <2>2, <2>3, <2>4
  <1> QED
    BY <1>1, <1>4, <1>5, <1>6
       DEF IInv, MirrorIsApplied, FailureContained, EnforcedMeansApplied

\* What a key of the remaining work is: one to insert in an insert phase, one
\* to delete in a delete phase.
LEMMA TodoFacts ==
    ASSUME IInv, sync # Idle, NEW k \in sync.todo
    PROVE  /\ k \in Keys /\ k \in Own(sync.phase) /\ sync.phase \in 1..7
           /\ k \in MapsOf(sync.phase)
           /\ Inserting(sync.phase) =>
                k \in Inserts(sync.frame) /\ InsertPhase(k) = sync.phase
           /\ ~Inserting(sync.phase) =>
                /\ k \in Deletes(sync.frame, sync.phase)
                /\ k \notin Inserts(sync.frame)
                /\ DeletePhase(k) = sync.phase
  <1>1. sync.phase \in 1..7 /\ k \in Keys /\ k \in Todo(sync.frame, sync.phase)
    BY DEF IInv, TypeOK, SyncOK, TodoOK
  <1>2. k \in MapsOf(sync.phase) /\ k \in Own(sync.phase)
    BY <1>1, PhaseFacts DEF Todo
  <1> QED
    BY <1>1, <1>2, KeyPhases DEF Todo, Inserts, Deletes

\* A frame that fails leaves the mirror where it was.
LEMMA AbortInv ==
    ASSUME IInv, sync # Idle, Abort
    PROVE  IInv'
  <1>1. /\ sync' = Idle
        /\ doubtful' = doubtful \cup Differences(sync.frame, sync.phase)
        /\ UNCHANGED <<kernel, mirror, policy_version, route_version,
                       policy_enforced, applied>>
    BY DEF Abort
  <1>2. sync.phase \in 1..7 /\ DOMAIN sync.frame \subseteq Own(sync.phase)
        /\ Own(sync.phase) \subseteq Keys
    BY PhaseFacts DEF IInv, TypeOK, SyncOK
  <1>3. Differences(sync.frame, sync.phase) \subseteq Keys
    BY <1>2 DEF Differences
  <1>4. FailureContained'
    <2> SUFFICES ASSUME NEW k \in Keys, k \notin doubtful,
                        k \notin Differences(sync.frame, sync.phase)
                 PROVE  k \in DOMAIN kernel <=> k \in DOMAIN applied
      BY <1>1 DEF FailureContained
    <2>1. k \notin Inserts(sync.frame) /\ k \notin Deletes(sync.frame, sync.phase)
      BY <1>2 DEF Differences, Inserts, Deletes, IInv, MirrorIsApplied
    <2>2. k \in DOMAIN kernel <=> Expected(k)
      BY DEF IInv, Progress
    <2> QED
      BY <2>1, <2>2 DEF Expected, IInv, MirrorIsApplied
  <1> QED
    BY <1>1, <1>3, <1>4
       DEF IInv, TypeOK, SyncOK, TodoOK, MirrorIsApplied, Progress,
           EnforcedMeansApplied

\* A key taken off the work list keeps the frame well typed.
LEMMA DoneFacts ==
    ASSUME IInv, sync # Idle, NEW k \in sync.todo, Done(k)
    PROVE  /\ sync' # Idle
           /\ sync'.phase = sync.phase /\ sync'.frame = sync.frame
           /\ sync'.todo = sync.todo \ {k}
           /\ SyncOK' /\ doubtful' = doubtful \ {k}
  <1>1. sync \in [phase : 1..7, todo : SUBSET Keys, version : 1..MaxVersion,
                  frame : PolicyFrames \cup RouteFrames]
    BY DEF IInv, TypeOK, SyncOK
  <1>2. /\ sync'.phase = sync.phase /\ sync'.frame = sync.frame
        /\ sync'.todo = sync.todo \ {k}
        /\ sync' \in [phase : 1..7, todo : SUBSET Keys, version : 1..MaxVersion,
                      frame : PolicyFrames \cup RouteFrames]
    BY <1>1 DEF Done
  <1>3. sync' # Idle
    BY <1>1, <1>2 DEF Idle
  <1> QED
    BY <1>2, <1>3 DEF IInv, TypeOK, SyncOK, Done

\* One insertion or one deletion: the kernel moves with the work list.
LEMMA MapOpInv ==
    ASSUME IInv, sync # Idle, NEW k \in sync.todo, Done(k),
           UNCHANGED <<mirror, policy_version, route_version, policy_enforced,
                       applied>>,
           DOMAIN kernel' = IF Inserting(sync.phase) THEN DOMAIN kernel \cup {k}
                            ELSE DOMAIN kernel \ {k}
    PROVE  IInv'
  <1>1. /\ sync' # Idle
        /\ sync'.phase = sync.phase /\ sync'.frame = sync.frame
        /\ sync'.todo = sync.todo \ {k}
        /\ SyncOK' /\ doubtful' = doubtful \ {k}
    BY DoneFacts
  <1>2. /\ k \in Keys /\ k \in Own(sync.phase) /\ sync.phase \in 1..7
        /\ Inserting(sync.phase) =>
             k \in Inserts(sync.frame) /\ InsertPhase(k) = sync.phase
        /\ ~Inserting(sync.phase) =>
             /\ k \in Deletes(sync.frame, sync.phase)
             /\ k \notin Inserts(sync.frame)
             /\ DeletePhase(k) = sync.phase
    BY TodoFacts
  <1>3. TypeOK'
    BY <1>1, <1>2 DEF IInv, TypeOK
  <1>4. TodoOK'
    BY <1>1 DEF IInv, TodoOK, Todo, Inserts, Deletes
  <1>5. Progress'
    <2> SUFFICES ASSUME NEW x \in Keys, x = k \/ x \notin doubtful
                 PROVE  x \in DOMAIN kernel' <=> Expected(x)'
      BY <1>1 DEF Progress
    <2>1. x # k => (x \in DOMAIN kernel <=> Expected(x))
      BY DEF IInv, Progress
    <2>2. CASE x = k
      BY <1>1, <1>2, <2>2 DEF Expected, Past, Inserts, Deletes
    <2>3. CASE x # k
      <3>1. Expected(x)' <=> Expected(x)
        BY <1>1, <2>3 DEF Expected, Past, Inserts, Deletes
      <3> QED
        BY <2>1, <2>3, <3>1
    <2> QED
      BY <2>2, <2>3
  <1> QED
    BY <1>1, <1>3, <1>4, <1>5
       DEF IInv, MirrorIsApplied, FailureContained, EnforcedMeansApplied

\* The next phase starts where the last one ended.
LEMMA NextPhaseInv == IInv /\ NextPhase => IInv'
  <1> SUFFICES ASSUME IInv, NextPhase PROVE IInv'
    OBVIOUS
  <1> DEFINE i == sync.phase
             f == sync.frame
  <1>1. /\ sync # Idle /\ sync.todo = {} /\ ~LastPhase(i)
        /\ sync \in [phase : 1..7, todo : SUBSET Keys, version : 1..MaxVersion,
                     frame : PolicyFrames \cup RouteFrames]
    BY DEF NextPhase, IInv, TypeOK, SyncOK
  <1>2. i + 1 \in 1..7 /\ Own(i + 1) = Own(i)
    BY <1>1, PhaseFacts
  <1>3. Todo(f, i + 1) \subseteq MapsOf(i + 1) /\ Todo(f, i + 1) \subseteq Keys
    BY <1>2, PhaseFacts DEF Todo
  <1>4. /\ sync'.phase = i + 1 /\ sync'.frame = f /\ sync'.todo = Todo(f, i + 1)
        /\ sync' \in [phase : 1..7, todo : SUBSET Keys, version : 1..MaxVersion,
                      frame : PolicyFrames \cup RouteFrames]
    BY <1>1, <1>2, <1>3 DEF NextPhase
  <1>5. sync' # Idle
    BY <1>4 DEF Idle
  <1>6. TypeOK'
    BY <1>1, <1>2, <1>3, <1>4 DEF IInv, TypeOK, SyncOK, NextPhase
  <1>7. TodoOK'
    BY <1>4 DEF TodoOK, Todo, Inserts, Deletes, NextPhase
  <1>8. Progress'
    <2> SUFFICES ASSUME NEW k \in Keys \ doubtful
                 PROVE  k \in DOMAIN kernel <=> Expected(k)'
      BY DEF Progress, NextPhase
    <2>1. k \in DOMAIN kernel <=> Expected(k)
      BY <1>1 DEF IInv, Progress
    <2>2. mirror' = mirror
      BY DEF NextPhase
    <2>3. ASSUME NEW j \in 1..7, j = i + 1 => k \in Todo(f, i + 1)
          PROVE  Past(j, k)' <=> Past(j, k)
      BY <1>1, <1>2, <1>4, <2>3 DEF Past
    <2>4. CASE k \in Inserts(f)
      <3>1. k \in Own(i + 1)
        BY <1>1, <1>2, <2>4 DEF IInv, TypeOK, SyncOK, Inserts
      <3>2. InsertPhase(k) \in 1..7
        BY <1>2, <3>1, KeyPhases
      <3>3. InsertPhase(k) = i + 1 => k \in Todo(f, i + 1)
        BY <1>2, <2>4, <3>1, KeyPhases DEF Todo
      <3> QED
        BY <1>4, <2>1, <2>2, <2>3, <2>4, <3>2, <3>3 DEF Expected, Inserts
    <2>5. CASE k \in Deletes(f, i)
      <3>1. k \in Own(i + 1) /\ k \notin Inserts(f) /\ k \in Deletes(f, i + 1)
        BY <1>2, <2>5 DEF Inserts, Deletes
      <3>2. DeletePhase(k) \in 1..7
        BY <1>2, <3>1, KeyPhases
      <3>3. DeletePhase(k) = i + 1 => k \in Todo(f, i + 1)
        BY <1>2, <3>1, KeyPhases DEF Todo
      <3> QED
        BY <1>4, <2>1, <2>2, <2>3, <2>5, <3>1, <3>2, <3>3
           DEF Expected, Inserts, Deletes
    <2>6. CASE k \notin Inserts(f) /\ k \notin Deletes(f, i)
      BY <1>2, <1>4, <2>1, <2>2, <2>6 DEF Expected, Inserts, Deletes
    <2> QED
      BY <2>4, <2>5, <2>6
  <1> QED
    BY <1>5, <1>6, <1>7, <1>8
       DEF IInv, MirrorIsApplied, FailureContained, EnforcedMeansApplied, NextPhase

\* After the last phase the kernel has the keys of the new frame, and so has
\* the mirror.
LEMMA CommitInv == IInv /\ Commit => IInv'
  <1> SUFFICES ASSUME IInv, Commit PROVE IInv'
    OBVIOUS
  <1> DEFINE i == sync.phase
             f == sync.frame
  <1>1. /\ sync # Idle /\ sync.todo = {} /\ LastPhase(i) /\ i \in 1..7
        /\ sync.version \in 1..MaxVersion /\ DOMAIN f \subseteq Own(i)
        /\ Own(i) \subseteq Keys
    BY PhaseFacts DEF Commit, IInv, TypeOK, SyncOK
  <1>2. sync' = Idle /\ kernel' = kernel /\ doubtful' = doubtful
    BY DEF Commit
  <1>3. mirror' = (mirror \ Own(i)) \cup DOMAIN f
    BY <1>1 DEF Commit, UpdateMirror, Inserts, Deletes
  <1>4. DOMAIN applied' = (DOMAIN applied \ Own(i)) \cup DOMAIN f
    BY DEF Commit, Applied
  <1>5. MirrorIsApplied'
    BY <1>3, <1>4 DEF IInv, MirrorIsApplied
  <1>6. /\ policy_version' \in 0..MaxVersion /\ route_version' \in 0..MaxVersion
        /\ policy_enforced' \in BOOLEAN
        /\ policy_enforced' => policy_version' > 0
    <2>1. CASE IsPolicy(i)
      <3>1. policy_version' = sync.version /\ route_version' = route_version
        BY <2>1 DEF Commit
      <3>2. policy_enforced' \in BOOLEAN
        BY <2>1, Zenon DEF Commit
      <3> QED
        BY <1>1, <3>1, <3>2, KeysAssumption DEF IInv, TypeOK
    <2>2. CASE ~IsPolicy(i)
      BY <1>1, <2>2, KeysAssumption
         DEF Commit, IInv, TypeOK, EnforcedMeansApplied
    <2> QED
      BY <2>1, <2>2
  <1>7. TypeOK'
    BY <1>1, <1>2, <1>3, <1>4, <1>6 DEF IInv, TypeOK, SyncOK
  <1>8. FailureContained'
    <2> SUFFICES ASSUME NEW k \in Keys \ doubtful
                 PROVE  k \in DOMAIN kernel <=> k \in mirror'
      BY <1>2, <1>5, <1>7 DEF FailureContained, MirrorIsApplied, TypeOK
    <2>1. k \in DOMAIN kernel <=> Expected(k)
      BY <1>1 DEF IInv, Progress
    <2>2. CASE k \in Inserts(f)
      <3>1. k \in Own(i)
        BY <1>1, <2>2 DEF Inserts
      <3>2. InsertPhase(k) < i /\ InsertPhase(k) \in 1..7
        BY <1>1, <3>1, KeyPhases
      <3> QED
        BY <1>1, <1>3, <2>1, <2>2, <3>2 DEF Expected, Past, Inserts
    <2>3. CASE k \in Deletes(f, i)
      <3>1. k \in Own(i) /\ k \notin Inserts(f) /\ k \notin DOMAIN f
        BY <2>3 DEF Deletes, Inserts
      <3>2. DeletePhase(k) <= i /\ DeletePhase(k) \in 1..7
        BY <1>1, <3>1, KeyPhases
      <3> QED
        BY <1>1, <1>3, <2>1, <2>3, <3>1, <3>2 DEF Expected, Past
    <2>4. CASE k \notin Inserts(f) /\ k \notin Deletes(f, i)
      BY <1>3, <2>1, <2>4 DEF Expected, Inserts, Deletes
    <2> QED
      BY <2>2, <2>3, <2>4
  <1> QED
    BY <1>2, <1>5, <1>6, <1>7, <1>8
       DEF IInv, TodoOK, Progress, EnforcedMeansApplied

\* A stale policy frame marks the pods only when an earlier one was applied.
LEMMA DiscardStaleInv ==
    ASSUME IInv, NEW v \in 1..MaxVersion, DiscardStale(v)
    PROVE  IInv'
  <1>1. policy_enforced' \in BOOLEAN
    BY Zenon DEF DiscardStale
  <1>2. policy_version' = policy_version /\ policy_version > 0
    BY KeysAssumption DEF DiscardStale, IInv, TypeOK
  <1>3. UNCHANGED <<kernel, mirror, route_version, sync, applied, doubtful>>
    BY DEF DiscardStale
  <1> QED
    BY <1>1, <1>2, <1>3
       DEF IInv, TypeOK, SyncOK, TodoOK, MirrorIsApplied, FailureContained, Progress,
           EnforcedMeansApplied, Expected, Past, Inserts, Deletes, Todo

\* Every operation on the maps, successful or not, keeps the invariant.
LEMMA MapStepInv == IInv /\ MapStep => IInv'
  <1> SUFFICES ASSUME IInv, NEW k \in Keys,
                      \/ InsertKey(k) \/ InsertFails(k)
                      \/ DeleteKey(k) \/ DeleteFails(k)
               PROVE  IInv'
    BY DEF MapStep
  <1>1. CASE InsertKey(k)
    <2>1. DOMAIN kernel' = DOMAIN kernel \cup {k}
      BY <1>1 DEF InsertKey
    <2> QED
      BY <1>1, <2>1, MapOpInv DEF InsertKey
  <1>2. CASE DeleteKey(k)
    <2>1. DOMAIN kernel' = DOMAIN kernel \ {k}
      BY <1>2 DEF DeleteKey
    <2> QED
      BY <1>2, <2>1, MapOpInv DEF DeleteKey
  <1>3. CASE InsertFails(k) \/ DeleteFails(k)
    BY <1>3, AbortInv DEF InsertFails, DeleteFails
  <1> QED
    BY <1>1, <1>2, <1>3

\* Every step of the two watches keeps the invariant.
LEMMA NextInv == IInv /\ [Next]_vars => IInv'
  <1> SUFFICES ASSUME IInv, [Next]_vars PROVE IInv'
    OBVIOUS
  <1>1. ASSUME NEW v \in 1..MaxVersion, NEW f \in PolicyFrames, BeginPolicy(v, f)
        PROVE  IInv'
    <2>1. DOMAIN f \subseteq Own(1)
      BY PolicyFrameKeys DEF Own, IsPolicy
    <2> QED
      BY <1>1, <2>1, BeginInv DEF BeginPolicy
  <1>2. ASSUME NEW v \in 1..MaxVersion, NEW f \in RouteFrames, BeginRoutes(v, f)
        PROVE  IInv'
    <2>1. DOMAIN f \subseteq Own(5)
      BY RouteFrameKeys DEF Own, IsPolicy
    <2> QED
      BY <1>2, <2>1, BeginInv DEF BeginRoutes, FirstRoutePhase
  <1>3. ASSUME NEW v \in 1..MaxVersion, DiscardStale(v)
        PROVE  IInv'
    BY <1>3, DiscardStaleInv
  <1>4. CASE MapStep
    BY <1>4, MapStepInv
  <1>5. CASE NextPhase
    BY <1>5, NextPhaseInv
  <1>6. CASE Commit
    BY <1>6, CommitInv
  <1>7. CASE UNCHANGED vars
    BY <1>7
       DEF vars, IInv, TypeOK, SyncOK, TodoOK, MirrorIsApplied, FailureContained,
           Progress, EnforcedMeansApplied, Expected, Past, Inserts, Deletes, Todo
  <1> QED
    BY <1>1, <1>2, <1>3, <1>4, <1>5, <1>6, <1>7 DEF Next

---------------------------------------------------------------------------
(* The theorems. *)

\* IInv holds in every state the two watches reach.
THEOREM Invariance == Spec => []IInv
  BY InitInv, NextInv, PTL DEF Spec

\* The types of the maps, the mirror and the frame in work.
THEOREM TypeCorrect == Spec => []TypeOK
  <1>1. IInv => TypeOK
    BY DEF IInv
  <1> QED
    BY <1>1, Invariance, PTL

\* The mirror holds the keys of the applied frames, whatever failed.
THEOREM MirrorCorrect == Spec => []MirrorIsApplied
  <1>1. IInv => MirrorIsApplied
    BY DEF IInv
  <1> QED
    BY <1>1, Invariance, PTL

\* Between two frames kernel and applied frames agree on every key that no
\* failed frame of sync_policy or apply_mutations_to_maps left in doubt.
THEOREM FailuresAreContained == Spec => []FailureContained
  <1>1. IInv => FailureContained
    BY DEF IInv
  <1> QED
    BY <1>1, Invariance, PTL

\* Pods are marked as enforced only after a policy frame was applied.
THEOREM EnforcedCorrect == Spec => []EnforcedMeansApplied
  <1>1. IInv => EnforcedMeansApplied
    BY DEF IInv
  <1> QED
    BY <1>1, Invariance, PTL

\* Make before break, for every map, at every moment of every frame.
THEOREM MakeBeforeBreak == Spec => []NoGap
  <1>1. IInv => NoGap
    <2> SUFFICES ASSUME IInv, sync # Idle, NEW map \in Maps
                 PROVE  \/ mirror \cap map \subseteq DOMAIN kernel \cup doubtful
                        \/ DOMAIN sync.frame \cap map
                               \subseteq DOMAIN kernel \cup doubtful
      BY DEF NoGap
    <2> DEFINE i == sync.phase
               f == sync.frame
    <2>1. i \in 1..7 /\ DOMAIN f \subseteq Own(i) /\ mirror \subseteq Keys
          /\ Own(i) \subseteq Keys
      BY PhaseFacts DEF IInv, TypeOK, SyncOK
    <2>2. \A k \in Keys \ doubtful : k \in DOMAIN kernel <=> Expected(k)
      BY DEF IInv, Progress
    <2>3. CASE \A k \in map \cap Own(i) : i < DeletePhase(k)
      <3> SUFFICES ASSUME NEW k \in mirror \cap map, k \notin doubtful
                   PROVE  k \in DOMAIN kernel
        OBVIOUS
      <3>1. k \notin Inserts(f)
        BY DEF Inserts
      <3>2. k \in Deletes(f, i) => k \in Own(i)
        BY DEF Deletes
      <3>3. k \in Deletes(f, i) => ~Past(DeletePhase(k), k)
        BY <2>1, <2>3, <3>2, KeyPhases DEF Past
      <3> QED
        BY <2>1, <2>2, <3>1, <3>3 DEF Expected
    <2>4. CASE \A k \in map \cap Own(i) : InsertPhase(k) < i
      <3> SUFFICES ASSUME NEW k \in DOMAIN f \cap map, k \notin doubtful
                   PROVE  k \in DOMAIN kernel
        OBVIOUS
      <3>1. k \in Own(i) /\ k \notin Deletes(f, i)
        BY <2>1 DEF Deletes
      <3>2. Past(InsertPhase(k), k)
        BY <2>1, <2>4, <3>1, KeyPhases DEF Past
      <3> QED
        BY <2>1, <2>2, <3>1, <3>2 DEF Expected, Inserts
    <2>5. \/ \A k \in map \cap Own(i) : i < DeletePhase(k)
          \/ \A k \in map \cap Own(i) : InsertPhase(k) < i
      BY <2>1, KeysAssumption
         DEF Maps, InsertPhase, DeletePhase, Own, IsPolicy, PolicyKeys, RouteKeys
    <2> QED
      BY <2>3, <2>4, <2>5
  <1> QED
    BY <1>1, Invariance, PTL

\* Failures included, every map operation concerns a key on which the applied
\* frame and the frame in work differ.
THEOREM OnlyDifferencesTouched == Spec => OnlyDifferences
  <1> DEFINE Differs(k) ==
               /\ k \in Own(sync.phase)
               /\ (k \in DOMAIN sync.frame) # (k \in DOMAIN applied)
             Change(k) == (k \in DOMAIN kernel) # (k \in DOMAIN kernel')
             Step == \A k \in Keys : Change(k) => Differs(k)
  <1>1. IInv /\ [Next]_vars => [Step]_vars
    <2> SUFFICES ASSUME IInv, [Next]_vars, NEW k \in Keys, Change(k)
                 PROVE  Differs(k)
      OBVIOUS
    <2>1. ASSUME sync # Idle, k \in sync.todo
          PROVE  Differs(k)
      <3>1. /\ k \in Own(sync.phase)
            /\ \/ k \in Inserts(sync.frame)
               \/ k \in Deletes(sync.frame, sync.phase)
        BY <2>1, TodoFacts
      <3> QED
        BY <3>1 DEF Inserts, Deletes, IInv, MirrorIsApplied
    <2>2. ASSUME NEW x \in Keys, InsertKey(x)
          PROVE  Differs(k)
      <3>1. k = x
        BY <2>2 DEF InsertKey
      <3> QED
        BY <2>1, <2>2, <3>1 DEF InsertKey
    <2>3. ASSUME NEW x \in Keys, DeleteKey(x)
          PROVE  Differs(k)
      <3>1. k = x
        BY <2>3 DEF DeleteKey
      <3> QED
        BY <2>1, <2>3, <3>1 DEF DeleteKey
    <2>4. CASE kernel' = kernel
      BY <2>4
    <2> QED
      BY <2>2, <2>3, <2>4
         DEF Next, BeginPolicy, BeginRoutes, Begin, DiscardStale, MapStep,
             InsertFails, DeleteFails, Abort, NextPhase, Commit, vars
  <1> QED
    BY <1>1, Invariance, PTL DEF Spec, OnlyDifferences

=============================================================================
