------------------------------- MODULE MapSync -------------------------------
(***************************************************************************)
(* The policy watch and the routes watch, which keep the kernel's eBPF     *)
(* maps at the state of the last frame: policy/sync.rs and routes/table.rs *)
(* compute the difference between a frame and a userspace mirror of the    *)
(* maps, wiring.rs and table.rs apply it key by key.                       *)
(*                                                                         *)
(* The kernel's classifiers read the maps while they are being changed, so *)
(* every map operation is a step of its own; the EbpfManager mutex keeps   *)
(* the two watches from applying at the same time, so there is one frame   *)
(* in work.  An operation that fails aborts the frame: what was applied    *)
(* stays, the mirror and the version do not move.  A frame that does not   *)
(* convert or compile changes nothing.                                     *)
(*                                                                         *)
(* The four maps have disjoint keys and are one function here.  A policy   *)
(* key's value is its decision, a dummy address's the destination it is    *)
(* routed to; LOCAL_WORKLOADS is a set, its value is always 1.             *)
(***************************************************************************)
EXTENDS Integers, FiniteSets

CONSTANTS
    ExactKeys, WildcardKeys,    \* keys of POLICY_EXACT and POLICY_WILDCARD
    Decisions,                  \* allow, deny
    DummyIps,                   \* keys of DUMMY_IP_ROUTE_MAP
    Fingerprints,               \* destinations; keys of LOCAL_WORKLOADS
    ExactCapacity, WildcardCapacity, DummyIpCapacity, LocalCapacity,
    MaxVersion                  \* bound: versions of the frames received

VARIABLES
    kernel,             \* the kernel maps: key -> value
    mirror,             \* keys of PolicySyncState and of RouteSyncState
    policy_version,     \* PolicySyncState::current_version
    route_version,      \* RouteSyncState::current_version
    sync,               \* the frame being applied, or Idle
    policy_enforced,    \* mark_all_pods_policy_enforced has been called
    applied,            \* history: the last frames that were applied
    doubtful            \* history: keys that an aborted frame may have changed

vars == <<kernel, mirror, policy_version, route_version, sync, policy_enforced,
          applied, doubtful>>

PolicyKeys == ExactKeys \cup WildcardKeys
RouteKeys == DummyIps \cup Fingerprints
Keys == PolicyKeys \cup RouteKeys
Values == Decisions \cup Fingerprints \cup {1}

Maps == {ExactKeys, WildcardKeys, DummyIps, Fingerprints}

Capacity(map) ==
    CASE map = ExactKeys -> ExactCapacity
      [] map = WildcardKeys -> WildcardCapacity
      [] map = DummyIps -> DummyIpCapacity
      [] map = Fingerprints -> LocalCapacity

ASSUME KeysAssumption ==
    /\ IsFiniteSet(Keys)
    /\ PolicyKeys \cap RouteKeys = {}
    /\ ExactKeys \cap WildcardKeys = {}
    /\ DummyIps \cap Fingerprints = {}
    /\ \A map \in Maps : Capacity(map) \in Nat
    /\ MaxVersion \in Nat

\* The compiled entries of a SAG frame: some keys, each with a decision.
PolicyFrames == UNION {[ks -> Decisions] : ks \in SUBSET PolicyKeys}

\* The entries of a route frame: some addresses, each with a destination, and
\* the destinations hosted on this node.
RouteFrame(r, here) ==
    [k \in DOMAIN r \cup here |-> IF k \in here THEN 1 ELSE r[k]]

Routes == UNION {[ks -> Fingerprints] : ks \in SUBSET DummyIps}

RouteFrames ==
    UNION {{RouteFrame(r, here) : here \in SUBSET {r[k] : k \in DOMAIN r}} :
           r \in Routes}

Idle == [phase |-> 0]

Init ==
    /\ kernel = [k \in {} |-> 0]
    /\ mirror = {}
    /\ policy_version = 0 /\ route_version = 0
    /\ sync = Idle
    /\ policy_enforced = FALSE
    /\ applied = [k \in {} |-> 0]
    /\ doubtful = {}

---------------------------------------------------------------------------
(* The mutations of a frame, in the order of the code:                      *)
(*   sync_policy              1 insert exact     2 delete exact             *)
(*                            3 insert wildcard  4 delete wildcard          *)
(*   apply_mutations_to_maps  5 insert routes and local workloads           *)
(*                            6 delete routes    7 delete local workloads   *)

FirstRoutePhase == 5

IsPolicy(i) == i \in 1..4

LastPhase(i) == i \in {4, 7}

BugInserting(i) == i \in {2, 4, 5}

Inserting(i) == i \in {1, 3, 5}

BugMapsOf(i) ==
    CASE i \in {1, 2, 4} -> ExactKeys
      [] i = 3 -> WildcardKeys
      [] i = 5 -> RouteKeys
      [] i = 6 -> DummyIps
      [] i = 7 -> Fingerprints

MapsOf(i) ==
    CASE i \in {1, 2} -> ExactKeys
      [] i \in {3, 4} -> WildcardKeys
      [] i = 5 -> RouteKeys
      [] i = 6 -> DummyIps
      [] i = 7 -> Fingerprints

\* The part of the maps a frame of this kind describes.
Own(i) == IF IsPolicy(i) THEN PolicyKeys ELSE RouteKeys

Inserts(f) == DOMAIN f \ mirror

BugDeletes(f, i) == mirror \cap Own(i)

Deletes(f, i) == (mirror \cap Own(i)) \ DOMAIN f

Todo(f, i) == (IF Inserting(i) THEN Inserts(f) ELSE Deletes(f, i)) \cap MapsOf(i)

---------------------------------------------------------------------------
(* A frame arrives. *)

Begin(v, f, i) ==
    /\ sync = Idle
    /\ sync' = [phase |-> i, todo |-> Todo(f, i), version |-> v, frame |-> f]
    /\ UNCHANGED <<kernel, mirror, policy_version, route_version,
                   policy_enforced, applied, doubtful>>

BeginPolicy(v, f) == v > policy_version /\ Begin(v, f, 1)

BeginRoutes(v, f) == v > route_version /\ Begin(v, f, FirstRoutePhase)

\* A stale policy frame is dropped, and counts as a success; a stale route
\* frame is dropped.
DiscardStale(v) ==
    /\ sync = Idle
    /\ v <= policy_version
    /\ policy_enforced' = TRUE
    /\ UNCHANGED <<kernel, mirror, policy_version, route_version, sync,
                   applied, doubtful>>

---------------------------------------------------------------------------
(* One map operation. *)

\* External: a full map refuses a new key.  Any other operation may fail too.
Room(k) == \A map \in Maps :
    k \in map => k \in DOMAIN kernel
                    \/ Cardinality(DOMAIN kernel \cap map) < Capacity(map)

\* The kernel now holds of this key what the frame wants.
Done(k) ==
    /\ sync' = [sync EXCEPT !.todo = @ \ {k}]
    /\ doubtful' = doubtful \ {k}

\* The keys on which a frame differs from what is applied.
Differences(f, i) == {k \in Own(i) : (k \in DOMAIN f) # (k \in DOMAIN applied)}

BugAbort ==
    /\ sync' = Idle
    /\ doubtful' = doubtful \cup Differences(sync.frame, sync.phase)
    /\ policy_enforced' = TRUE
    /\ UNCHANGED <<kernel, mirror, policy_version, route_version, applied>>

\* sync_policy or apply_mutations_to_maps returns the error.
Abort ==
    /\ sync' = Idle
    /\ doubtful' = doubtful \cup Differences(sync.frame, sync.phase)
    /\ UNCHANGED <<kernel, mirror, policy_version, route_version,
                   policy_enforced, applied>>

InsertKey(k) ==
    /\ sync # Idle /\ Inserting(sync.phase) /\ k \in sync.todo
    /\ Room(k)
    /\ kernel' = [x \in DOMAIN kernel \cup {k} |->
                    IF x = k THEN sync.frame[k] ELSE kernel[x]]
    /\ Done(k)
    /\ UNCHANGED <<mirror, policy_version, route_version, policy_enforced, applied>>

InsertFails(k) ==
    /\ sync # Idle /\ Inserting(sync.phase) /\ k \in sync.todo
    /\ Abort

DeleteKey(k) ==
    /\ sync # Idle /\ ~Inserting(sync.phase) /\ k \in sync.todo
    /\ k \in DOMAIN kernel     \* External: else the removal is an error
    /\ kernel' = [x \in DOMAIN kernel \ {k} |-> kernel[x]]
    /\ Done(k)
    /\ UNCHANGED <<mirror, policy_version, route_version, policy_enforced, applied>>

DeleteFails(k) ==
    /\ sync # Idle /\ ~Inserting(sync.phase) /\ k \in sync.todo
    /\ Abort

MapStep == \E k \in Keys :
    InsertKey(k) \/ InsertFails(k) \/ DeleteKey(k) \/ DeleteFails(k)

BugNextPhase ==
    /\ sync # Idle /\ sync.todo = {} /\ sync.phase < 7
    /\ sync' = [sync EXCEPT !.phase = @ + 1, !.todo = Todo(sync.frame, sync.phase + 1)]
    /\ UNCHANGED <<kernel, mirror, policy_version, route_version,
                   policy_enforced, applied, doubtful>>

NextPhase ==
    /\ sync # Idle /\ sync.todo = {} /\ ~LastPhase(sync.phase)
    /\ sync' = [sync EXCEPT !.phase = @ + 1, !.todo = Todo(sync.frame, sync.phase + 1)]
    /\ UNCHANGED <<kernel, mirror, policy_version, route_version,
                   policy_enforced, applied, doubtful>>

---------------------------------------------------------------------------
(* apply_mutations_to_state of the two modules, then the pods are marked. *)

\* The applied frames with this one in place of the last of its kind.
Applied(f, i) ==
    [k \in (DOMAIN applied \ Own(i)) \cup DOMAIN f |->
        IF k \in DOMAIN f THEN f[k] ELSE applied[k]]

BugUpdateMirror(f, i) == mirror' = mirror \cup Inserts(f)

UpdateMirror(f, i) == mirror' = (mirror \cup Inserts(f)) \ Deletes(f, i)

Commit ==
    /\ sync # Idle /\ sync.todo = {} /\ LastPhase(sync.phase)
    /\ UpdateMirror(sync.frame, sync.phase)
    /\ IF IsPolicy(sync.phase)
       THEN /\ policy_version' = sync.version
            /\ policy_enforced' = TRUE
            /\ UNCHANGED route_version
       ELSE /\ route_version' = sync.version
            /\ UNCHANGED <<policy_version, policy_enforced>>
    /\ applied' = Applied(sync.frame, sync.phase)
    /\ sync' = Idle
    /\ UNCHANGED <<kernel, doubtful>>

Next ==
    \/ \E v \in 1..MaxVersion, f \in PolicyFrames : BeginPolicy(v, f)
    \/ \E v \in 1..MaxVersion, f \in RouteFrames : BeginRoutes(v, f)
    \/ \E v \in 1..MaxVersion : DiscardStale(v)
    \/ MapStep
    \/ NextPhase
    \/ Commit

Spec == Init /\ [][Next]_vars

---------------------------------------------------------------------------
(* Properties. *)

\* A frame in work is in one of the phases of its kind and has keys of the
\* maps of that phase left.
SyncOK ==
    \/ sync = Idle
    \/ /\ sync \in [phase : 1..7, todo : SUBSET Keys, version : 1..MaxVersion,
                    frame : PolicyFrames \cup RouteFrames]
       /\ DOMAIN sync.frame \subseteq Own(sync.phase)
       /\ sync.todo \subseteq MapsOf(sync.phase)

\* Types of the maps, the mirror and the frame in work.
TypeOK ==
    /\ DOMAIN kernel \subseteq Keys /\ DOMAIN applied \subseteq Keys
    /\ mirror \subseteq Keys
    /\ policy_version \in 0..MaxVersion /\ route_version \in 0..MaxVersion
    /\ SyncOK
    /\ policy_enforced \in BOOLEAN /\ doubtful \subseteq Keys

\* The mirror holds the keys of the last applied frames, whatever frames failed
\* since: it never takes over part of an aborted frame.
MirrorIsApplied == mirror = DOMAIN applied

\* Between frames the kernel holds exactly the keys of the last applied frames,
\* but for those on which a frame that failed differed, until a later operation
\* sets them right: no key is missed, orphaned, or swept by the frames of the
\* other watch, and a failure never spreads beyond the frame's own changes.
FailureContained ==
    sync = Idle => \A k \in Keys \ doubtful :
        k \in DOMAIN kernel <=> k \in DOMAIN applied

\* Make before break: while a frame is being applied each map holds all its old
\* keys or all its new ones, those that earlier failures left in doubt aside,
\* so no flow or address that both frames know is without an entry in between.
NoGap ==
    sync # Idle => \A map \in Maps :
        \/ mirror \cap map \subseteq DOMAIN kernel \cup doubtful
        \/ DOMAIN sync.frame \cap map \subseteq DOMAIN kernel \cup doubtful

\* Failures included, a step adds or removes only a key on which the applied
\* frame and the frame in work differ: an entry of both is never taken out,
\* and a frame never touches the maps of the other kind.
OnlyDifferences ==
    [][\A k \in Keys :
        (k \in DOMAIN kernel) # (k \in DOMAIN kernel')
            => /\ k \in Own(sync.phase)
               /\ (k \in DOMAIN sync.frame) # (k \in DOMAIN applied)]_vars

\* The pods are reported as enforced only once a policy frame was applied.
EnforcedMeansApplied == policy_enforced => policy_version > 0

\* The mirror is "a userspace mirror of what's in the kernel maps" and a frame
\* is full state (policy/sync.rs, routes/table.rs): between frames the kernel
\* holds the entries of the last applied frames, if no failure left any in doubt.
KernelMatchesFrame == sync = Idle /\ doubtful = {} => kernel = applied

=============================================================================
