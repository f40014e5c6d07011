---------------------------- MODULE ControlClient ----------------------------
(***************************************************************************)
(* ControlPlaneClient (client/mod.rs) and the tasks that share it: the     *)
(* watch streams (client/watch.rs) and the unary calls (client/unary.rs).  *)
(* Each runs its own connect / call / redirect loop (client/retry.rs)      *)
(* against one cached channel, one target address and one SVID, each       *)
(* behind its own lock.  A stream never ends, a call returns.              *)
(*                                                                         *)
(* A lock is its holder or Nobody.  A lock that no second task can wait    *)
(* for (last_svid_generation, taken only under the channel's) is left out; *)
(* so are the delays.                                                      *)
(*                                                                         *)
(* leader, stable: the control plane.  Until it is stable the leader moves,*)
(* a redirect may name any node and any call may fail; from then on every  *)
(* node but the leader answers with a redirect to the leader.              *)
(***************************************************************************)
EXTENDS Integers

CONSTANTS
    Streams,            \* the watch streams
    Calls,              \* the tasks that make unary calls
    Nodes,              \* control-plane addresses
    MaxRedirectHops,    \* MAX_REDIRECT_HOPS
    MaxTransientRetries,    \* MAX_TRANSIENT_RETRIES
    MaxGeneration,      \* bound: SVID generations
    MaxVersion          \* bound: versions of the updates on a stream

Tasks == Streams \cup Calls

Nobody == "nobody"

ASSUME ClientAssumption ==
    /\ Nodes # {}
    /\ Streams \cap Calls = {} /\ Nobody \notin Tasks
    /\ MaxRedirectHops \in Nat /\ MaxTransientRetries \in Nat
    /\ MaxGeneration \in Nat \ {0} /\ MaxVersion \in Nat

VARIABLES
    current_target, target_lock,    \* target_lock: write guard only
    channel, channel_lock,
    svid_generation, last_svid_generation,
    pc, conn,           \* per task: where it is, the channel it works with
    redirect_hops, transient_retries, new_target, last_known_version,
    leader, stable

clientVars == <<current_target, target_lock, channel, channel_lock,
                svid_generation, last_svid_generation>>
loopVars == <<redirect_hops, transient_retries, new_target, last_known_version>>
vars == <<clientVars, pc, conn, loopVars, leader, stable>>

\* A channel is known by where it leads, by its certificate's generation and
\* by that of its private key, 0 until the key is loaded.
NoChannel == [target |-> "none", generation |-> 0, key |-> 0]

Channels ==
    [target : Nodes, generation : 1..MaxGeneration, key : 0..MaxGeneration]

Init ==
    /\ current_target \in Nodes /\ target_lock = Nobody
    /\ channel = NoChannel /\ channel_lock = Nobody
    /\ svid_generation = 1 /\ last_svid_generation = 0
    /\ pc = [t \in Tasks |-> IF t \in Streams THEN "connect" ELSE "idle"]
    /\ conn = [t \in Tasks |-> NoChannel]
    /\ redirect_hops = [t \in Tasks |-> 0]
    /\ transient_retries = [t \in Calls |-> 0]
    /\ new_target = [t \in Tasks |-> current_target]
    /\ last_known_version = [t \in Streams |-> 0]
    /\ leader \in Nodes /\ stable = FALSE

Goto(t, place) == pc' = [pc EXCEPT ![t] = place]

---------------------------------------------------------------------------
(* get_channel *)

Rotated == svid_generation > last_svid_generation

\* The cached channel is still good.
UseCached(t) ==
    /\ pc[t] = "connect" /\ channel_lock = Nobody
    /\ channel # NoChannel /\ ~Rotated
    /\ conn' = [conn EXCEPT ![t] = channel]
    /\ Goto(t, "call")
    /\ UNCHANGED <<clientVars, loopVars, leader, stable>>

\* There is none, or the SVID has rotated: rebuild, the lock held throughout.
BugBeginRebuild(t) ==
    /\ pc[t] = "connect" /\ channel_lock = Nobody
    /\ channel = NoChannel \/ Rotated
    /\ channel_lock' = t
    /\ channel' = NoChannel
    /\ Goto(t, "target")
    /\ UNCHANGED <<current_target, target_lock, svid_generation,
                   last_svid_generation, conn, loopVars, leader, stable>>

BeginRebuild(t) ==
    /\ pc[t] = "connect" /\ channel_lock = Nobody
    /\ channel = NoChannel \/ Rotated
    /\ channel_lock' = t
    /\ channel' = NoChannel
    /\ last_svid_generation' = svid_generation
    /\ Goto(t, "target")
    /\ UNCHANGED <<current_target, target_lock, svid_generation, conn,
                   loopVars, leader, stable>>

\* Read the target and clone the certificate; the SVID guard is dropped here.
ReadTarget(t) ==
    /\ pc[t] = "target" /\ target_lock = Nobody
    /\ conn' = [conn EXCEPT ![t] =
           [target |-> current_target, generation |-> svid_generation, key |-> 0]]
    /\ Goto(t, "key")
    /\ UNCHANGED <<clientVars, loopVars, leader, stable>>

\* The key comes from storage, with no guard on the SVID any more.
LoadKey(t) ==
    /\ pc[t] = "key"
    /\ conn' = [conn EXCEPT ![t].key = svid_generation]
    /\ Goto(t, "build")
    /\ UNCHANGED <<clientVars, loopVars, leader, stable>>

BugBuild(t) ==
    /\ pc[t] = "build"
    /\ channel' = conn[t]
    /\ last_svid_generation' = svid_generation
    /\ channel_lock' = Nobody
    /\ Goto(t, "call")
    /\ UNCHANGED <<current_target, target_lock, svid_generation, conn, loopVars,
                   leader, stable>>

Build(t) ==
    /\ pc[t] = "build"
    /\ channel' = conn[t]
    /\ channel_lock' = Nobody
    /\ Goto(t, "call")
    /\ UNCHANGED <<current_target, target_lock, svid_generation,
                   last_svid_generation, conn, loopVars, leader, stable>>

\* The key cannot be loaded or the node not be reached: a stream tries again,
\* a call returns the error.
BuildFails(t) ==
    /\ pc[t] \in {"key", "build"} /\ ~stable
    /\ channel_lock' = Nobody
    /\ Goto(t, IF t \in Streams THEN "connect" ELSE "idle")
    /\ UNCHANGED <<current_target, target_lock, channel, svid_generation,
                   last_svid_generation, conn, loopVars, leader, stable>>

---------------------------------------------------------------------------
(* retarget *)

BugRetarget(t) ==
    /\ pc[t] = "retarget" /\ target_lock = Nobody
    /\ current_target' = new_target[t]
    /\ Goto(t, "connect")
    /\ UNCHANGED <<target_lock, channel, channel_lock, svid_generation,
                   last_svid_generation, conn, loopVars, leader, stable>>

Retarget(t) ==
    /\ pc[t] = "retarget" /\ target_lock = Nobody
    /\ IF current_target = new_target[t]
       THEN /\ Goto(t, "connect")
            /\ UNCHANGED <<current_target, target_lock>>
       ELSE /\ Goto(t, "clear")
            /\ current_target' = new_target[t]
            /\ target_lock' = t
    /\ UNCHANGED <<channel, channel_lock, svid_generation,
                   last_svid_generation, conn, loopVars, leader, stable>>

ClearChannel(t) ==
    /\ pc[t] = "clear" /\ channel_lock = Nobody
    /\ channel' = NoChannel
    /\ target_lock' = Nobody
    /\ Goto(t, "connect")
    /\ UNCHANGED <<current_target, channel_lock, svid_generation,
                   last_svid_generation, conn, loopVars, leader, stable>>

---------------------------------------------------------------------------
(* The loop around a call. *)

\* classify_error refuses another redirect.
BugHopsExceeded(t) == redirect_hops[t] > MaxRedirectHops + 1

HopsExceeded(t) == redirect_hops[t] > MaxRedirectHops

\* The node that was asked may accept the call, or refuse it.
MayAccept(t) == pc[t] = "call" /\ (conn[t].target = leader \/ ~stable)

MayRefuse(t) == pc[t] = "call" /\ (conn[t].target # leader \/ ~stable)

\* UNAVAILABLE with a leader address, on a call or on an open stream.
Redirect(t, n) ==
    /\ MayRefuse(t) \/ (pc[t] = "streaming" /\ ~stable)
    /\ stable => n = leader
    /\ ~HopsExceeded(t)
    /\ redirect_hops' = [redirect_hops EXCEPT ![t] = @ + 1]
    /\ new_target' = [new_target EXCEPT ![t] = n]
    /\ Goto(t, "retarget")
    /\ UNCHANGED <<clientVars, conn, transient_retries, last_known_version,
                   leader, stable>>

\* A stream opens: its redirects are forgotten.
Connected(t) ==
    /\ t \in Streams /\ MayAccept(t)
    /\ redirect_hops' = [redirect_hops EXCEPT ![t] = 0]
    /\ Goto(t, "streaming")
    /\ UNCHANGED <<clientVars, conn, transient_retries, new_target,
                   last_known_version, leader, stable>>

\* RetrySameTarget, GiveUp, or an open stream that ends: a stream waits, then
\* connects again to the same target.
RetrySame(t) ==
    /\ t \in Streams
    /\ \/ MayRefuse(t) /\ (HopsExceeded(t) \/ ~stable)
       \/ pc[t] = "streaming" /\ ~stable
    /\ Goto(t, "connect")
    /\ UNCHANGED <<clientVars, conn, loopVars, leader, stable>>

\* A unary call begins with fresh counters.
BeginCall(t) ==
    /\ t \in Calls /\ pc[t] = "idle"
    /\ redirect_hops' = [redirect_hops EXCEPT ![t] = 0]
    /\ transient_retries' = [transient_retries EXCEPT ![t] = 0]
    /\ Goto(t, "connect")
    /\ UNCHANGED <<clientVars, conn, new_target, last_known_version, leader, stable>>

\* It returns: with the answer, or with the error of GiveUp.
CallReturns(t) ==
    /\ t \in Calls
    /\ MayAccept(t) \/ (MayRefuse(t) /\ (HopsExceeded(t) \/ ~stable))
    /\ Goto(t, "idle")
    /\ UNCHANGED <<clientVars, conn, loopVars, leader, stable>>

\* RetrySameTarget: a bounded number of further attempts.
RetryCall(t) ==
    /\ t \in Calls /\ MayRefuse(t) /\ ~stable /\ ~HopsExceeded(t)
    /\ transient_retries' = [transient_retries EXCEPT ![t] = @ + 1]
    /\ Goto(t, IF transient_retries[t] + 1 > MaxTransientRetries
               THEN "idle" ELSE "connect")
    /\ UNCHANGED <<clientVars, conn, redirect_hops, new_target,
                   last_known_version, leader, stable>>

\* Only a newer version is passed on.
Update(t, v) ==
    /\ t \in Streams /\ pc[t] = "streaming"
    /\ v > last_known_version[t]
    /\ last_known_version' = [last_known_version EXCEPT ![t] = v]
    /\ UNCHANGED <<clientVars, pc, conn, redirect_hops, transient_retries,
                   new_target, leader, stable>>

---------------------------------------------------------------------------
(* External: the control plane, and the rotation of the SVID, for which the  *)
(* client is prepared.  It replaces certificate and key together and waits   *)
(* for the SVID's read guard, held from the check to the copy of the         *)
(* certificate: the key may be replaced before it is loaded.                 *)

ElectLeader(n) ==
    /\ ~stable
    /\ leader' = n
    /\ UNCHANGED <<clientVars, pc, conn, loopVars, stable>>

Stabilise ==
    /\ ~stable
    /\ stable' = TRUE
    /\ UNCHANGED <<clientVars, pc, conn, loopVars, leader>>

RotateSvid ==
    /\ svid_generation < MaxGeneration
    /\ \A t \in Tasks : pc[t] # "target"
    /\ svid_generation' = svid_generation + 1
    /\ UNCHANGED <<current_target, target_lock, channel, channel_lock,
                   last_svid_generation, pc, conn, loopVars, leader, stable>>

GetChannel(t) ==
    \/ UseCached(t) \/ BeginRebuild(t) \/ ReadTarget(t) \/ LoadKey(t)
    \/ Build(t) \/ BuildFails(t)

Answer(t) ==
    \/ \E n \in Nodes : Redirect(t, n)
    \/ Connected(t)
    \/ RetrySame(t)
    \/ CallReturns(t)
    \/ RetryCall(t)

Next ==
    \/ \E t \in Tasks : GetChannel(t)
    \/ \E t \in Tasks : Retarget(t)
    \/ \E t \in Tasks : ClearChannel(t)
    \/ \E t \in Tasks : Answer(t)
    \/ \E t \in Calls : BeginCall(t)
    \/ \E t \in Streams, v \in 1..MaxVersion : Update(t, v)
    \/ \E n \in Nodes : ElectLeader(n)
    \/ Stabilise
    \/ RotateSvid

\* Fairness: the locks are first come first served, a call is answered.
Fairness == \A t \in Tasks :
    /\ SF_vars(GetChannel(t))
    /\ SF_vars(Retarget(t))
    /\ SF_vars(ClearChannel(t))
    /\ WF_vars(pc[t] = "call" /\ Answer(t))

Spec == Init /\ [][Next]_vars /\ Fairness

---------------------------------------------------------------------------
(* Properties. *)

\* Types; whatever the control plane answers, a task follows at most one
\* redirect more than the configured number of hops before it stops following
\* them, and a call makes a bounded number of attempts.
TypeOK ==
    /\ current_target \in Nodes /\ leader \in Nodes
    /\ target_lock \in Tasks \cup {Nobody} /\ channel_lock \in Tasks \cup {Nobody}
    /\ channel \in Channels \cup {NoChannel}
    /\ conn \in [Tasks -> Channels \cup {NoChannel}]
    /\ svid_generation \in 1..MaxGeneration
    /\ last_svid_generation \in 0..svid_generation
    /\ pc \in [Tasks -> {"idle", "connect", "target", "key", "build", "call",
                         "streaming", "retarget", "clear"}]
    /\ redirect_hops \in [Tasks -> 0..(MaxRedirectHops + 1)]
    /\ transient_retries \in [Calls -> 0..(MaxTransientRetries + 1)]
    /\ new_target \in [Tasks -> Nodes]
    /\ last_known_version \in [Streams -> 0..MaxVersion]
    /\ stable \in BOOLEAN

\* The cached channel leads to the current target unless a retarget is about
\* to clear it: a redirect is never undone by a rebuild that was under way.
ChannelFollowsTarget ==
    channel # NoChannel /\ (\A t \in Tasks : pc[t] # "clear")
        => channel.target = current_target

\* A cached channel was built with the SVID the client last saw, so a rotation
\* is noticed by the next get_channel, whenever it happens.
ChannelMatchesSvid ==
    channel # NoChannel => channel.generation = last_svid_generation

\* A channel that would be handed out from the cache has the private key of
\* its certificate: a rotation between the copy of the one and the loading of
\* the other may spoil the channel of the task that builds it, but the next
\* get_channel replaces it.
CachedKeyMatches ==
    channel # NoChannel /\ ~Rotated => channel.key = channel.generation

\* A get_channel that has begun returns, with a channel or with an error
\* (client/mod.rs: "Get a valid channel to the control plane").
GetChannelReturns ==
    \A t \in Tasks :
        pc[t] \in {"target", "key", "build"} ~> pc[t] \in {"idle", "connect", "call"}

\* Once the control plane is stable, redirects lead every stream to the leader
\* (client/retry.rs: the agent "must retarget and retry").
RedirectsReachLeader ==
    \A t \in Streams : stable ~> pc[t] = "streaming"

=============================================================================
