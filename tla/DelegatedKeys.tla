---------------------------- MODULE DelegatedKeys ----------------------------
(***************************************************************************)
(* DelegatedKeyManager and its refresh loop (identity/degraded.rs): one    *)
(* key per workload, asked for when the workload is booted and again when  *)
(* three quarters of its lifetime have passed.  The lock of the map is     *)
(* never held across a request, so a boot and the loop may both have a     *)
(* request for the same workload under way.                                *)
(*                                                                         *)
(* Time is counted in units, and every moment the code keeps is kept as    *)
(* its distance from now: a key as what is left of it, the timer of the    *)
(* loop as the time until it fires.  A request returns within MaxDelay,    *)
(* and may always fail.                                                    *)
(***************************************************************************)
EXTENDS Integers, FiniteSets, FiniteSetsExt, TLC

CONSTANTS
    Targets,            \* the workloads' SPIFFE ids
    Ttl,                \* delegated_key_ttl_secs
    CheckInterval,      \* the period of the loop's timer
    MaxDelay            \* longest time a request takes

Nobody == "nobody"

ASSUME KeyAssumption ==
    /\ IsFiniteSet(Targets) /\ Nobody \notin Targets
    /\ Ttl \in Nat \ {0} /\ CheckInterval \in Nat \ {0}
    /\ MaxDelay \in Nat /\ MaxDelay < Ttl

VARIABLES
    keys,               \* the map of the manager: target |-> time left
    next_check,         \* time until the loop's timer fires
    needs_refresh,      \* targets of this round still to be asked for
    request,            \* the request of each requester
    failures            \* history: how often the refresh of each key obtained failed

keyVars == <<keys, next_check, needs_refresh, request, failures>>

Requesters == {"loop", "boot"}

NoRequest == [step |-> "none", target |-> Nobody, left |-> 0, waited |-> 0]

KeysInit ==
    /\ keys = <<>>
    /\ next_check = 0 /\ needs_refresh = {}
    /\ request = [r \in Requesters |-> NoRequest]
    /\ failures = <<>>

---------------------------------------------------------------------------
(* The manager. *)

\* At a time that is `ago` units in the past.
HasValidKey(t, ago) == t \in DOMAIN keys /\ keys[t] + ago > 0

BugRefreshLeft == 0

\* What is left of a key when 75% of its lifetime, rounded down, have passed.
RefreshLeft == Ttl - (3 * Ttl) \div 4

ShouldRefresh(t) == t \in DOMAIN keys /\ keys[t] <= RefreshLeft

\* The longest a round of requests takes, and the longest from one look of the
\* loop at the keys to the next.
Round == Cardinality(Targets) * MaxDelay
Gap == Max({CheckInterval, Round})

\* How many refreshes in a row the last quarter of a key's lifetime has room for
\* failing: each costs one more gap, and the last round must end in time.
Retries == (Ttl \div 4 - Round) \div Gap - 1

---------------------------------------------------------------------------
(* request_and_install. *)

Pending(r) == request[r] # NoRequest

Ask(r, t) ==
    request' = [request EXCEPT
        ![r] = [step |-> "asked", target |-> t, left |-> 0, waited |-> 0]]

\* A map with one entry added or replaced.
Put(map, t, value) ==
    [u \in DOMAIN map \cup {t} |-> IF u = t THEN value ELSE map[u]]

\* Control issues a key ...
Issue(r) ==
    /\ request[r].step = "asked"
    /\ request' = [request EXCEPT ![r] = [@ EXCEPT !.step = "issued", !.left = Ttl]]
    /\ UNCHANGED <<keys, next_check, needs_refresh, failures>>

\* ... and it replaces whatever is held for its target.
Install(r) ==
    /\ request[r].step = "issued"
    /\ keys' = Put(keys, request[r].target, request[r].left)
    /\ failures' = Put(failures, request[r].target, 0)
    /\ request' = [request EXCEPT ![r] = NoRequest]
    /\ UNCHANGED <<next_check, needs_refresh>>

\* No answer: the error is logged, at boot and by the loop.
RequestFails(r) ==
    /\ Pending(r)
    /\ failures' = IF r = "loop"
                   THEN [failures EXCEPT ![request[r].target] =
                             IF @ <= Retries THEN @ + 1 ELSE @]
                   ELSE failures
    /\ request' = [request EXCEPT ![r] = NoRequest]
    /\ UNCHANGED <<keys, next_check, needs_refresh>>

---------------------------------------------------------------------------
(* run_delegation_refresh_loop. *)

LoopIdle == needs_refresh = {} /\ ~Pending("loop")

BugPruned == keys

\* prune_expired.
Pruned == [t \in {u \in DOMAIN keys : HasValidKey(u, 0)} |-> keys[t]]

\* The timer: prune, then collect.  Ticks missed during a round are skipped.
Check ==
    /\ LoopIdle /\ next_check <= 0
    /\ next_check' = CheckInterval - ((-next_check) % CheckInterval)
    /\ keys' = Pruned
    /\ needs_refresh' = {t \in DOMAIN Pruned : ShouldRefresh(t)}
    /\ UNCHANGED <<request, failures>>

\* One target after the other.
Refresh(t) ==
    /\ t \in needs_refresh /\ ~Pending("loop")
    /\ needs_refresh' = needs_refresh \ {t}
    /\ Ask("loop", t)
    /\ UNCHANGED <<keys, next_check, failures>>

---------------------------------------------------------------------------
(* External: time passes, but not past what is due now. *)

Tick ==
    /\ LoopIdle => next_check > 0
    /\ needs_refresh # {} => Pending("loop")
    /\ \A r \in Requesters : Pending(r) => request[r].waited < MaxDelay
    /\ keys' = [t \in DOMAIN keys |-> keys[t] - 1]
    /\ next_check' = next_check - 1
    /\ request' = [r \in Requesters |->
           CASE request[r].step = "none"   -> request[r]
             [] request[r].step = "asked"  -> [request[r] EXCEPT !.waited = @ + 1]
             [] request[r].step = "issued" ->
                    [request[r] EXCEPT !.waited = @ + 1, !.left = @ - 1]]
    /\ UNCHANGED <<needs_refresh, failures>>

---------------------------------------------------------------------------
(* Properties. *)

Request ==
    [step : {"asked", "issued"}, target : Targets, left : (Ttl - MaxDelay)..Ttl \cup {0},
     waited : 0..MaxDelay]

\* An expired key is in the map until the loop's next look at most.
KeysTypeOK ==
    /\ DOMAIN keys \subseteq Targets
    /\ \A t \in DOMAIN keys : keys[t] \in (1 - Gap)..Ttl
    /\ next_check \in (-Round)..CheckInterval
    /\ needs_refresh \subseteq Targets
    /\ request \in [Requesters -> Request \cup {NoRequest}]
    /\ DOMAIN keys \subseteq DOMAIN failures /\ DOMAIN failures \subseteq Targets
    /\ \A t \in DOMAIN failures : failures[t] \in 0..Max({0, Retries + 1})

\* A workload that ever had a key has a valid one, unless more than Retries
\* refreshes in a row have failed: no look of the loop comes too late, no answer
\* that arrives out of order shortens a key below the next look, and no key in
\* use is pruned.  (Once pruned a target is forgotten: only another boot asks
\* for its key again.)
KeysSurviveFailures ==
    \A t \in DOMAIN failures : failures[t] <= Retries => HasValidKey(t, 0)

=============================================================================
