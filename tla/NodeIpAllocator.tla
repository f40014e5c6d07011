--------------------------- MODULE NodeIpAllocator ---------------------------
(***************************************************************************)
(* The node-local workload address allocator of workloads/mod.rs: a /30    *)
(* point-to-point pair (gateway, guest) per workload, and the older        *)
(* one-address interface.  Addresses are offsets from the CIDR's base; the *)
(* base only shifts them, so it is left out.                               *)
(*                                                                         *)
(* The owner strings of the code are "pod" and "pod:gw"; here they are the *)
(* pod id itself and Gw(pod).  GwAssumption is what the code relies on and *)
(* never checks: no pod id is another pod's gateway label.                 *)
(***************************************************************************)
EXTENDS Integers

CONSTANTS
    HostCount,      \* 2^(32 - prefix); the code admits prefixes 8..28
    PairPods,       \* pods served by allocate_p2p_pair / release_p2p_pair
    SinglePods      \* pods served by allocate / release

ASSUME HostCountAssumption == HostCount \in Nat /\ HostCount >= 16

ASSUME DisjointPods == PairPods \cap SinglePods = {}

VARIABLES
    next_offset,    \* the first offset never handed out
    free,           \* offsets handed out before and released
    allocated       \* offset -> owner, for the offsets in use

ipVars == <<next_offset, free, allocated>>

PodIds == PairPods \cup SinglePods

\* format!("{}:gw", pod_id)
Gw(p) == <<"gw", p>>

ASSUME GwAssumption == \A p, q \in PodIds : Gw(p) # q

Owners == PodIds \cup {Gw(p) : p \in PairPods}

\* Offset 0 is the network address and HostCount - 1 the broadcast address.
HostOffsets == 1..(HostCount - 2)

---------------------------------------------------------------------------
(* Operators of the code's loops and map updates. *)

\* allocated.insert for each offset that the function owner binds.
Insert(owner) ==
    [o \in DOMAIN allocated \cup DOMAIN owner |->
        IF o \in DOMAIN owner THEN owner[o] ELSE allocated[o]]

\* allocated.retain(|_, pid| pid is not one of owners)
OwnedBy(owners) == {o \in DOMAIN allocated : allocated[o] \in owners}

RetainOthers(owners) ==
    [o \in DOMAIN allocated \ OwnedBy(owners) |-> allocated[o]]

\* while o % 4 != 1 { o += 1 }
Align(n) == n + ((5 - (n % 4)) % 4)

\* An aligned pair at o ends before the broadcast address.
BugPairFitsEarly(o) == o + 4 < HostCount - 1

PairFits(o) == o + 1 < HostCount - 1

\* Freed pairs that may be handed out again.
BugReusablePairs == {o \in free : o + 1 \in free}

ReusablePairs == {o \in free : o % 4 = 1 /\ o + 1 \in free}

\* allocate_microvm_pair would return the exhausted error.
PairExhausted == ReusablePairs = {} /\ ~PairFits(Align(next_offset))

---------------------------------------------------------------------------
(* The operations.  An operation that returns Err changes nothing. *)

Init ==
    /\ next_offset = 1
    /\ free = {}
    /\ allocated = [o \in {} |-> {}]

\* The gateway takes the first offset of the pair, the guest the second.
AssignPair(p, o) ==
    allocated' = Insert([x \in {o, o + 1} |-> IF x = o THEN Gw(p) ELSE p])

\* The smallest reusable pair, from the sorted candidates.
BugReuse(p, o) ==
    /\ o \in ReusablePairs
    /\ \A x \in ReusablePairs : o <= x
    /\ free' = free \ {o}
    /\ AssignPair(p, o)
    /\ UNCHANGED next_offset

Reuse(p, o) ==
    /\ o \in ReusablePairs
    /\ \A x \in ReusablePairs : o <= x
    /\ free' = free \ {o, o + 1}
    /\ AssignPair(p, o)
    /\ UNCHANGED next_offset

\* A new /30, past every offset ever handed out.
Advance(p, o) ==
    /\ ReusablePairs = {}
    /\ o = Align(next_offset)
    /\ PairFits(o)
    /\ next_offset' = o + 4
    /\ AssignPair(p, o)
    /\ UNCHANGED free

\* allocate_p2p_pair: o is the gateway offset, o + 1 the guest offset.
AllocatePair(p, o) == Reuse(p, o) \/ Advance(p, o)

BugReleasePair(p) ==
    /\ free' = free \cup OwnedBy({p})
    /\ allocated' = RetainOthers({p, Gw(p)})
    /\ UNCHANGED next_offset

ReleasePair(p) ==
    /\ free' = free \cup OwnedBy({p, Gw(p)})
    /\ allocated' = RetainOthers({p, Gw(p)})
    /\ UNCHANGED next_offset

\* allocate: any freed offset, else the next one.
BugAllocateSingle(p) ==
    \/ \E o \in free :
        /\ free' = free \ {o}
        /\ allocated' = Insert([x \in {o} |-> p])
        /\ UNCHANGED next_offset
    \/ /\ free = {}
       /\ next_offset < HostCount
       /\ next_offset' = next_offset + 1
       /\ allocated' = Insert([x \in {next_offset} |-> p])
       /\ UNCHANGED free

AllocateSingle(p) ==
    \/ \E o \in free :
        /\ free' = free \ {o}
        /\ allocated' = Insert([x \in {o} |-> p])
        /\ UNCHANGED next_offset
    \/ /\ free = {}
       /\ next_offset < HostCount - 1
       /\ next_offset' = next_offset + 1
       /\ allocated' = Insert([x \in {next_offset} |-> p])
       /\ UNCHANGED free

ReleaseSingle(p) ==
    /\ free' = free \cup OwnedBy({p})
    /\ allocated' = RetainOthers({p})
    /\ UNCHANGED next_offset

\* A pod may be given a second pair before it releases the first.
Next ==
    \/ \E p \in PairPods, o \in HostOffsets : AllocatePair(p, o)
    \/ \E p \in PairPods : ReleasePair(p)
    \/ \E p \in SinglePods : AllocateSingle(p)
    \/ \E p \in SinglePods : ReleaseSingle(p)

Spec == Init /\ [][Next]_ipVars

---------------------------------------------------------------------------
(* Properties. *)

\* Every address handed out is a host address of the CIDR: never the network
\* address, never the broadcast address (the two bound checks of the code).
TypeOK ==
    /\ next_offset \in Nat \ {0}
    /\ free \in SUBSET HostOffsets
    /\ DOMAIN allocated \in SUBSET HostOffsets
    /\ \A o \in DOMAIN allocated : allocated[o] \in Owners

\* An address is in use, or waiting for reuse, or never handed out: the free
\* list, the in-use map and the high-water mark never overlap, so no address
\* is handed to a second workload while the first holds it.
NoDoubleUse ==
    /\ free \cap DOMAIN allocated = {}
    /\ \A o \in free \cup DOMAIN allocated : o < next_offset

\* A workload's gateway and guest are the two host addresses of one /30, held
\* by that workload alone: no reuse ever splits a pair or shares a /30.
PairIntact ==
    \A o \in DOMAIN allocated : \A p \in PairPods :
        /\ allocated[o] = Gw(p) =>
            /\ o % 4 = 1
            /\ o + 1 \in DOMAIN allocated
            /\ allocated[o + 1] = p
        /\ allocated[o] = p =>
            /\ o % 4 = 2
            /\ o - 1 \in DOMAIN allocated
            /\ allocated[o - 1] = Gw(p)

\* No block is lost: the first address of every /30 below the high-water mark
\* is in use or free, whatever was allocated and released before.
NoBlockLost ==
    \A o \in 1..(next_offset - 1) :
        o % 4 = 1 => o \in free \cup DOMAIN allocated

\* A block broken up by the one-address interface: its second address was
\* skipped by the alignment and is not handed out again.
Split(o) == o < next_offset /\ o + 1 \notin free \cup DOMAIN allocated

\* "node workload IP space exhausted" is returned only when every /30 of the
\* CIDR has an address in use or was broken up by a one-address allocation.
ExhaustedOnlyWhenFull ==
    PairExhausted =>
        \A o \in HostOffsets :
            o % 4 = 1 /\ o + 1 \in HostOffsets =>
                \/ {o, o + 1} \cap DOMAIN allocated # {}
                \/ Split(o)

=============================================================================
