------------------------ MODULE NodeIpAllocatorProofs ------------------------
(***************************************************************************)
(* Proofs about NodeIpAllocator for every CIDR size and every set of pods. *)
(* The inductive invariant is the conjunction of the four properties below *)
(* ExhaustedOnlyWhenFull: a reused pair is known to be nobody's only       *)
(* because the free list and the in-use map are disjoint, a new pair only  *)
(* because both lie below the high-water mark, and NoBlockLost needs the   *)
(* bounds of TypeOK.                                                       *)
(***************************************************************************)
EXTENDS NodeIpAllocator, TLAPS

\* The inductive invariant.
IInv == TypeOK /\ NoDoubleUse /\ PairIntact /\ NoBlockLost

\* The loop that aligns next_offset ends at the first offset, from n on, that
\* is 1 modulo 4.
LEMMA AlignFacts ==
    ASSUME NEW n \in Nat
    PROVE  /\ Align(n) \in Nat
           /\ Align(n) >= n
           /\ Align(n) % 4 = 1
           /\ \A m \in Nat : m >= n /\ m % 4 = 1 => m >= Align(n)
  BY DEF Align

\* Owner labels of different pods, and of a pod and its gateway, differ.
LEMMA LabelsDiffer ==
    ASSUME NEW p \in PairPods, NEW q \in PodIds
    PROVE  /\ Gw(p) # q
           /\ q \in PairPods /\ Gw(p) = Gw(q) => p = q
           /\ q \in SinglePods => p # q
  BY GwAssumption, DisjointPods DEF PodIds, Gw

\* What a pair allocation does to the in-use map: it binds two offsets that
\* were unbound and leaves every other binding as it was.
LEMMA AssignPairFacts ==
    ASSUME NEW p \in PairPods, NEW o \in Nat, AssignPair(p, o)
    PROVE  /\ DOMAIN allocated' = DOMAIN allocated \cup {o, o + 1}
           /\ allocated'[o] = Gw(p)
           /\ allocated'[o + 1] = p
           /\ \A x \in DOMAIN allocated : x \notin {o, o + 1} =>
                allocated'[x] = allocated[x]
  BY DEF AssignPair, Insert

\* What a release does to the in-use map.
LEMMA RetainFacts ==
    ASSUME NEW owners, allocated' = RetainOthers(owners)
    PROVE  /\ DOMAIN allocated' = DOMAIN allocated \ OwnedBy(owners)
           /\ \A x \in DOMAIN allocated' : allocated'[x] = allocated[x]
           /\ \A x \in DOMAIN allocated :
                x \in DOMAIN allocated' <=> allocated[x] \notin owners
  BY DEF RetainOthers, OwnedBy

\* The allocator that NodeIpAllocator::new returns satisfies the invariant.
LEMMA InitInv == Init => IInv
  BY HostCountAssumption
     DEF Init, IInv, TypeOK, NoDoubleUse, PairIntact, NoBlockLost, HostOffsets

\* A pair put on offsets that nobody holds keeps the invariant, wherever the
\* offsets came from.
LEMMA PairStep ==
    ASSUME IInv,
           NEW p \in PairPods, NEW o \in Nat,
           o % 4 = 1, o \in HostOffsets, o + 1 \in HostOffsets,
           o \notin DOMAIN allocated, o + 1 \notin DOMAIN allocated,
           AssignPair(p, o)
    PROVE  /\ DOMAIN allocated' \in SUBSET HostOffsets
           /\ \A x \in DOMAIN allocated' : allocated'[x] \in Owners
           /\ PairIntact'
  <1>1. /\ DOMAIN allocated' = DOMAIN allocated \cup {o, o + 1}
        /\ allocated'[o] = Gw(p)
        /\ allocated'[o + 1] = p
        /\ \A x \in DOMAIN allocated : x \notin {o, o + 1} =>
             allocated'[x] = allocated[x]
    BY AssignPairFacts
  <1>2. DOMAIN allocated' \in SUBSET HostOffsets
    BY <1>1 DEF IInv, TypeOK
  <1>3. \A x \in DOMAIN allocated' : allocated'[x] \in Owners
    BY <1>1 DEF IInv, TypeOK, Owners, PodIds
  <1>4. ASSUME NEW x \in DOMAIN allocated', NEW q \in PairPods,
               allocated'[x] = Gw(q)
        PROVE  /\ x % 4 = 1
               /\ x + 1 \in DOMAIN allocated'
               /\ allocated'[x + 1] = q
    <2>1. CASE x = o
      BY <1>1, <1>4, <2>1, LabelsDiffer DEF PodIds
    <2>2. CASE x = o + 1
      BY <1>1, <1>4, <2>2, LabelsDiffer DEF PodIds, HostOffsets
    <2>3. CASE x \in DOMAIN allocated
      <3>1. allocated[x] = Gw(q)
        BY <1>1, <1>4, <2>3
      <3>2. x % 4 = 1 /\ x + 1 \in DOMAIN allocated /\ allocated[x + 1] = q
        BY <2>3, <3>1 DEF IInv, PairIntact
      <3> QED
        BY <1>1, <3>2
    <2> QED
      BY <1>1, <2>1, <2>2, <2>3
  <1>5. ASSUME NEW x \in DOMAIN allocated', NEW q \in PairPods,
               allocated'[x] = q
        PROVE  /\ x % 4 = 2
               /\ x - 1 \in DOMAIN allocated'
               /\ allocated'[x - 1] = Gw(q)
    <2>1. CASE x = o
      BY <1>1, <1>5, <2>1, LabelsDiffer DEF PodIds
    <2>2. CASE x = o + 1
      <3>1. q = p /\ x - 1 = o /\ x % 4 = 2
        BY <1>1, <1>5, <2>2
      <3> QED
        BY <1>1, <3>1
    <2>3. CASE x \in DOMAIN allocated
      <3>1. allocated[x] = q
        BY <1>1, <1>5, <2>3
      <3>2. x % 4 = 2 /\ x - 1 \in DOMAIN allocated /\ allocated[x - 1] = Gw(q)
        BY <2>3, <3>1 DEF IInv, PairIntact
      <3> QED
        BY <1>1, <3>2
    <2> QED
      BY <1>1, <2>1, <2>2, <2>3
  <1> QED
    BY <1>2, <1>3, <1>4, <1>5 DEF PairIntact

\* An offset handed out again, or past the high-water mark, is nobody's.
LEMMA ReuseInv ==
    ASSUME IInv, NEW p \in PairPods, NEW o \in HostOffsets, Reuse(p, o)
    PROVE  IInv'
  <1>1. o \in Nat /\ o % 4 = 1 /\ o \in free /\ o + 1 \in free
    BY DEF Reuse, ReusablePairs, HostOffsets
  <1>2. o + 1 \in HostOffsets
    BY <1>1 DEF IInv, TypeOK
  <1>3. o \notin DOMAIN allocated /\ o + 1 \notin DOMAIN allocated
    BY <1>1 DEF IInv, NoDoubleUse
  <1>4. AssignPair(p, o) /\ free' = free \ {o, o + 1} /\ next_offset' = next_offset
    BY DEF Reuse
  <1>5. /\ DOMAIN allocated' \in SUBSET HostOffsets
        /\ \A x \in DOMAIN allocated' : allocated'[x] \in Owners
        /\ PairIntact'
    BY <1>1, <1>2, <1>3, <1>4, PairStep
  <1>6. DOMAIN allocated' = DOMAIN allocated \cup {o, o + 1}
    BY <1>1, <1>4, AssignPairFacts
  <1>7. TypeOK'
    BY <1>4, <1>5 DEF IInv, TypeOK
  <1>8. NoDoubleUse'
    BY <1>1, <1>4, <1>6 DEF IInv, NoDoubleUse
  <1>9. NoBlockLost'
    BY <1>4, <1>6 DEF IInv, NoBlockLost
  <1> QED
    BY <1>5, <1>7, <1>8, <1>9 DEF IInv

\* A new /30 lies past everything ever handed out, so it keeps the invariant.
LEMMA AdvanceInv ==
    ASSUME IInv, NEW p \in PairPods, NEW o \in HostOffsets, Advance(p, o)
    PROVE  IInv'
  <1>1. /\ AssignPair(p, o) /\ free' = free /\ next_offset' = o + 4
        /\ o = Align(next_offset) /\ o + 1 < HostCount - 1
    BY DEF Advance, PairFits
  <1>2. next_offset \in Nat /\ o \in Nat
    BY DEF IInv, TypeOK, HostOffsets
  <1>3. o >= next_offset /\ o % 4 = 1
    BY <1>1, <1>2, AlignFacts
  <1>4. o + 1 \in HostOffsets
    BY <1>1, <1>2, HostCountAssumption DEF HostOffsets
  <1>5. o \notin DOMAIN allocated /\ o + 1 \notin DOMAIN allocated
    BY <1>2, <1>3 DEF IInv, NoDoubleUse
  <1>6. /\ DOMAIN allocated' \in SUBSET HostOffsets
        /\ \A x \in DOMAIN allocated' : allocated'[x] \in Owners
        /\ PairIntact'
    BY <1>1, <1>2, <1>3, <1>4, <1>5, PairStep
  <1>7. DOMAIN allocated' = DOMAIN allocated \cup {o, o + 1}
    BY <1>1, <1>2, AssignPairFacts
  <1>8. TypeOK'
    BY <1>1, <1>2, <1>6 DEF IInv, TypeOK
  <1>9. NoDoubleUse'
    <2>1. \A x \in free : x \in Nat /\ x < next_offset
      BY DEF IInv, TypeOK, NoDoubleUse, HostOffsets
    <2>2. \A x \in DOMAIN allocated : x \in Nat /\ x < next_offset
      BY DEF IInv, TypeOK, NoDoubleUse, HostOffsets
    <2> QED
      BY <1>1, <1>2, <1>3, <1>7, <2>1, <2>2 DEF IInv, NoDoubleUse
  <1>10. NoBlockLost'
    <2> SUFFICES ASSUME NEW x \in 1..(o + 3), x % 4 = 1
                 PROVE  x \in free \cup DOMAIN allocated \cup {o, o + 1}
      BY <1>1, <1>2, <1>7 DEF NoBlockLost
    <2>1. CASE x < next_offset
      BY <1>2, <2>1 DEF IInv, NoBlockLost
    <2>2. CASE x >= next_offset
      <3>1. x >= o
        BY <1>1, <1>2, <2>2, AlignFacts
      <3> QED
        BY <1>2, <1>3, <3>1
    <2> QED
      BY <1>2, <2>1, <2>2
  <1> QED
    BY <1>6, <1>8, <1>9, <1>10 DEF IInv

\* A release that names both labels of a pod, or the label of a pod without a
\* gateway, frees pairs as a whole.
LEMMA ReleaseInv ==
    ASSUME IInv, NEW owners,
           \A q \in PairPods : q \in owners <=> Gw(q) \in owners,
           free' = free \cup OwnedBy(owners),
           allocated' = RetainOthers(owners),
           next_offset' = next_offset
    PROVE  IInv'
  <1>1. /\ DOMAIN allocated' = DOMAIN allocated \ OwnedBy(owners)
        /\ \A x \in DOMAIN allocated' : allocated'[x] = allocated[x]
        /\ \A x \in DOMAIN allocated :
             x \in DOMAIN allocated' <=> allocated[x] \notin owners
    BY RetainFacts
  <1>2. OwnedBy(owners) \subseteq DOMAIN allocated
    BY DEF OwnedBy
  <1>3. TypeOK'
    BY <1>1, <1>2 DEF IInv, TypeOK
  <1>4. NoDoubleUse'
    BY <1>1, <1>2 DEF IInv, NoDoubleUse
  <1>5. PairIntact'
    <2> SUFFICES ASSUME NEW x \in DOMAIN allocated', NEW q \in PairPods
                 PROVE  /\ allocated'[x] = Gw(q) =>
                            /\ x % 4 = 1
                            /\ x + 1 \in DOMAIN allocated'
                            /\ allocated'[x + 1] = q
                        /\ allocated'[x] = q =>
                            /\ x % 4 = 2
                            /\ x - 1 \in DOMAIN allocated'
                            /\ allocated'[x - 1] = Gw(q)
      BY DEF PairIntact
    <2>1. x \in DOMAIN allocated /\ allocated'[x] = allocated[x]
          /\ allocated[x] \notin owners
      BY <1>1
    <2>2. CASE allocated[x] = Gw(q)
      <3>1. x % 4 = 1 /\ x + 1 \in DOMAIN allocated /\ allocated[x + 1] = q
        BY <2>1, <2>2 DEF IInv, PairIntact
      <3>2. q \notin owners
        BY <2>1, <2>2
      <3>3. Gw(q) # q
        BY LabelsDiffer DEF PodIds
      <3> QED
        BY <1>1, <2>1, <2>2, <3>1, <3>2, <3>3
    <2>3. CASE allocated[x] = q
      <3>1. x % 4 = 2 /\ x - 1 \in DOMAIN allocated /\ allocated[x - 1] = Gw(q)
        BY <2>1, <2>3 DEF IInv, PairIntact
      <3>2. Gw(q) \notin owners
        BY <2>1, <2>3
      <3>3. Gw(q) # q
        BY LabelsDiffer DEF PodIds
      <3> QED
        BY <1>1, <2>1, <2>3, <3>1, <3>2, <3>3
    <2> QED
      BY <2>1, <2>2, <2>3
  <1>6. NoBlockLost'
    BY <1>1, <1>2 DEF IInv, NoBlockLost
  <1> QED
    BY <1>3, <1>4, <1>5, <1>6 DEF IInv

\* One address given to a pod of the one-address interface.
LEMMA SingleStep ==
    ASSUME IInv, NEW p \in SinglePods, NEW o \in HostOffsets,
           o \notin DOMAIN allocated,
           allocated' = Insert([x \in {o} |-> p])
    PROVE  /\ DOMAIN allocated' = DOMAIN allocated \cup {o}
           /\ \A x \in DOMAIN allocated' : allocated'[x] \in Owners
           /\ PairIntact'
  <1>1. /\ DOMAIN allocated' = DOMAIN allocated \cup {o}
        /\ allocated'[o] = p
        /\ \A x \in DOMAIN allocated : allocated'[x] = allocated[x]
    BY DEF Insert
  <1>2. \A q \in PairPods : p # q /\ p # Gw(q)
    BY LabelsDiffer, DisjointPods DEF PodIds
  <1>3. \A x \in DOMAIN allocated' : allocated'[x] \in Owners
    BY <1>1 DEF IInv, TypeOK, Owners, PodIds
  <1>4. PairIntact'
    BY <1>1, <1>2 DEF IInv, PairIntact
  <1> QED
    BY <1>1, <1>3, <1>4

\* The one-address interface never touches an offset that is in use, so it
\* breaks no pair of another pod.
LEMMA SingleInv ==
    ASSUME IInv, NEW p \in SinglePods, AllocateSingle(p)
    PROVE  IInv'
  <1>1. ASSUME NEW o \in free, free' = free \ {o},
               allocated' = Insert([x \in {o} |-> p]),
               next_offset' = next_offset
        PROVE  IInv'
    <2>1. o \in HostOffsets /\ o \notin DOMAIN allocated
      BY DEF IInv, TypeOK, NoDoubleUse
    <2>2. /\ DOMAIN allocated' = DOMAIN allocated \cup {o}
          /\ \A x \in DOMAIN allocated' : allocated'[x] \in Owners
          /\ PairIntact'
      BY <1>1, <2>1, SingleStep
    <2>3. TypeOK' /\ NoDoubleUse' /\ NoBlockLost'
      BY <1>1, <2>1, <2>2 DEF IInv, TypeOK, NoDoubleUse, NoBlockLost
    <2> QED
      BY <2>2, <2>3 DEF IInv
  <1>2. ASSUME free' = free, next_offset < HostCount - 1,
               next_offset' = next_offset + 1,
               allocated' = Insert([x \in {next_offset} |-> p])
        PROVE  IInv'
    <2>1. next_offset \in HostOffsets /\ next_offset \in Nat
      BY <1>2, HostCountAssumption DEF IInv, TypeOK, HostOffsets
    <2>2. next_offset \notin DOMAIN allocated
      BY <2>1 DEF IInv, NoDoubleUse
    <2>3. /\ DOMAIN allocated' = DOMAIN allocated \cup {next_offset}
          /\ \A x \in DOMAIN allocated' : allocated'[x] \in Owners
          /\ PairIntact'
      BY <1>2, <2>1, <2>2, SingleStep
    <2>4. TypeOK'
      BY <1>2, <2>1, <2>3 DEF IInv, TypeOK
    <2>5. NoDoubleUse'
      <3>1. \A x \in free \cup DOMAIN allocated : x \in Nat /\ x < next_offset
        BY DEF IInv, TypeOK, NoDoubleUse, HostOffsets
      <3> QED
        BY <1>2, <2>1, <2>3, <3>1 DEF IInv, NoDoubleUse
    <2>6. NoBlockLost'
      BY <1>2, <2>1, <2>3 DEF IInv, NoBlockLost
    <2> QED
      BY <2>3, <2>4, <2>5, <2>6 DEF IInv
  <1> QED
    BY <1>1, <1>2 DEF AllocateSingle

\* Every operation of the allocator keeps the invariant.
LEMMA NextInv == IInv /\ [Next]_ipVars => IInv'
  <1> SUFFICES ASSUME IInv, [Next]_ipVars PROVE IInv'
    OBVIOUS
  <1>1. ASSUME NEW p \in PairPods, NEW o \in HostOffsets, AllocatePair(p, o)
        PROVE  IInv'
    BY <1>1, ReuseInv, AdvanceInv DEF AllocatePair
  <1>2. ASSUME NEW p \in PairPods, ReleasePair(p)
        PROVE  IInv'
    <2>1. \A q \in PairPods : q \in {p, Gw(p)} <=> Gw(q) \in {p, Gw(p)}
      BY LabelsDiffer DEF PodIds
    <2> QED
      BY <1>2, <2>1, ReleaseInv DEF ReleasePair
  <1>3. ASSUME NEW p \in SinglePods, AllocateSingle(p)
        PROVE  IInv'
    BY <1>3, SingleInv
  <1>4. ASSUME NEW p \in SinglePods, ReleaseSingle(p)
        PROVE  IInv'
    <2>1. \A q \in PairPods : q \in {p} <=> Gw(q) \in {p}
      BY LabelsDiffer DEF PodIds
    <2> QED
      BY <1>4, <2>1, ReleaseInv DEF ReleaseSingle
  <1>5. CASE UNCHANGED ipVars
    BY <1>5 DEF ipVars, IInv, TypeOK, NoDoubleUse, PairIntact, NoBlockLost
  <1> QED
    BY <1>1, <1>2, <1>3, <1>4, <1>5 DEF Next

\* IInv holds in every state the allocator reaches.
THEOREM Invariance == Spec => []IInv
  BY InitInv, NextInv, PTL DEF Spec

\* Every address handed out is a host address of the CIDR.
THEOREM TypeCorrect == Spec => []TypeOK
  <1>1. IInv => TypeOK
    BY DEF IInv
  <1> QED
    BY <1>1, Invariance, PTL

\* No address is in use twice, or both in use and free.
THEOREM AddressesExclusive == Spec => []NoDoubleUse
  <1>1. IInv => NoDoubleUse
    BY DEF IInv
  <1> QED
    BY <1>1, Invariance, PTL

\* Every pair in use is one whole /30 of one pod.
THEOREM PairsIntact == Spec => []PairIntact
  <1>1. IInv => PairIntact
    BY DEF IInv
  <1> QED
    BY <1>1, Invariance, PTL

\* No /30 is ever lost to later allocations.
THEOREM BlocksKept == Spec => []NoBlockLost
  <1>1. IInv => NoBlockLost
    BY DEF IInv
  <1> QED
    BY <1>1, Invariance, PTL

\* Exhaustion is reported only when it is real: allocate_microvm_pair fails
\* only when each /30 has an address in use or was broken up before.
THEOREM ExhaustionIsReal == Spec => []ExhaustedOnlyWhenFull
  <1>1. IInv => ExhaustedOnlyWhenFull
    <2> SUFFICES ASSUME IInv, PairExhausted, NEW o \in HostOffsets,
                        o % 4 = 1, o + 1 \in HostOffsets,
                        {o, o + 1} \cap DOMAIN allocated = {}
                 PROVE  Split(o)
      BY DEF ExhaustedOnlyWhenFull
    <2>1. next_offset \in Nat \ {0} /\ o \in Nat \ {0}
      BY DEF IInv, TypeOK, HostOffsets
    <2>2. o < next_offset
      <3>1. SUFFICES ASSUME o >= next_offset PROVE FALSE
        BY <2>1
      <3>2. o >= Align(next_offset) /\ Align(next_offset) \in Nat
        BY <2>1, <3>1, AlignFacts
      <3>3. o + 1 < HostCount - 1
        BY <2>1, HostCountAssumption DEF HostOffsets
      <3> QED
        BY <2>1, <3>2, <3>3, HostCountAssumption DEF PairExhausted, PairFits
    <2>3. o \in free
      BY <2>1, <2>2 DEF IInv, NoBlockLost
    <2>4. o + 1 \notin free
      BY <2>3 DEF PairExhausted, ReusablePairs
    <2> QED
      BY <2>2, <2>4 DEF Split
  <1> QED
    BY <1>1, Invariance, PTL

=============================================================================
