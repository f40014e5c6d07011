-------------------------- MODULE GuestSessionProofs --------------------------
(***************************************************************************)
(* What holds of GuestSession for any workloads, VMs, connections and      *)
(* lengths of time, with proofs.                                           *)
(*                                                                         *)
(* That a key survives failed refreshes is an argument about time.  Its    *)
(* invariant speaks of `e`, the time since the refresh loop last looked at *)
(* the keys, which is no variable: there is one such time, and it bounds   *)
(* the length of the round under way, the next look and what is left of    *)
(* every key.                                                              *)
(***************************************************************************)
EXTENDS GuestSession, FiniteSetTheorems, TLAPS

---------------------------------------------------------------------------
(* The inductive invariant: the keys. *)

\* A key that was issued has lost no more than the time its request took.
IssuedLeft ==
    \A r \in Requesters :
        request[r].step = "issued" => request[r].left >= Ttl - request[r].waited

\* The loop is about to refresh t, or is refreshing it.
Refreshing(t) == t \in needs_refresh \/ (Pending("loop") /\ request["loop"].target = t)

\* The longest the requests of a round can have taken when S is still to be asked for.
Budget(S) == MaxDelay * (Cardinality(Targets) - Cardinality(S))

\* The longest the round under way can have taken.
Spent ==
    IF Pending("loop") THEN Budget(needs_refresh) - MaxDelay + request["loop"].waited
                       ELSE Budget(needs_refresh)

\* The timer is set from the last look, and the round under way started there.
Timing(e) ==
    /\ e + next_check \in 0..CheckInterval
    /\ LoopIdle \/ e <= Spent
    /\ LoopIdle => e <= Round \/ next_check >= 0

\* No key held had expired when the loop last looked.
ValidAtLook(e) == \A t \in DOMAIN keys : keys[t] + e > 0

\* What was left of a key at the last look: each failed refresh has cost a gap,
\* and the refresh under way may cost one more.
LeftAtLook(e) ==
    \A t \in DOMAIN failures : failures[t] <= Retries =>
        /\ t \in DOMAIN keys
        /\ Refreshing(t) => keys[t] + e > RefreshLeft - Gap * (failures[t] + 1)
        /\ ~Refreshing(t) => keys[t] + e > RefreshLeft - Gap * failures[t]

Since(e) == Timing(e) /\ ValidAtLook(e) /\ LeftAtLook(e)

KeysInv == KeysTypeOK /\ IssuedLeft /\ \E e \in 0..Gap : Since(e)

---------------------------------------------------------------------------
(* The inductive invariant: the schedule task and the connections. *)

\* A VM was booted for a workload, and its request for a key has been answered.
Keyed(c) ==
    /\ c \in Cids /\ launched[c] # Nobody
    /\ c \in refused \/ launched[c] \in DOMAIN failures

\* What is registered for a CID is what it was booted for.
RegisteredAsLaunched ==
    \A c \in Cids : /\ boot_measurements[c] \in {Nobody, launched[c]}
                    /\ workload_contexts[c] \in {Nobody, launched[c]}

\* The request of a boot is that of the VM in work, which goes on only when it is
\* answered.
TaskProgress ==
    /\ Pending("boot") => TaskAt("key")
    /\ TaskAt("key") =>
           /\ task.cid \in Cids /\ launched[task.cid] # Nobody
           /\ IF Pending("boot") THEN request["boot"].target = task.workload
                                 ELSE Keyed(task.cid)
    /\ task.step \in {"measurement", "context", "launch", "unregister"} => Keyed(task.cid)
    /\ task.step \in {"key", "measurement", "context", "launch"} =>
           task.workload = launched[task.cid]

VmsKeyed == \A c \in vms : Keyed(c)

\* What a connection has shown once its proof was accepted.
Proven(s) ==
    /\ session[s].proof.nonce
    /\ Production => /\ session[s].proof.type = "host"
                     /\ session[s].proof.artifacts = launched[session[s].cid]

\* Where the thread of a connection is and what it has read.
SessionOK(s) ==
    /\ ~At(s, "free") => Keyed(session[s].cid)
    /\ session[s].pc \in {"accepted", "key", "sign", "signed", "push", "closed"} => Proven(s)
    /\ session[s].pc \in {"key", "sign", "signed"} =>
           session[s].workload = launched[session[s].cid]
    /\ At(s, "push") => session[s].workload \in {Nobody, launched[session[s].cid]}
    /\ ~At(s, "closed") => pushed[s] = NotPushed
    /\ At(s, "closed") =>
           /\ pushed[s].workload \in {Nobody, launched[session[s].cid]}
           /\ pushed[s].workload = Nobody => ~pushed[s].svid

SessionProgress == \A s \in Sessions : SessionOK(s)

SessionInv == RegisteredAsLaunched /\ TaskProgress /\ VmsKeyed /\ SessionProgress

TaskType ==
    [step : {"idle", "key", "measurement", "context", "launch", "unregister"},
     cid : Cids \cup {NoCid}, workload : Targets \cup {Nobody}]

SessionType ==
    [pc : {"free", "challenged", "proved", "accepted", "key", "sign", "signed", "push", "closed"},
     cid : Cids \cup {NoCid}, proof : Proofs \cup {NoProof},
     workload : Targets \cup {Nobody}, ago : 0..Gap]

PushedType == [workload : Targets \cup {Nobody, NotPushed.workload}, svid : BOOLEAN]

IInv == TypeOK /\ KeysInv /\ SessionInv

---------------------------------------------------------------------------
(* Arithmetic. *)

\* The larger of two integers.
LEMMA MaxOfTwo ==
    ASSUME NEW a \in Int, NEW b \in Int
    PROVE  /\ Max({a, b}) \in {a, b}
           /\ Max({a, b}) >= a /\ Max({a, b}) >= b
  <1>1. \E x \in {a, b} : \A y \in {a, b} : x >= y
    <2>1. CASE a >= b  BY <2>1
    <2>2. CASE b >= a  BY <2>2
    <2>. QED  BY <2>1, <2>2
  <1>. QED  BY <1>1 DEF Max

\* The smaller of two integers.
LEMMA MinOfTwo ==
    ASSUME NEW a \in Int, NEW b \in Int
    PROVE  /\ Min({a, b}) \in {a, b}
           /\ Min({a, b}) <= a /\ Min({a, b}) <= b
  <1>1. \E x \in {a, b} : \A y \in {a, b} : x <= y
    <2>1. CASE a <= b  BY <2>1
    <2>2. CASE b <= a  BY <2>2
    <2>. QED  BY <2>1, <2>2
  <1>. QED  BY <1>1 DEF Min

\* Division rounds down.
LEMMA DivisionRoundsDown ==
    ASSUME NEW a \in Int, NEW b \in Nat \ {0}
    PROVE  a \div b \in Int /\ b * (a \div b) <= a /\ a < b * ((a \div b) + 1)
  OBVIOUS

\* Multiplication by a natural number is monotone.
LEMMA Monotone ==
    ASSUME NEW n \in Nat, NEW a \in Int, NEW b \in Int, a <= b
    PROVE  n * a \in Int /\ n * b \in Int /\ n * a <= n * b
  OBVIOUS

\* n times one more.
LEMMA OneMore ==
    ASSUME NEW n \in Nat, NEW a \in Int
    PROVE  n * a \in Int /\ n * (a + 1) = n * a + n /\ n * (a - 1) = n * a - n
  OBVIOUS

\* The lengths of time of the loop: the round, the gap between two looks, and
\* what is left of a key when it is refreshed, at least a quarter.
LEMMA Lengths ==
    /\ Cardinality(Targets) \in Nat
    /\ Round \in Nat /\ Round = MaxDelay * Cardinality(Targets)
    /\ Gap \in Nat \ {0} /\ Gap >= CheckInterval /\ Gap >= Round
    /\ Gap \in {CheckInterval, Round}
    /\ RefreshLeft \in Int /\ RefreshLeft >= Ttl \div 4
    /\ Ttl \div 4 \in Nat
    /\ RefreshLeft + 3 * (Ttl \div 4) <= Ttl
    /\ Retries \in Int /\ Gap * (Retries + 1) <= Ttl \div 4 - Round
  <1>1. Cardinality(Targets) \in Nat
    BY KeyAssumption, FS_CardinalityType
  <1>2. Round \in Nat /\ Round = MaxDelay * Cardinality(Targets)
    BY <1>1, KeyAssumption DEF Round
  <1>3. /\ Gap \in Nat \ {0} /\ Gap >= CheckInterval /\ Gap >= Round
        /\ Gap \in {CheckInterval, Round}
    <2>1. CheckInterval \in Nat \ {0}  BY KeyAssumption
    <2>2. CheckInterval \in Int /\ Round \in Int  BY <1>2, <2>1
    <2>3. /\ Max({CheckInterval, Round}) \in {CheckInterval, Round}
          /\ Max({CheckInterval, Round}) >= CheckInterval
          /\ Max({CheckInterval, Round}) >= Round
      BY <2>2, MaxOfTwo, Zenon
    <2>4. /\ Gap \in {CheckInterval, Round}
          /\ Gap >= CheckInterval /\ Gap >= Round
      BY <2>3, Zenon DEF Gap
    <2>. QED  BY <1>2, <2>1, <2>4
  <1>4. Ttl \in Nat \ {0}
    BY KeyAssumption
  <1>5. Ttl \div 4 \in Int /\ 4 * (Ttl \div 4) <= Ttl /\ Ttl < 4 * ((Ttl \div 4) + 1)
    BY <1>4, DivisionRoundsDown
  <1>6. /\ (3 * Ttl) \div 4 \in Int
        /\ 4 * ((3 * Ttl) \div 4) <= 3 * Ttl /\ 3 * Ttl < 4 * (((3 * Ttl) \div 4) + 1)
    BY <1>4, DivisionRoundsDown
  <1>7. /\ RefreshLeft \in Int /\ RefreshLeft >= Ttl \div 4
        /\ Ttl \div 4 \in Nat
        /\ RefreshLeft + 3 * (Ttl \div 4) <= Ttl
    BY <1>4, <1>5, <1>6 DEF RefreshLeft
  <1>8. Retries \in Int /\ Gap * (Retries + 1) <= Ttl \div 4 - Round
    <2> DEFINE Room == Ttl \div 4 - Round
    <2>1. Room \in Int
      BY <1>2, <1>7
    <2>2. Room \div Gap \in Int /\ Gap * (Room \div Gap) <= Room
      BY <2>1, <1>3, DivisionRoundsDown
    <2>3. Retries = (Room \div Gap) - 1
      BY DEF Retries
    <2>4. Retries \in Int /\ Retries + 1 = Room \div Gap
      BY <2>2, <2>3
    <2>. QED  BY <2>2, <2>4
  <1>. QED  BY <1>1, <1>2, <1>3, <1>7, <1>8

\* After f failed refreshes, f at most Retries, what is left of a key at the next
\* look is still more than a round.
LEMMA LastQuarter ==
    ASSUME NEW f \in Nat, f <= Retries
    PROVE  /\ Gap * f \in Int /\ Gap * (f + 1) \in Int
           /\ Gap * f >= 0 /\ Gap * (f + 1) = Gap * f + Gap
           /\ RefreshLeft - Gap * (f + 1) >= Round
  <1>1. Gap \in Nat /\ Retries \in Int /\ RefreshLeft \in Int /\ Round \in Nat
    BY Lengths
  <1>2. /\ Gap * (f + 1) \in Int /\ Gap * (Retries + 1) \in Int
        /\ Gap * (f + 1) <= Gap * (Retries + 1)
    <2>1. f + 1 \in Int /\ Retries + 1 \in Int /\ f + 1 <= Retries + 1  BY <1>1
    <2>. QED  BY <1>1, <2>1, Monotone
  <1>3. Gap * f \in Int /\ Gap * (f + 1) = Gap * f + Gap
    BY <1>1, OneMore
  <1>4. Gap * f >= 0
    BY <1>1
  <1>5. Gap * (Retries + 1) <= Ttl \div 4 - Round /\ RefreshLeft >= Ttl \div 4 /\ Ttl \div 4 \in Nat
    BY Lengths
  <1>6. RefreshLeft - Gap * (f + 1) >= Round
    BY <1>1, <1>2, <1>5
  <1>. QED  BY <1>2, <1>3, <1>4, <1>6

\* If there is room for a failure at all, a key just installed is not due.
LEMMA FreshNotDue ==
    ASSUME 0 <= Retries, NEW t \in Targets
    PROVE  Ttl - MaxDelay > RefreshLeft
  <1>1. /\ Ttl \in Nat /\ MaxDelay \in Nat /\ RefreshLeft \in Int /\ Round \in Nat
        /\ Gap \in Nat \ {0} /\ Retries \in Int /\ Ttl \div 4 \in Nat
    BY KeyAssumption, Lengths
  <1>2. Gap * (Retries + 1) >= Gap
    BY <1>1, Monotone
  <1>3. Ttl \div 4 - Round >= 1
    BY <1>1, <1>2, Lengths
  <1>4. MaxDelay <= Round
    <2>1. Cardinality(Targets) >= 1
      BY KeyAssumption, Lengths, FS_EmptySet
    <2>. QED  BY <1>1, <2>1, Lengths, Monotone
  <1>. QED  BY <1>1, <1>3, <1>4, Lengths

\* A round of requests is no longer than Round, and each request takes its share.
LEMMA BudgetRange ==
    ASSUME NEW S, S \subseteq Targets
    PROVE  /\ Budget(S) \in Int /\ 0 <= Budget(S) /\ Budget(S) <= Round
           /\ S = {} => Budget(S) = Round
           /\ \A t \in S : Budget(S \ {t}) = Budget(S) + MaxDelay
  <1>1. IsFiniteSet(Targets) /\ MaxDelay \in Nat
    BY KeyAssumption
  <1>2. IsFiniteSet(S) /\ Cardinality(S) \in Nat /\ Cardinality(S) <= Cardinality(Targets)
    BY <1>1, FS_Subset, FS_CardinalityType
  <1>3. Cardinality(Targets) \in Nat /\ Round = MaxDelay * Cardinality(Targets)
    BY Lengths
  <1>4. /\ Budget(S) \in Int /\ 0 <= Budget(S) /\ Budget(S) <= Round
    <2> DEFINE n == Cardinality(Targets) - Cardinality(S)
    <2>1. n \in Nat /\ n <= Cardinality(Targets)
      BY <1>2, <1>3
    <2>2. MaxDelay * n \in Int /\ 0 <= MaxDelay * n /\ MaxDelay * n <= MaxDelay * Cardinality(Targets)
      <3>. HIDE DEF n
      <3>. QED  BY <1>1, <1>3, <2>1, Monotone
    <2>. QED  BY <1>3, <2>2 DEF Budget
  <1>5. S = {} => Budget(S) = Round
    BY <1>3, FS_EmptySet DEF Budget
  <1>6. ASSUME NEW t \in S  PROVE Budget(S \ {t}) = Budget(S) + MaxDelay
    <2>1. Cardinality(S \ {t}) = Cardinality(S) - 1
      BY <1>2, FS_RemoveElement
    <2> DEFINE n == Cardinality(Targets) - Cardinality(S)
    <2>2. n \in Int /\ Cardinality(Targets) - Cardinality(S \ {t}) = n + 1
      BY <1>2, <1>3, <2>1
    <2>3. MaxDelay * (n + 1) = MaxDelay * n + MaxDelay
      <3>. HIDE DEF n
      <3>. QED  BY <1>1, <2>2, OneMore
    <2>. QED  BY <2>2, <2>3 DEF Budget
  <1>. QED  BY <1>4, <1>5, <1>6

---------------------------------------------------------------------------
(* The keys: every step preserves their invariant. *)

\* What KeysTypeOK says of a request.
LEMMA RequestType ==
    ASSUME KeysTypeOK, NEW r \in Requesters
    PROVE  /\ request[r].step \in {"none", "asked", "issued"}
           /\ Pending(r) <=> request[r].step # "none"
           /\ Pending(r) => request[r] \in Request
           /\ request[r].waited \in 0..MaxDelay
  BY KeyAssumption DEF KeysTypeOK, Request, NoRequest, Pending

\* What KeysTypeOK says of the numbers, apart.
LEMMA NumberType ==
    ASSUME KeysTypeOK
    PROVE  /\ next_check \in Int
           /\ \A t \in DOMAIN keys : keys[t] \in Int
           /\ \A t \in DOMAIN failures : failures[t] \in Nat
           /\ Ttl \in Nat \ {0} /\ CheckInterval \in Nat \ {0} /\ MaxDelay \in Nat
           /\ MaxDelay < Ttl
  <1>1. Gap \in Nat /\ Round \in Nat /\ Retries \in Int
    BY Lengths
  <1>2. Max({0, Retries + 1}) \in Int
    BY <1>1, MaxOfTwo
  <1>. QED  BY <1>1, <1>2, KeyAssumption DEF KeysTypeOK

\* What an answer makes of a request's record ...
LEMMA IssuedRecord ==
    ASSUME NEW q \in Request
    PROVE  [q EXCEPT !.step = "issued", !.left = Ttl] =
               [step |-> "issued", target |-> q.target, left |-> Ttl, waited |-> q.waited]
  <1> DEFINE z == [q EXCEPT !.step = "issued"]
  <1>1. z = [step |-> "issued", target |-> q.target, left |-> q.left, waited |-> q.waited]
    BY DEF Request
  <1>2. [q EXCEPT !.step = "issued", !.left = Ttl] = [z EXCEPT !.left = Ttl]
    OBVIOUS
  <1>3. [z EXCEPT !.left = Ttl] =
            [step |-> "issued", target |-> q.target, left |-> Ttl, waited |-> q.waited]
    <2>. HIDE DEF z
    <2>. QED  BY <1>1
  <1>. QED  BY <1>2, <1>3

\* ... and the one time makes.
LEMMA TickedRecord ==
    ASSUME NEW q \in Request
    PROVE  /\ [q EXCEPT !.waited = @ + 1] =
                  [step |-> q.step, target |-> q.target, left |-> q.left, waited |-> q.waited + 1]
           /\ [q EXCEPT !.waited = @ + 1, !.left = @ - 1] =
                  [step |-> q.step, target |-> q.target, left |-> q.left - 1,
                   waited |-> q.waited + 1]
  <1> DEFINE z == [q EXCEPT !.waited = @ + 1]
  <1>1. z = [step |-> q.step, target |-> q.target, left |-> q.left, waited |-> q.waited + 1]
    BY DEF Request
  <1>2. [q EXCEPT !.waited = @ + 1, !.left = @ - 1] = [z EXCEPT !.left = z.left - 1]
    OBVIOUS
  <1>3. [z EXCEPT !.left = z.left - 1] =
            [step |-> q.step, target |-> q.target, left |-> q.left - 1, waited |-> q.waited + 1]
    <2>. HIDE DEF z
    <2>. QED  BY <1>1
  <1>. QED  BY <1>1, <1>2, <1>3

\* A step that changes neither the keys nor the loop's request in what it asks
\* for and how long it has waited leaves the loop where it was.
LEMMA SameRound ==
    ASSUME UNCHANGED <<keys, next_check, needs_refresh, failures>>,
           Pending("loop")' <=> Pending("loop"),
           request'["loop"].target = request["loop"].target,
           request'["loop"].waited = request["loop"].waited,
           NEW e, Since(e)
    PROVE  Since(e)'
  <1>1. LoopIdle' <=> LoopIdle
    BY DEF LoopIdle
  <1>2. Spent' = Spent
    BY DEF Spent, Budget
  <1>3. Timing(e)'
    BY <1>1, <1>2 DEF Since, Timing
  <1>4. \A t : Refreshing(t)' <=> Refreshing(t)
    BY DEF Refreshing
  <1>5. ValidAtLook(e)' /\ LeftAtLook(e)'
    BY <1>4 DEF Since, ValidAtLook, LeftAtLook
  <1>. QED  BY <1>3, <1>5 DEF Since

\* Control answers.
LEMMA IssueKeys ==
    ASSUME KeysInv, NEW r \in Requesters, Issue(r)
    PROVE  KeysInv'
  <1>1. /\ request \in [Requesters -> Request \cup {NoRequest}]
        /\ request[r].step = "asked" /\ request[r] \in Request
        /\ UNCHANGED <<keys, next_check, needs_refresh, failures>>
    BY RequestType DEF KeysInv, KeysTypeOK, Issue
  <1>2. request' = [request EXCEPT ![r] =
            [step |-> "issued", target |-> request[r].target, left |-> Ttl,
             waited |-> request[r].waited]]
    BY <1>1, IssuedRecord DEF Issue
  <1>3. request'[r] \in Request /\ request'[r].left >= Ttl - request'[r].waited
    BY <1>1, <1>2, KeyAssumption DEF Request
  <1>4. KeysTypeOK'
    BY <1>1, <1>2, <1>3 DEF KeysInv, KeysTypeOK
  <1>5. IssuedLeft'
    BY <1>1, <1>2, <1>3 DEF KeysInv, IssuedLeft
  <1>6. /\ Pending("loop")' <=> Pending("loop")
        /\ request'["loop"].target = request["loop"].target
        /\ request'["loop"].waited = request["loop"].waited
    BY <1>1, <1>2 DEF Pending, NoRequest, Requesters
  <1>. QED  BY <1>1, <1>4, <1>5, <1>6, SameRound DEF KeysInv

\* A boot asks for a key.
LEMMA BootAskKeys ==
    ASSUME KeysInv, NEW t \in Targets, Ask("boot", t),
           UNCHANGED <<keys, next_check, needs_refresh, failures>>
    PROVE  KeysInv'
  <1>1. request \in [Requesters -> Request \cup {NoRequest}]
    BY DEF KeysInv, KeysTypeOK
  <1>2. request' = [request EXCEPT !["boot"] =
            [step |-> "asked", target |-> t, left |-> 0, waited |-> 0]]
    BY DEF Ask
  <1>3. request'["boot"] \in Request
    BY <1>1, <1>2, KeyAssumption DEF Request, Requesters
  <1>4. KeysTypeOK'
    BY <1>1, <1>2, <1>3 DEF KeysInv, KeysTypeOK, Requesters
  <1>5. IssuedLeft'
    BY <1>1, <1>2 DEF KeysInv, IssuedLeft, Requesters
  <1>6. request'["loop"] = request["loop"]
    BY <1>1, <1>2 DEF Requesters
  <1>. QED  BY <1>4, <1>5, <1>6, SameRound DEF KeysInv, Pending

\* Nothing happens to the keys.
LEMMA SameKeys ==
    ASSUME KeysInv, UNCHANGED keyVars
    PROVE  KeysInv'
  <1>1. UNCHANGED <<keys, next_check, needs_refresh, failures>> /\ request' = request
    BY DEF keyVars
  <1>2. KeysTypeOK' /\ IssuedLeft'
    BY <1>1 DEF KeysInv, KeysTypeOK, IssuedLeft
  <1>. QED  BY <1>1, <1>2, SameRound DEF KeysInv, Pending

\* The loop's request is over: its share of the round is spent.
LEMMA RequestOver ==
    ASSUME KeysTypeOK, Pending("loop"), UNCHANGED <<next_check, needs_refresh>>,
           ~Pending("loop")', NEW e \in Nat, Timing(e)
    PROVE  Timing(e)'
  <1>1. needs_refresh \subseteq Targets /\ needs_refresh' = needs_refresh
    BY DEF KeysTypeOK
  <1>2. /\ Budget(needs_refresh) \in Int
        /\ needs_refresh = {} => Budget(needs_refresh) = Round
    BY <1>1, BudgetRange
  <1>3. request["loop"].waited \in 0..MaxDelay /\ MaxDelay \in Nat
    BY RequestType, KeyAssumption DEF Requesters
  <1>4. e <= Budget(needs_refresh) - MaxDelay + request["loop"].waited
    BY DEF Timing, LoopIdle, Spent
  <1>5. e <= Budget(needs_refresh)
    BY <1>2, <1>3, <1>4
  <1>6. Spent' = Budget(needs_refresh)
    BY <1>1 DEF Spent, Budget
  <1>7. LoopIdle' => needs_refresh = {}
    BY <1>1 DEF LoopIdle
  <1>. QED  BY <1>2, <1>5, <1>6, <1>7 DEF Timing

\* A request gets no answer.
LEMMA RequestFailsKeys ==
    ASSUME KeysInv, NEW r \in Requesters, RequestFails(r)
    PROVE  KeysInv'
  <1>1. /\ request \in [Requesters -> Request \cup {NoRequest}]
        /\ request' = [request EXCEPT ![r] = NoRequest]
        /\ Pending(r) /\ UNCHANGED <<keys, next_check, needs_refresh>>
        /\ KeysTypeOK
    BY DEF KeysInv, KeysTypeOK, RequestFails
  <1>2. request' \in [Requesters -> Request \cup {NoRequest}]
    BY <1>1
  <1>3. IssuedLeft'
    BY <1>1 DEF KeysInv, IssuedLeft, NoRequest
  <1>4. CASE r = "boot"
    <2>1. failures' = failures /\ request'["loop"] = request["loop"]
      BY <1>1, <1>4 DEF RequestFails, Requesters
    <2>2. KeysTypeOK'
      BY <1>1, <1>2, <2>1 DEF KeysTypeOK
    <2>. QED  BY <1>1, <1>3, <2>1, <2>2, SameRound DEF KeysInv, Pending
  <1>5. CASE r = "loop"
    <2> DEFINE u == request["loop"].target
    <2>1. failures' = [failures EXCEPT ![u] =
              IF failures[u] <= Retries THEN failures[u] + 1 ELSE failures[u]]
      BY <1>5 DEF RequestFails
    <2>. HIDE DEF u
    <2>2. /\ DOMAIN failures' = DOMAIN failures
          /\ \A t \in DOMAIN failures : t # u => failures'[t] = failures[t]
          /\ u \in DOMAIN failures => failures'[u] =
                 IF failures[u] <= Retries THEN failures[u] + 1 ELSE failures[u]
      BY <2>1
    <2>3. /\ Retries \in Int /\ Max({0, Retries + 1}) \in Int
          /\ Max({0, Retries + 1}) >= Retries + 1
      <3>1. Retries \in Int /\ Retries + 1 \in Int /\ 0 \in Int  BY Lengths
      <3>. QED  BY <3>1, MaxOfTwo
    <2>4. \A t \in DOMAIN failures : failures[t] \in 0..Max({0, Retries + 1})
      BY <1>1 DEF KeysTypeOK
    <2>5. \A t \in DOMAIN failures' : failures'[t] \in 0..Max({0, Retries + 1})
      BY <2>2, <2>3, <2>4
    <2>6. KeysTypeOK'
      BY <1>1, <1>2, <2>2, <2>5 DEF KeysTypeOK
    <2>7. ~Pending("loop")'
      BY <1>1, <1>5 DEF Pending, Requesters
    <2>8. PICK e \in 0..Gap : Since(e)
      BY DEF KeysInv
    <2>9. Timing(e)'
      BY <1>1, <1>5, <2>7, <2>8, RequestOver, Lengths DEF Since
    <2>10. ValidAtLook(e)'
      BY <1>1, <2>8 DEF Since, ValidAtLook
    <2>11. LeftAtLook(e)'
      <3>. SUFFICES ASSUME NEW t \in DOMAIN failures', failures'[t] <= Retries
                    PROVE  /\ t \in DOMAIN keys'
                           /\ Refreshing(t)' =>
                                  keys'[t] + e > RefreshLeft - Gap * (failures'[t] + 1)
                           /\ ~Refreshing(t)' =>
                                  keys'[t] + e > RefreshLeft - Gap * failures'[t]
        BY DEF LeftAtLook
      <3>1. t \in DOMAIN failures /\ failures[t] \in Nat /\ keys' = keys
        BY <1>1, <2>2, NumberType
      <3>2. failures[t] <= Retries
        BY <2>2, <2>3, <3>1
      <3>3. /\ t \in DOMAIN keys
            /\ Refreshing(t) => keys[t] + e > RefreshLeft - Gap * (failures[t] + 1)
            /\ ~Refreshing(t) => keys[t] + e > RefreshLeft - Gap * failures[t]
        BY <2>8, <3>1, <3>2 DEF Since, LeftAtLook
      <3>4. CASE t # u
        <4>1. Refreshing(t)' <=> Refreshing(t)
          BY <1>1, <2>7, <3>4 DEF Refreshing, u
        <4>. QED  BY <2>2, <3>1, <3>3, <3>4, <4>1
      <3>5. CASE t = u
        <4>1. Refreshing(t) /\ failures'[t] = failures[t] + 1
          BY <1>1, <1>5, <2>2, <3>1, <3>2, <3>5 DEF Refreshing, u
        <4>2. keys[t] + e > RefreshLeft - Gap * failures'[t]
          BY <3>3, <4>1
        <4>3. /\ Gap * failures'[t] \in Int /\ Gap \in Nat
              /\ Gap * (failures'[t] + 1) = Gap * failures'[t] + Gap
          BY <3>1, <4>1, Lengths, OneMore
        <4>4. keys[t] + e > RefreshLeft - Gap * (failures'[t] + 1)
          <5>1. keys[t] \in Int /\ e \in Int /\ RefreshLeft \in Int
            BY <1>1, <3>3, NumberType, Lengths
          <5>. QED  BY <4>2, <4>3, <5>1
        <4>. QED  BY <3>1, <3>3, <4>2, <4>4
      <3>. QED  BY <3>4, <3>5
    <2>. QED  BY <1>3, <2>6, <2>8, <2>9, <2>10, <2>11 DEF KeysInv, Since
  <1>. QED  BY <1>4, <1>5 DEF Requesters

\* A key arrives, for the loop or for a boot.
LEMMA InstallKeys ==
    ASSUME KeysInv, NEW r \in Requesters, Install(r)
    PROVE  KeysInv'
  <1> DEFINE u == request[r].target
             v == request[r].left
  <1>1. /\ request \in [Requesters -> Request \cup {NoRequest}]
        /\ request' = [request EXCEPT ![r] = NoRequest]
        /\ request[r].step = "issued"
        /\ UNCHANGED <<next_check, needs_refresh>>
        /\ KeysTypeOK
    BY DEF KeysInv, KeysTypeOK, Install
  <1>2. request[r] \in Request /\ Pending(r)
    BY <1>1, RequestType
  <1>3. /\ MaxDelay \in Nat /\ Ttl \in Nat \ {0} /\ MaxDelay < Ttl
        /\ request[r].waited \in 0..MaxDelay
    BY <1>1, RequestType, KeyAssumption
  <1>4. v \in Int /\ v >= Ttl - request[r].waited
    BY <1>1, <1>2, <1>3 DEF KeysInv, IssuedLeft, Request
  <1>5. v >= Ttl - MaxDelay
    BY <1>3, <1>4
  <1>6. u \in Targets /\ v <= Ttl
    BY <1>2, <1>3 DEF Request
  <1>7. /\ keys' = Put(keys, u, v)
        /\ failures' = Put(failures, u, 0)
    BY DEF Install
  <1>. HIDE DEF u, v
  <1>8. /\ DOMAIN keys' = DOMAIN keys \cup {u}
        /\ keys'[u] = v
        /\ \A t \in DOMAIN keys : t # u => keys'[t] = keys[t]
        /\ DOMAIN failures' = DOMAIN failures \cup {u}
        /\ failures'[u] = 0
        /\ \A t \in DOMAIN failures : t # u => failures'[t] = failures[t]
    BY <1>7 DEF Put
  <1>9. request' \in [Requesters -> Request \cup {NoRequest}]
    BY <1>1
  <1>10. IssuedLeft'
    BY <1>1 DEF KeysInv, IssuedLeft, NoRequest
  <1>11. KeysTypeOK'
    <2>1. v \in (1 - Gap)..Ttl
      BY <1>3, <1>4, <1>5, <1>6, Lengths
    <2>2. 0 \in 0..Max({0, Retries + 1})
      <3>1. Retries + 1 \in Int /\ 0 \in Int  BY Lengths
      <3>2. Max({0, Retries + 1}) \in {0, Retries + 1} /\ Max({0, Retries + 1}) >= 0
        BY <3>1, MaxOfTwo
      <3>. QED  BY <3>1, <3>2
    <2>3. \A t \in DOMAIN keys' : keys'[t] \in (1 - Gap)..Ttl
      BY <1>1, <1>8, <2>1 DEF KeysTypeOK
    <2>4. \A t \in DOMAIN failures' : failures'[t] \in 0..Max({0, Retries + 1})
      BY <1>1, <1>8, <2>2 DEF KeysTypeOK
    <2>. QED  BY <1>1, <1>6, <1>8, <1>9, <2>3, <2>4 DEF KeysTypeOK
  <1>12. PICK e \in 0..Gap : Since(e)
    BY DEF KeysInv
  <1>13. e \in Nat
    BY <1>12, Lengths
  <1>14. Timing(e)'
    <2>1. CASE r = "loop"
      <3>1. ~Pending("loop")'
        BY <1>1, <2>1 DEF Pending, Requesters
      <3>. QED  BY <1>1, <1>2, <1>12, <1>13, <2>1, <3>1, RequestOver DEF Since
    <2>2. CASE r = "boot"
      <3>1. request'["loop"] = request["loop"]
        BY <1>1, <2>2 DEF Requesters
      <3>2. (LoopIdle' <=> LoopIdle) /\ Spent' = Spent
        BY <1>1, <3>1 DEF LoopIdle, Spent, Budget, Pending
      <3>. QED  BY <1>1, <1>12, <3>2 DEF Since, Timing
    <2>. QED  BY <2>1, <2>2 DEF Requesters
  <1>15. ValidAtLook(e)'
    <2>1. v + e > 0
      BY <1>3, <1>4, <1>5, <1>13
    <2>. QED  BY <1>8, <1>12, <2>1 DEF Since, ValidAtLook
  <1>16. ASSUME NEW t \in DOMAIN failures', failures'[t] <= Retries
         PROVE  /\ t \in DOMAIN keys'
                /\ Refreshing(t)' => keys'[t] + e > RefreshLeft - Gap * (failures'[t] + 1)
                /\ ~Refreshing(t)' => keys'[t] + e > RefreshLeft - Gap * failures'[t]
    <2>1. CASE t = u
      <3>1. v > RefreshLeft
        BY <1>3, <1>4, <1>5, <1>6, <1>8, <1>16, <2>1, FreshNotDue, Lengths
      <3>2. Gap * 0 = 0 /\ Gap * (0 + 1) = Gap /\ Gap \in Nat /\ RefreshLeft \in Int
        BY Lengths
      <3>3. v + e > RefreshLeft - Gap * (0 + 1) /\ v + e > RefreshLeft - Gap * 0
        BY <1>4, <1>13, <3>1, <3>2
      <3>. QED  BY <1>8, <2>1, <3>3
    <2>2. CASE t # u
      <3>1. /\ t \in DOMAIN failures /\ failures'[t] = failures[t]
            /\ t \in DOMAIN keys => t \in DOMAIN keys' /\ keys'[t] = keys[t]
        BY <1>8, <1>16, <2>2
      <3>2. Refreshing(t)' <=> Refreshing(t)
        <4>1. CASE r = "boot"
          <5>1. request'["loop"] = request["loop"]
            BY <1>1, <4>1 DEF Requesters
          <5>. QED  BY <1>1, <5>1 DEF Refreshing, Pending
        <4>2. CASE r = "loop"
          <5>1. ~Pending("loop")' /\ request["loop"].target # t
            BY <1>1, <2>2, <4>2 DEF Pending, Requesters, u
          <5>. QED  BY <1>1, <5>1 DEF Refreshing
        <4>. QED  BY <4>1, <4>2 DEF Requesters
      <3>. QED  BY <1>12, <1>16, <3>1, <3>2 DEF Since, LeftAtLook
    <2>. QED  BY <2>1, <2>2
  <1>17. LeftAtLook(e)'
    BY <1>16 DEF LeftAtLook
  <1>. QED  BY <1>10, <1>11, <1>12, <1>14, <1>15, <1>17 DEF KeysInv, Since

\* The loop asks for the next key of its round.
LEMMA RefreshKeys ==
    ASSUME KeysInv, NEW u \in Targets, Refresh(u)
    PROVE  KeysInv'
  <1>1. /\ request \in [Requesters -> Request \cup {NoRequest}]
        /\ request' = [request EXCEPT !["loop"] =
               [step |-> "asked", target |-> u, left |-> 0, waited |-> 0]]
        /\ u \in needs_refresh /\ ~Pending("loop")
        /\ needs_refresh' = needs_refresh \ {u}
        /\ UNCHANGED <<keys, next_check, failures>>
        /\ KeysTypeOK
    BY DEF KeysInv, KeysTypeOK, Refresh, Ask
  <1>2. /\ request'["loop"] \in Request /\ request'["loop"].target = u
        /\ request'["loop"].waited = 0 /\ Pending("loop")'
    BY <1>1, KeyAssumption DEF Request, Requesters, Pending, NoRequest
  <1>3. KeysTypeOK'
    BY <1>1, <1>2 DEF KeysTypeOK, Requesters
  <1>4. IssuedLeft'
    BY <1>1 DEF KeysInv, IssuedLeft, Requesters
  <1>5. PICK e \in 0..Gap : Since(e)
    BY DEF KeysInv
  <1>6. ~LoopIdle /\ ~LoopIdle'
    BY <1>1, <1>2 DEF LoopIdle
  <1>7. Spent' = Spent
    <2>1. needs_refresh \subseteq Targets
      BY <1>1 DEF KeysTypeOK
    <2>2. /\ Budget(needs_refresh \ {u}) = Budget(needs_refresh) + MaxDelay
          /\ Budget(needs_refresh) \in Int /\ MaxDelay \in Nat
      BY <1>1, <2>1, BudgetRange, KeyAssumption
    <2>3. Spent = Budget(needs_refresh)
      BY <1>1 DEF Spent
    <2>4. Spent' = Budget(needs_refresh \ {u}) - MaxDelay + 0
      BY <1>1, <1>2 DEF Spent, Budget
    <2>. QED  BY <2>2, <2>3, <2>4
  <1>8. Timing(e)'
    BY <1>1, <1>5, <1>6, <1>7 DEF Since, Timing
  <1>9. \A t : Refreshing(t)' <=> Refreshing(t)
    BY <1>1, <1>2 DEF Refreshing
  <1>10. ValidAtLook(e)' /\ LeftAtLook(e)'
    BY <1>1, <1>5, <1>9 DEF Since, ValidAtLook, LeftAtLook
  <1>. QED  BY <1>3, <1>4, <1>5, <1>8, <1>10 DEF KeysInv, Since

\* The loop looks at the keys: it prunes the expired ones, and a key that has not
\* been refreshed too often in vain is not among them.
LEMMA CheckKeys ==
    ASSUME KeysInv, Check
    PROVE  KeysInv'
  <1>1. /\ LoopIdle /\ KeysTypeOK
        /\ next_check' = CheckInterval - ((-next_check) % CheckInterval)
        /\ keys' = Pruned
        /\ needs_refresh' = {t \in DOMAIN Pruned : ShouldRefresh(t)}
        /\ UNCHANGED <<request, failures>>
    BY DEF KeysInv, Check
  <1>2. ~Pending("loop") /\ request' = request /\ failures' = failures
    BY <1>1 DEF LoopIdle
  <1>3. /\ DOMAIN keys' = {t \in DOMAIN keys : keys[t] + 0 > 0}
        /\ \A t \in DOMAIN keys' : keys'[t] = keys[t]
    BY <1>1 DEF Pruned, HasValidKey
  <1>4. needs_refresh' = {t \in DOMAIN keys' : keys[t] <= RefreshLeft}
    BY <1>1, <1>3 DEF Pruned, ShouldRefresh
  <1>5. next_check' \in 0..CheckInterval
    <2>1. CheckInterval \in Nat \ {0} /\ -next_check \in Int
      BY <1>1, NumberType
    <2>2. (-next_check) % CheckInterval \in 0..(CheckInterval - 1)
      BY <2>1
    <2>. QED  BY <1>1, <2>1, <2>2
  <1>6. KeysTypeOK'
    <2>1. next_check' \in (-Round)..CheckInterval
      BY <1>5, Lengths, KeyAssumption
    <2>2. /\ DOMAIN keys' \subseteq DOMAIN keys /\ needs_refresh' \subseteq DOMAIN keys
          /\ \A t \in DOMAIN keys' : keys'[t] \in (1 - Gap)..Ttl
      BY <1>1, <1>3, <1>4 DEF KeysTypeOK
    <2>. QED  BY <1>1, <1>2, <2>1, <2>2 DEF KeysTypeOK
  <1>7. IssuedLeft'
    BY <1>2 DEF KeysInv, IssuedLeft
  <1>8. PICK e \in 0..Gap : Since(e)
    BY DEF KeysInv
  <1>9. e \in Nat /\ e <= Gap /\ Gap \in Nat /\ Round \in Nat /\ RefreshLeft \in Int
    BY <1>8, Lengths
  <1>10. 0 \in 0..Gap
    BY <1>9
  <1>11. Timing(0)'
    <2>1. 0 + next_check' \in 0..CheckInterval
      <3>1. CheckInterval \in Nat  BY KeyAssumption
      <3>2. \A n \in 0..CheckInterval : 0 + n \in 0..CheckInterval  BY <3>1
      <3>. QED  BY <1>5, <3>2
    <2>2. needs_refresh' \subseteq Targets
      BY <1>6 DEF KeysTypeOK
    <2>3. 0 <= Budget(needs_refresh')
      BY <2>2, BudgetRange
    <2>4. Spent' = Budget(needs_refresh')
      BY <1>2 DEF Spent, Budget, Pending
    <2>5. 0 <= Round
      BY <1>9
    <2>. QED  BY <2>1, <2>3, <2>4, <2>5 DEF Timing
  <1>12. ValidAtLook(0)'
    BY <1>3 DEF ValidAtLook
  <1>13. ASSUME NEW t \in DOMAIN failures', failures'[t] <= Retries
         PROVE  /\ t \in DOMAIN keys'
                /\ Refreshing(t)' => keys'[t] + 0 > RefreshLeft - Gap * (failures'[t] + 1)
                /\ ~Refreshing(t)' => keys'[t] + 0 > RefreshLeft - Gap * failures'[t]
    <2> DEFINE f == failures[t]
    <2>1. f \in Nat /\ f <= Retries /\ t \in DOMAIN failures /\ failures'[t] = f
      BY <1>1, <1>2, <1>13, NumberType
    <2>2. ~Refreshing(t)
      BY <1>1 DEF LoopIdle, Refreshing
    <2>3. t \in DOMAIN keys /\ keys[t] + e > RefreshLeft - Gap * f
      BY <1>8, <2>1, <2>2 DEF Since, LeftAtLook
    <2>4. /\ Gap * f \in Int /\ Gap * (f + 1) \in Int
          /\ Gap * f >= 0 /\ Gap * (f + 1) = Gap * f + Gap
          /\ RefreshLeft - Gap * (f + 1) >= Round
      BY <2>1, LastQuarter
    <2>5. keys[t] \in Int
      BY <1>1, <2>3, NumberType
    <2>. HIDE DEF f
    <2>6. keys[t] > RefreshLeft - Gap * (f + 1)
      BY <1>9, <2>3, <2>4, <2>5
    <2>7. keys[t] + 0 > 0 /\ keys[t] + 0 = keys[t]
      BY <1>9, <2>4, <2>5, <2>6
    <2>8. t \in DOMAIN keys' /\ keys'[t] = keys[t]
      BY <1>3, <2>3, <2>7
    <2>9. ~Refreshing(t)' => keys[t] > RefreshLeft - Gap * f
      <3>. SUFFICES ASSUME ~Refreshing(t)'  PROVE keys[t] > RefreshLeft - Gap * f
        OBVIOUS
      <3>1. t \notin needs_refresh'
        BY DEF Refreshing
      <3>2. ~(keys[t] <= RefreshLeft)
        BY <1>4, <2>8, <3>1
      <3>. QED  BY <1>9, <2>4, <2>5, <3>2
    <2>. QED  BY <2>1, <2>6, <2>7, <2>8, <2>9
  <1>14. LeftAtLook(0)'
    BY <1>13 DEF LeftAtLook
  <1>15. Since(0)'
    BY <1>11, <1>12, <1>14 DEF Since
  <1>. QED  BY <1>6, <1>7, <1>10, <1>15 DEF KeysInv

\* What time makes of the requests.
LEMMA TickRequests ==
    ASSUME KeysInv, Tick, NEW r \in Requesters
    PROVE  /\ request'[r] \in Request \cup {NoRequest}
           /\ request'[r].step = "issued" => request'[r].left >= Ttl - request'[r].waited
           /\ Pending(r)' <=> Pending(r)
           /\ request'[r].target = request[r].target
           /\ Pending(r) => request'[r].waited = request[r].waited + 1
  <1>1. KeysTypeOK /\ \A q \in Requesters : Pending(q) => request[q].waited < MaxDelay
    BY DEF KeysInv, Tick
  <1>2. Ttl \in Nat \ {0} /\ MaxDelay \in Nat
    BY KeyAssumption
  <1>3. /\ DOMAIN request' = Requesters
        /\ \A q \in Requesters :
               /\ ~Pending(q) => request'[q] = NoRequest
               /\ Pending(q) /\ request[q].step = "asked" =>
                      request'[q] = [step |-> "asked", target |-> request[q].target,
                          left |-> request[q].left, waited |-> request[q].waited + 1]
               /\ Pending(q) /\ request[q].step = "issued" =>
                      request'[q] = [step |-> "issued", target |-> request[q].target,
                          left |-> request[q].left - 1, waited |-> request[q].waited + 1]
    <2>1. request' = [q \in Requesters |->
           CASE request[q].step = "none"   -> request[q]
             [] request[q].step = "asked"  -> [request[q] EXCEPT !.waited = @ + 1]
             [] request[q].step = "issued" ->
                    [request[q] EXCEPT !.waited = @ + 1, !.left = @ - 1]]
      BY DEF Tick
    <2>2. ASSUME NEW q \in Requesters, ~Pending(q)  PROVE request'[q] = NoRequest
      <3>1. request[q].step = "none" /\ request[q] = NoRequest
        BY <1>1, <2>2, RequestType DEF Pending
      <3>. QED  BY <2>1, <3>1
    <2>3. ASSUME NEW q \in Requesters, Pending(q), request[q].step = "asked"
          PROVE  request'[q] = [step |-> "asked", target |-> request[q].target,
                     left |-> request[q].left, waited |-> request[q].waited + 1]
      <3>1. request[q] \in Request
        BY <1>1, <2>3, RequestType
      <3>2. request'[q] = [request[q] EXCEPT !.waited = @ + 1]
        BY <2>1, <2>3
      <3>. QED  BY <2>3, <3>1, <3>2, TickedRecord
    <2>4. ASSUME NEW q \in Requesters, Pending(q), request[q].step = "issued"
          PROVE  request'[q] = [step |-> "issued", target |-> request[q].target,
                     left |-> request[q].left - 1, waited |-> request[q].waited + 1]
      <3>1. request[q] \in Request
        BY <1>1, <2>4, RequestType
      <3>2. request'[q] = [request[q] EXCEPT !.waited = @ + 1, !.left = @ - 1]
        BY <2>1, <2>4
      <3>. QED  BY <2>4, <3>1, <3>2, TickedRecord
    <2>. QED  BY <2>1, <2>2, <2>3, <2>4
  <1>4. CASE ~Pending(r)
    BY <1>3, <1>4 DEF Pending, NoRequest
  <1>5. CASE Pending(r) /\ request[r].step = "asked"
    <2>1. request[r] \in Request /\ request[r].waited \in 0..MaxDelay
      BY <1>1, <1>5, RequestType
    <2>2. request[r].waited + 1 \in 0..MaxDelay
      BY <1>1, <1>2, <1>5, <2>1
    <2>3. request'[r] = [step |-> "asked", target |-> request[r].target,
                        left |-> request[r].left, waited |-> request[r].waited + 1]
      BY <1>3, <1>5
    <2>. QED  BY <1>5, <2>1, <2>2, <2>3 DEF Request, Pending, NoRequest
  <1>6. CASE Pending(r) /\ request[r].step = "issued"
    <2>1. request[r] \in Request /\ request[r].waited \in 0..MaxDelay
      BY <1>1, <1>6, RequestType
    <2>2. request[r].waited + 1 \in 0..MaxDelay
      BY <1>1, <1>2, <1>6, <2>1
    <2>3. request'[r] = [step |-> "issued", target |-> request[r].target,
                        left |-> request[r].left - 1, waited |-> request[r].waited + 1]
      BY <1>3, <1>6
    <2>4. request[r].left >= Ttl - request[r].waited
      BY <1>6 DEF KeysInv, IssuedLeft
    <2>5. request[r].left \in Int /\ request[r].left <= Ttl
      BY <1>2, <2>1 DEF Request
    <2>6. /\ request[r].left - 1 >= Ttl - (request[r].waited + 1)
          /\ request[r].left - 1 \in (Ttl - MaxDelay)..Ttl
      BY <1>2, <2>1, <2>2, <2>4, <2>5
    <2>7. request'[r] \in Request
      BY <2>1, <2>2, <2>3, <2>6 DEF Request
    <2>8. request'[r].step = "issued" /\ request'[r].target = request[r].target
          /\ request'[r].left = request[r].left - 1 /\ request'[r].waited = request[r].waited + 1
      BY <2>3
    <2>9. Pending(r)'
      BY <2>8 DEF Pending, NoRequest
    <2>. QED  BY <1>6, <2>6, <2>7, <2>8, <2>9
  <1>. QED  BY <1>1, <1>4, <1>5, <1>6, RequestType

\* Time passes: the next look comes in time, and nothing the loop waits for takes
\* longer than its share.
LEMMA TickKeys ==
    ASSUME KeysInv, Tick
    PROVE  KeysInv'
  <1>1. /\ KeysTypeOK
        /\ LoopIdle => next_check > 0
        /\ needs_refresh # {} => Pending("loop")
        /\ \A r \in Requesters : Pending(r) => request[r].waited < MaxDelay
        /\ keys' = [t \in DOMAIN keys |-> keys[t] - 1]
        /\ next_check' = next_check - 1
        /\ needs_refresh' = needs_refresh /\ failures' = failures
    BY DEF KeysInv, Tick
  <1>2. /\ next_check \in Int
        /\ \A t \in DOMAIN keys : keys[t] \in Int
        /\ \A t \in DOMAIN failures : failures[t] \in Nat
        /\ Ttl \in Nat \ {0} /\ CheckInterval \in Nat \ {0} /\ MaxDelay \in Nat
    BY <1>1, NumberType
  <1>4. \A r \in Requesters :
           /\ request'[r] \in Request \cup {NoRequest}
           /\ request'[r].step = "issued" => request'[r].left >= Ttl - request'[r].waited
           /\ Pending(r)' <=> Pending(r)
           /\ request'[r].target = request[r].target
           /\ Pending(r) => request'[r].waited = request[r].waited + 1
    BY TickRequests
  <1>5. IssuedLeft'
    BY <1>4 DEF IssuedLeft
  <1>6. request' \in [Requesters -> Request \cup {NoRequest}]
    <2> DEFINE Ticked(r) ==
            CASE request[r].step = "none"   -> request[r]
              [] request[r].step = "asked"  -> [request[r] EXCEPT !.waited = @ + 1]
              [] request[r].step = "issued" ->
                     [request[r] EXCEPT !.waited = @ + 1, !.left = @ - 1]
    <2>1. request' = [r \in Requesters |-> Ticked(r)]
      BY DEF Tick
    <2>. HIDE DEF Ticked
    <2>2. request' = [r \in Requesters |-> request'[r]]
      BY <2>1
    <2>. QED  BY <1>4, <2>2
  <1>7. PICK e \in 0..Gap : Since(e)
    BY DEF KeysInv
  <1>8. /\ e \in Nat /\ Gap \in Nat /\ Round \in Nat /\ Gap >= CheckInterval /\ Gap >= Round
    BY <1>7, Lengths
  <1>9. LoopIdle' <=> LoopIdle
    BY <1>1, <1>4 DEF LoopIdle, Requesters
  <1>10. /\ e + 1 \in 0..Gap /\ next_check' \in (-Round)..CheckInterval
         /\ Timing(e + 1)'
    <2>1. CASE LoopIdle
      <3>1. e + next_check \in 0..CheckInterval /\ next_check > 0
        BY <1>1, <1>7, <2>1 DEF Since, Timing
      <3>2. /\ e + 1 \in 0..Gap /\ (e + 1) + next_check' \in 0..CheckInterval
            /\ next_check' >= 0 /\ next_check' \in (-Round)..CheckInterval
        BY <1>1, <1>2, <1>8, <3>1
      <3>. QED  BY <1>9, <2>1, <3>2 DEF Timing
    <2>2. CASE ~LoopIdle
      <3>1. Pending("loop")
        BY <1>1, <2>2 DEF LoopIdle
      <3>2. request["loop"].waited \in 0..MaxDelay /\ request["loop"].waited < MaxDelay
        BY <1>1, <3>1, RequestType DEF Requesters
      <3>3. Pending("loop")' /\ request'["loop"].waited = request["loop"].waited + 1
        BY <1>4, <3>1 DEF Requesters
      <3>4. Budget(needs_refresh) \in Int /\ Budget(needs_refresh) <= Round
        BY <1>1, BudgetRange DEF KeysTypeOK
      <3>5. e + next_check \in 0..CheckInterval /\ e <= Spent
        BY <1>7, <2>2 DEF Since, Timing
      <3>6. Spent = Budget(needs_refresh) - MaxDelay + request["loop"].waited
        BY <3>1 DEF Spent
      <3>7. Spent' = Budget(needs_refresh) - MaxDelay + (request["loop"].waited + 1)
        BY <1>1, <3>3 DEF Spent, Budget
      <3>8. e + 1 <= Spent' /\ e + 1 <= Round
        BY <1>2, <1>8, <3>2, <3>4, <3>5, <3>6, <3>7
      <3>9. /\ e + 1 \in 0..Gap /\ (e + 1) + next_check' \in 0..CheckInterval
            /\ next_check' \in (-Round)..CheckInterval
        BY <1>1, <1>2, <1>8, <3>5, <3>8
      <3>. QED  BY <1>9, <2>2, <3>8, <3>9 DEF Timing
    <2>. QED  BY <2>1, <2>2
  <1>11. /\ DOMAIN keys' = DOMAIN keys
         /\ \A t \in DOMAIN keys : keys'[t] \in Int /\ keys'[t] + (e + 1) = keys[t] + e
    BY <1>1, <1>2, <1>8
  <1>12. ValidAtLook(e + 1)'
    BY <1>7, <1>11 DEF Since, ValidAtLook
  <1>13. LeftAtLook(e + 1)'
    <2>1. \A t : Refreshing(t)' <=> Refreshing(t)
      BY <1>1, <1>4 DEF Refreshing, Requesters
    <2>. QED  BY <1>1, <1>7, <1>11, <2>1 DEF Since, LeftAtLook
  <1>14. KeysTypeOK'
    <2>1. \A t \in DOMAIN keys' : keys'[t] \in (1 - Gap)..Ttl
      <3>. SUFFICES ASSUME NEW t \in DOMAIN keys  PROVE keys[t] - 1 \in (1 - Gap)..Ttl
        BY <1>1
      <3>1. keys[t] + e > 0 /\ keys[t] \in Int /\ keys[t] <= Ttl
        BY <1>1, <1>2, <1>7 DEF Since, ValidAtLook, KeysTypeOK
      <3>. QED  BY <1>2, <1>8, <1>10, <3>1
    <2>. QED  BY <1>1, <1>6, <1>10, <1>11, <2>1 DEF KeysTypeOK
  <1>. QED  BY <1>5, <1>10, <1>12, <1>13, <1>14 DEF KeysInv, Since

\* At the start there is no key, and the loop has not looked yet.
LEMMA InitKeys == KeysInit => KeysInv
  <1>. SUFFICES ASSUME KeysInit  PROVE KeysInv
    OBVIOUS
  <1>1. /\ DOMAIN keys = {} /\ DOMAIN failures = {}
        /\ next_check = 0 /\ needs_refresh = {}
        /\ request = [r \in Requesters |-> NoRequest]
    BY DEF KeysInit
  <1>2. 0 \in (-Round)..CheckInterval /\ 0 \in 0..Gap /\ 0 + 0 \in 0..CheckInterval /\ 0 <= Round
    BY Lengths, KeyAssumption
  <1>3. KeysTypeOK
    BY <1>1, <1>2 DEF KeysTypeOK
  <1>4. IssuedLeft
    BY <1>1 DEF IssuedLeft, NoRequest
  <1>5. LoopIdle
    BY <1>1 DEF LoopIdle, Pending, Requesters
  <1>6. Since(0)
    BY <1>1, <1>2, <1>5 DEF Since, Timing, ValidAtLook, LeftAtLook
  <1>. QED  BY <1>2, <1>3, <1>4, <1>6 DEF KeysInv

\* A key that was not refreshed too often in vain is valid, also during the round
\* or the gap under way.
LEMMA KeysSurvive == KeysInv => KeysSurviveFailures
  <1>. SUFFICES ASSUME KeysInv, NEW t \in DOMAIN failures, failures[t] <= Retries
                PROVE  t \in DOMAIN keys /\ keys[t] + 0 > 0
    BY DEF KeysSurviveFailures, HasValidKey
  <1> DEFINE f == failures[t]
  <1>1. KeysTypeOK /\ f \in Nat /\ f <= Retries
    BY NumberType DEF KeysInv
  <1>2. PICK e \in 0..Gap : Since(e)
    BY DEF KeysInv
  <1>3. /\ e \in Nat /\ e <= Gap /\ Gap \in Nat /\ Round \in Nat /\ RefreshLeft \in Int
        /\ MaxDelay \in Nat
    BY <1>2, Lengths, KeyAssumption
  <1>4. /\ Gap * f \in Int /\ Gap * (f + 1) \in Int
        /\ Gap * (f + 1) = Gap * f + Gap
        /\ RefreshLeft - Gap * (f + 1) >= Round
    BY <1>1, LastQuarter
  <1>5. t \in DOMAIN keys /\ keys[t] \in Int
    BY <1>1, <1>2, NumberType DEF Since, LeftAtLook
  <1>6. CASE Refreshing(t)
    <2>1. keys[t] + e > RefreshLeft - Gap * (f + 1)
      BY <1>1, <1>2, <1>6 DEF Since, LeftAtLook
    <2>2. e <= Spent
      BY <1>2, <1>6 DEF Since, Timing, LoopIdle, Refreshing
    <2>3. Budget(needs_refresh) \in Int /\ Budget(needs_refresh) <= Round
      BY <1>1, BudgetRange DEF KeysTypeOK
    <2>4. request["loop"].waited \in 0..MaxDelay
      BY <1>1, RequestType DEF Requesters
    <2>5. e <= Round
      <3>1. CASE Pending("loop")
        <4>1. Spent = Budget(needs_refresh) - MaxDelay + request["loop"].waited
          BY <3>1 DEF Spent
        <4>. QED  BY <1>3, <2>2, <2>3, <2>4, <4>1
      <3>2. CASE ~Pending("loop")
        <4>1. Spent = Budget(needs_refresh)
          BY <3>2 DEF Spent
        <4>. QED  BY <1>3, <2>2, <2>3, <4>1
      <3>. QED  BY <3>1, <3>2
    <2>. HIDE DEF f
    <2>. QED  BY <1>3, <1>4, <1>5, <2>1, <2>5
  <1>7. CASE ~Refreshing(t)
    <2>1. keys[t] + e > RefreshLeft - Gap * f
      BY <1>1, <1>2, <1>7 DEF Since, LeftAtLook
    <2>. HIDE DEF f
    <2>. QED  BY <1>3, <1>4, <1>5, <2>1
  <1>. QED  BY <1>6, <1>7

---------------------------------------------------------------------------
(* The schedule task and the connections. *)

\* A VM whose request was answered stays so.
LEMMA KeyedKept ==
    ASSUME NEW c, Keyed(c), launched'[c] = launched[c], refused \subseteq refused',
           DOMAIN failures \subseteq DOMAIN failures'
    PROVE  Keyed(c)'
  BY DEF Keyed

\* A step of the keys: the connections do not notice, and the boot's request is
\* over only with a key, or with a refusal.
LEMMA KeysStep ==
    ASSUME TypeOK, SessionInv, KeysTypeOK', UNCHANGED sessionVars,
           DOMAIN failures \subseteq DOMAIN failures',
           Pending("boot")' => Pending("boot") /\ request'["boot"].target = request["boot"].target,
           Pending("boot") /\ ~Pending("boot")' => request["boot"].target \in DOMAIN failures'
    PROVE  TypeOK' /\ SessionInv'
  <1>1. /\ task' = task /\ vms' = vms /\ boot_measurements' = boot_measurements
        /\ workload_contexts' = workload_contexts /\ session' = session
        /\ launched' = launched /\ refused' = refused /\ pushed' = pushed
    BY DEF sessionVars
  <1>2. TypeOK'
    BY <1>1 DEF TypeOK
  <1>3. ASSUME NEW c, Keyed(c)  PROVE Keyed(c)'
    BY <1>1, <1>3 DEF Keyed
  <1>4. RegisteredAsLaunched'
    BY <1>1 DEF SessionInv, RegisteredAsLaunched
  <1>5. VmsKeyed'
    BY <1>1, <1>3 DEF SessionInv, VmsKeyed
  <1>6. SessionProgress'
    <2>. SUFFICES ASSUME NEW s \in Sessions  PROVE SessionOK(s)'
      BY DEF SessionProgress
    <2>1. SessionOK(s)
      BY DEF SessionInv, SessionProgress
    <2>. QED  BY <1>1, <1>3, <2>1 DEF SessionOK, At, Proven
  <1>7. TaskProgress'
    <2>1. TaskProgress
      BY DEF SessionInv
    <2>2. Pending("boot")' => TaskAt("key")'
      BY <1>1, <2>1 DEF TaskProgress, TaskAt
    <2>3. ASSUME TaskAt("key")
          PROVE  /\ task.cid \in Cids /\ launched[task.cid] # Nobody
                 /\ IF Pending("boot")' THEN request'["boot"].target = task.workload
                                        ELSE Keyed(task.cid)'
      <3>1. /\ task.cid \in Cids /\ launched[task.cid] # Nobody
            /\ IF Pending("boot") THEN request["boot"].target = task.workload
                                  ELSE Keyed(task.cid)
            /\ task.workload = launched[task.cid]
        BY <2>1, <2>3 DEF TaskProgress, TaskAt
      <3>2. CASE Pending("boot")'
        BY <3>1, <3>2
      <3>3. CASE ~Pending("boot")' /\ Pending("boot")
        <4>1. launched[task.cid] \in DOMAIN failures'
          BY <3>1, <3>3
        <4>2. Keyed(task.cid)'
          BY <1>1, <3>1, <4>1 DEF Keyed
        <4>. QED  BY <3>1, <3>3, <4>2
      <3>4. CASE ~Pending("boot")' /\ ~Pending("boot")
        <4>1. Keyed(task.cid)
          BY <3>1, <3>4
        <4>2. Keyed(task.cid)'
          BY <1>1, <4>1 DEF Keyed
        <4>. QED  BY <3>1, <3>4, <4>2
      <3>. QED  BY <3>1, <3>2, <3>3, <3>4
    <2>. QED  BY <1>1, <1>3, <2>1, <2>2, <2>3 DEF TaskProgress, TaskAt
  <1>. QED  BY <1>2, <1>4, <1>5, <1>6, <1>7 DEF SessionInv

\* A step of the schedule task that neither boots a VM nor touches the keys: what
\* has to be shown is about the task, the registrations and the VMs.
LEMMA TaskStep ==
    ASSUME TypeOK, KeysInv, SessionInv,
           UNCHANGED <<keyVars, session, launched, refused, pushed>>,
           task' \in TaskType,
           vms' \subseteq Cids,
           boot_measurements' \in [Cids -> Targets \cup {Nobody}],
           workload_contexts' \in [Cids -> Targets \cup {Nobody}],
           RegisteredAsLaunched', TaskProgress', VmsKeyed'
    PROVE  IInv'
  <1>1. /\ session' = session /\ launched' = launched /\ refused' = refused
        /\ pushed' = pushed /\ failures' = failures /\ UNCHANGED keyVars
    BY DEF keyVars
  <1>2. KeysInv'
    BY <1>1, SameKeys
  <1>3. TypeOK'
    <2>1. KeysTypeOK'
      BY <1>2 DEF KeysInv
    <2>. QED  BY <1>1, <2>1 DEF TypeOK, TaskType
  <1>4. SessionProgress'
    <2>. SUFFICES ASSUME NEW s \in Sessions  PROVE SessionOK(s)'
      BY DEF SessionProgress
    <2>1. SessionOK(s)
      BY DEF SessionInv, SessionProgress
    <2>. QED  BY <1>1, <2>1 DEF SessionOK, At, Proven, Keyed
  <1>. QED  BY <1>2, <1>3, <1>4 DEF IInv, SessionInv

\* The answer, or the refusal, was awaited.
LEMMA KeyAwaitedStep ==
    ASSUME IInv, KeyAwaited
    PROVE  IInv'
  <1>1. /\ TypeOK /\ KeysInv /\ SessionInv /\ task \in TaskType
        /\ TaskAt("key") /\ ~Pending("boot")
        /\ task' = [task EXCEPT !.step = "measurement"]
        /\ UNCHANGED <<keyVars, session, launched, refused, pushed>>
        /\ UNCHANGED <<vms, boot_measurements, workload_contexts>>
    BY DEF IInv, KeyAwaited, TypeOK, TaskType
  <1>2. /\ task' \in TaskType
        /\ task'.step = "measurement" /\ task'.cid = task.cid /\ task'.workload = task.workload
    BY <1>1 DEF TaskType
  <1>3. request' = request /\ failures' = failures /\ launched' = launched /\ refused' = refused
    BY <1>1 DEF keyVars
  <1>4. /\ Keyed(task.cid) /\ task.workload = launched[task.cid]
    BY <1>1 DEF SessionInv, TaskProgress, TaskAt
  <1>5. TaskProgress'
    BY <1>1, <1>2, <1>3, <1>4 DEF TaskProgress, TaskAt, Pending, Keyed
  <1>6. RegisteredAsLaunched' /\ VmsKeyed'
    BY <1>1, <1>3 DEF SessionInv, RegisteredAsLaunched, VmsKeyed, Keyed
  <1>7. /\ vms' \subseteq Cids
        /\ boot_measurements' \in [Cids -> Targets \cup {Nobody}]
        /\ workload_contexts' \in [Cids -> Targets \cup {Nobody}]
    BY <1>1 DEF TypeOK
  <1>. QED  BY <1>1, <1>2, <1>5, <1>6, <1>7, TaskStep

\* The measurement registered is that of the VM booted.
LEMMA RegisterBootMeasurementStep ==
    ASSUME IInv, RegisterBootMeasurement
    PROVE  IInv'
  <1>1. /\ TypeOK /\ KeysInv /\ SessionInv /\ task \in TaskType
        /\ TaskAt("measurement")
        /\ boot_measurements' = [boot_measurements EXCEPT ![task.cid] = task.workload]
        /\ task' = [task EXCEPT !.step = "context"]
        /\ UNCHANGED <<keyVars, session, launched, refused, pushed>>
        /\ UNCHANGED <<vms, workload_contexts>>
    BY DEF IInv, RegisterBootMeasurement, TypeOK, TaskType
  <1>2. /\ task' \in TaskType
        /\ task'.step = "context" /\ task'.cid = task.cid /\ task'.workload = task.workload
    BY <1>1 DEF TaskType
  <1>3. request' = request /\ failures' = failures /\ launched' = launched /\ refused' = refused
    BY <1>1 DEF keyVars
  <1>4. /\ Keyed(task.cid) /\ task.workload = launched[task.cid] /\ ~Pending("boot")
    BY <1>1 DEF SessionInv, TaskProgress, TaskAt
  <1>5. TaskProgress'
    BY <1>1, <1>2, <1>3, <1>4 DEF TaskProgress, TaskAt, Pending, Keyed
  <1>6. /\ vms' \subseteq Cids
        /\ boot_measurements' \in [Cids -> Targets \cup {Nobody}]
        /\ workload_contexts' \in [Cids -> Targets \cup {Nobody}]
    BY <1>1 DEF TypeOK, TaskType
  <1>7. RegisteredAsLaunched'
    BY <1>1, <1>3, <1>4 DEF SessionInv, RegisteredAsLaunched, TypeOK
  <1>8. VmsKeyed'
    BY <1>1, <1>3 DEF SessionInv, VmsKeyed, Keyed
  <1>. QED  BY <1>1, <1>2, <1>5, <1>6, <1>7, <1>8, TaskStep

\* The context registered is that of the VM booted.
LEMMA RegisterWorkloadContextStep ==
    ASSUME IInv, RegisterWorkloadContext
    PROVE  IInv'
  <1>1. /\ TypeOK /\ KeysInv /\ SessionInv /\ task \in TaskType
        /\ TaskAt("context")
        /\ workload_contexts' = [workload_contexts EXCEPT ![task.cid] = task.workload]
        /\ task' = [task EXCEPT !.step = "launch"]
        /\ UNCHANGED <<keyVars, session, launched, refused, pushed>>
        /\ UNCHANGED <<vms, boot_measurements>>
    BY DEF IInv, RegisterWorkloadContext, TypeOK, TaskType
  <1>2. /\ task' \in TaskType
        /\ task'.step = "launch" /\ task'.cid = task.cid /\ task'.workload = task.workload
    BY <1>1 DEF TaskType
  <1>3. request' = request /\ failures' = failures /\ launched' = launched /\ refused' = refused
    BY <1>1 DEF keyVars
  <1>4. /\ Keyed(task.cid) /\ task.workload = launched[task.cid] /\ ~Pending("boot")
    BY <1>1 DEF SessionInv, TaskProgress, TaskAt
  <1>5. TaskProgress'
    BY <1>1, <1>2, <1>3, <1>4 DEF TaskProgress, TaskAt, Pending, Keyed
  <1>6. /\ vms' \subseteq Cids
        /\ boot_measurements' \in [Cids -> Targets \cup {Nobody}]
        /\ workload_contexts' \in [Cids -> Targets \cup {Nobody}]
    BY <1>1 DEF TypeOK, TaskType
  <1>7. RegisteredAsLaunched'
    BY <1>1, <1>3, <1>4 DEF SessionInv, RegisteredAsLaunched, TypeOK
  <1>8. VmsKeyed'
    BY <1>1, <1>3 DEF SessionInv, VmsKeyed, Keyed
  <1>. QED  BY <1>1, <1>2, <1>5, <1>6, <1>7, <1>8, TaskStep

\* The VM runs only now, after its key was asked for and awaited.
LEMMA LaunchStep ==
    ASSUME IInv, Launch
    PROVE  IInv'
  <1>1. /\ TypeOK /\ KeysInv /\ SessionInv /\ task \in TaskType
        /\ TaskAt("launch")
        /\ vms' = vms \cup {task.cid}
        /\ task' = Idle
        /\ UNCHANGED <<keyVars, session, launched, refused, pushed>>
        /\ UNCHANGED <<boot_measurements, workload_contexts>>
    BY DEF IInv, Launch, TypeOK, TaskType
  <1>2. task' \in TaskType /\ task'.step = "idle"
    BY <1>1 DEF TaskType, Idle
  <1>3. request' = request /\ failures' = failures /\ launched' = launched /\ refused' = refused
    BY <1>1 DEF keyVars
  <1>4. Keyed(task.cid) /\ ~Pending("boot")
    BY <1>1 DEF SessionInv, TaskProgress, TaskAt
  <1>5. TaskProgress'
    BY <1>2, <1>3, <1>4 DEF TaskProgress, TaskAt, Pending
  <1>6. VmsKeyed'
    BY <1>1, <1>3, <1>4 DEF SessionInv, VmsKeyed, Keyed
  <1>7. /\ vms' \subseteq Cids
        /\ boot_measurements' \in [Cids -> Targets \cup {Nobody}]
        /\ workload_contexts' \in [Cids -> Targets \cup {Nobody}]
    BY <1>1, <1>4 DEF TypeOK, Keyed
  <1>8. RegisteredAsLaunched'
    BY <1>1, <1>3 DEF SessionInv, RegisteredAsLaunched
  <1>. QED  BY <1>1, <1>2, <1>5, <1>6, <1>7, <1>8, TaskStep

\* A failed boot or an eviction takes the registrations back, the VM running or not.
LEMMA UnregisterBootMeasurementStep ==
    ASSUME IInv, NEW c \in Cids, UnregisterBootMeasurement(c)
    PROVE  IInv'
  <1>1. /\ TypeOK /\ KeysInv /\ SessionInv /\ task \in TaskType
        /\ \/ task.step \in {"measurement", "launch"} /\ c = task.cid
           \/ TaskAt("idle") /\ c \in vms /\ boot_measurements[c] # Nobody
        /\ vms' \in {vms \ {c}, IF TaskAt("measurement") THEN vms ELSE vms \cup {c}}
        /\ boot_measurements' = [boot_measurements EXCEPT ![c] = Nobody]
        /\ task' = [step |-> "unregister", cid |-> c, workload |-> Nobody]
        /\ UNCHANGED <<keyVars, session, launched, refused, pushed>>
        /\ UNCHANGED workload_contexts
    BY DEF IInv, UnregisterBootMeasurement, TypeOK, TaskType
  <1>2. task' \in TaskType /\ task'.step = "unregister" /\ task'.cid = c
    BY <1>1 DEF TaskType
  <1>3. request' = request /\ failures' = failures /\ launched' = launched /\ refused' = refused
    BY <1>1 DEF keyVars
  <1>4. Keyed(c) /\ ~Pending("boot")
    BY <1>1 DEF SessionInv, TaskProgress, VmsKeyed, TaskAt
  <1>5. TaskProgress'
    BY <1>2, <1>3, <1>4 DEF TaskProgress, TaskAt, Pending, Keyed
  <1>6. vms' \subseteq vms \cup {c}
    BY <1>1
  <1>7. VmsKeyed'
    BY <1>1, <1>3, <1>4, <1>6 DEF SessionInv, VmsKeyed, Keyed
  <1>8. /\ vms' \subseteq Cids
        /\ boot_measurements' \in [Cids -> Targets \cup {Nobody}]
        /\ workload_contexts' \in [Cids -> Targets \cup {Nobody}]
    BY <1>1, <1>6 DEF TypeOK
  <1>9. RegisteredAsLaunched'
    BY <1>1, <1>3 DEF SessionInv, RegisteredAsLaunched, TypeOK
  <1>. QED  BY <1>1, <1>2, <1>5, <1>7, <1>8, <1>9, TaskStep

\* The second registration is taken back.
LEMMA UnregisterWorkloadContextStep ==
    ASSUME IInv, UnregisterWorkloadContext
    PROVE  IInv'
  <1>1. /\ TypeOK /\ KeysInv /\ SessionInv /\ task \in TaskType
        /\ TaskAt("unregister")
        /\ workload_contexts' = [workload_contexts EXCEPT ![task.cid] = Nobody]
        /\ task' = Idle
        /\ UNCHANGED <<keyVars, session, launched, refused, pushed>>
        /\ UNCHANGED <<vms, boot_measurements>>
    BY DEF IInv, UnregisterWorkloadContext, TypeOK, TaskType
  <1>2. task' \in TaskType /\ task'.step = "idle"
    BY <1>1 DEF TaskType, Idle
  <1>3. request' = request /\ failures' = failures /\ launched' = launched /\ refused' = refused
    BY <1>1 DEF keyVars
  <1>4. Keyed(task.cid) /\ ~Pending("boot")
    BY <1>1 DEF SessionInv, TaskProgress, TaskAt
  <1>5. TaskProgress'
    BY <1>2, <1>3, <1>4 DEF TaskProgress, TaskAt, Pending
  <1>6. VmsKeyed'
    BY <1>1, <1>3 DEF SessionInv, VmsKeyed, Keyed
  <1>7. /\ vms' \subseteq Cids
        /\ boot_measurements' \in [Cids -> Targets \cup {Nobody}]
        /\ workload_contexts' \in [Cids -> Targets \cup {Nobody}]
    BY <1>1 DEF TypeOK
  <1>8. RegisteredAsLaunched'
    BY <1>1, <1>3 DEF SessionInv, RegisteredAsLaunched, TypeOK
  <1>. QED  BY <1>1, <1>2, <1>5, <1>6, <1>7, <1>8, TaskStep

\* A boot takes a CID no VM was booted with, and asks for a key.
LEMMA BootPodStep ==
    ASSUME IInv, NEW c \in Cids, NEW w \in Targets, BootPod(c, w)
    PROVE  IInv'
  <1>1. /\ TypeOK /\ KeysInv /\ SessionInv
        /\ TaskAt("idle") /\ c \notin Booted
        /\ Ask("boot", w)
        /\ task' = [step |-> "key", cid |-> c, workload |-> w]
        /\ launched' = [launched EXCEPT ![c] = w]
        /\ UNCHANGED <<keys, next_check, needs_refresh, failures>>
        /\ vms' = vms /\ boot_measurements' = boot_measurements
        /\ workload_contexts' = workload_contexts /\ session' = session
        /\ refused' = refused /\ pushed' = pushed
    BY DEF IInv, BootPod, NextCid
  <1>2. launched \in [Cids -> Targets \cup {Nobody}] /\ launched[c] = Nobody
    BY <1>1 DEF TypeOK, Booted
  <1>3. KeysInv'
    BY <1>1, BootAskKeys
  <1>4. TypeOK'
    <2>1. KeysTypeOK'
      BY <1>3 DEF KeysInv
    <2>2. task' \in TaskType
      BY <1>1 DEF TaskType
    <2>3. launched' \in [Cids -> Targets \cup {Nobody}]
      BY <1>1, <1>2
    <2>. QED  BY <1>1, <2>1, <2>2, <2>3 DEF TypeOK, TaskType
  <1>5. w # Nobody
    BY KeyAssumption
  <1>6. ASSUME NEW d, Keyed(d)  PROVE Keyed(d)' /\ launched'[d] = launched[d]
    BY <1>1, <1>2, <1>6 DEF Keyed
  <1>7. RegisteredAsLaunched'
    <2>. SUFFICES ASSUME NEW d \in Cids
                  PROVE  /\ boot_measurements[d] \in {Nobody, launched'[d]}
                         /\ workload_contexts[d] \in {Nobody, launched'[d]}
      BY <1>1 DEF RegisteredAsLaunched
    <2>1. /\ boot_measurements[d] \in {Nobody, launched[d]}
          /\ workload_contexts[d] \in {Nobody, launched[d]}
      BY <1>1 DEF SessionInv, RegisteredAsLaunched
    <2>2. CASE d = c  BY <1>2, <2>1, <2>2
    <2>3. CASE d # c  BY <1>1, <1>2, <2>1, <2>3
    <2>. QED  BY <2>2, <2>3
  <1>8. TaskProgress'
    <2>1. /\ task'.step = "key" /\ task'.cid = c /\ task'.workload = w
          /\ launched'[c] = w
      BY <1>1, <1>2
    <2>2. Pending("boot")' /\ request'["boot"].target = w
      <3>1. request \in [Requesters -> Request \cup {NoRequest}]
        BY <1>1 DEF KeysInv, KeysTypeOK
      <3>. QED  BY <1>1, <3>1 DEF Ask, Pending, NoRequest, Requesters
    <2>. QED  BY <1>5, <2>1, <2>2 DEF TaskProgress, TaskAt
  <1>9. VmsKeyed'
    BY <1>1, <1>6 DEF SessionInv, VmsKeyed
  <1>10. SessionProgress'
    <2>. SUFFICES ASSUME NEW s \in Sessions  PROVE SessionOK(s)'
      BY DEF SessionProgress
    <2>1. SessionOK(s)
      BY <1>1 DEF SessionInv, SessionProgress
    <2>2. CASE At(s, "free")
      BY <1>1, <2>1, <2>2 DEF SessionOK, At
    <2>3. CASE ~At(s, "free")
      <3>1. Keyed(session[s].cid)
        BY <2>1, <2>3 DEF SessionOK
      <3>2. Keyed(session[s].cid)' /\ launched'[session[s].cid] = launched[session[s].cid]
        BY <1>1, <1>2, <3>1 DEF Keyed
      <3>. QED  BY <1>1, <2>1, <3>2 DEF SessionOK, At, Proven
    <2>. QED  BY <2>2, <2>3
  <1>. QED  BY <1>3, <1>4, <1>7, <1>8, <1>9, <1>10 DEF IInv, SessionInv

\* The request made at the boot fails: the CID is known as refused.
LEMMA KeyRefusedStep ==
    ASSUME IInv, KeyRefused
    PROVE  IInv'
  <1>1. /\ TypeOK /\ KeysInv /\ SessionInv
        /\ RequestFails("boot") /\ Pending("boot")
        /\ refused' = refused \cup {task.cid}
        /\ task' = task /\ vms' = vms /\ boot_measurements' = boot_measurements
        /\ workload_contexts' = workload_contexts /\ session' = session
        /\ launched' = launched /\ pushed' = pushed
    BY DEF IInv, KeyRefused, RequestFails
  <1>2. failures' = failures
    BY <1>1 DEF RequestFails
  <1>3. KeysInv'
    BY <1>1, RequestFailsKeys DEF Requesters
  <1>4. TaskAt("key") /\ task.cid \in Cids /\ launched[task.cid] # Nobody
        /\ task.workload = launched[task.cid]
    BY <1>1 DEF SessionInv, TaskProgress, TaskAt
  <1>5. TypeOK'
    <2>1. KeysTypeOK'
      BY <1>3 DEF KeysInv
    <2>. QED  BY <1>1, <1>4, <2>1 DEF TypeOK
  <1>6. ASSUME NEW d, Keyed(d)  PROVE Keyed(d)'
    BY <1>1, <1>2, <1>6 DEF Keyed
  <1>7. Keyed(task.cid)'
    BY <1>1, <1>4 DEF Keyed
  <1>8. RegisteredAsLaunched'
    BY <1>1 DEF SessionInv, RegisteredAsLaunched
  <1>9. TaskProgress'
    <2>1. ~Pending("boot")'
      <3>1. /\ request \in [Requesters -> Request \cup {NoRequest}]
            /\ request' = [request EXCEPT !["boot"] = NoRequest]
        BY <1>1 DEF KeysInv, KeysTypeOK, RequestFails
      <3>. QED  BY <3>1 DEF Pending, Requesters
    <2>. QED  BY <1>1, <1>4, <1>7, <2>1 DEF TaskProgress, TaskAt
  <1>10. VmsKeyed'
    BY <1>1, <1>6 DEF SessionInv, VmsKeyed
  <1>11. SessionProgress'
    <2>. SUFFICES ASSUME NEW s \in Sessions  PROVE SessionOK(s)'
      BY DEF SessionProgress
    <2>1. SessionOK(s)
      BY <1>1 DEF SessionInv, SessionProgress
    <2>2. ~At(s, "free") => Keyed(session[s].cid)'
      BY <1>1, <1>2, <2>1 DEF SessionOK, Keyed
    <2>. QED  BY <1>1, <2>1, <2>2 DEF SessionOK, At, Proven
  <1>. QED  BY <1>3, <1>5, <1>8, <1>9, <1>10, <1>11 DEF IInv, SessionInv

---------------------------------------------------------------------------
(* The connections. *)

\* What the updates of a session's record give: its place ...
LEMMA PcRecord ==
    ASSUME NEW q \in SessionType, NEW x
    PROVE  [q EXCEPT !.pc = x] = Session(x, q.cid, q.proof, q.workload, q.ago)
  BY DEF SessionType, Session

\* ... its age ...
LEMMA AgoRecord ==
    ASSUME NEW q \in SessionType, NEW y
    PROVE  [q EXCEPT !.ago = y] = Session(q.pc, q.cid, q.proof, q.workload, y)
  BY DEF SessionType, Session

\* ... its place and its proof ...
LEMMA ProofRecord ==
    ASSUME NEW q \in SessionType, NEW x, NEW y
    PROVE  [q EXCEPT !.pc = x, !.proof = y] = Session(x, q.cid, y, q.workload, q.ago)
  <1> DEFINE z == [q EXCEPT !.pc = x]
  <1>1. z = Session(x, q.cid, q.proof, q.workload, q.ago)
    BY PcRecord
  <1>2. [q EXCEPT !.pc = x, !.proof = y] = [z EXCEPT !.proof = y]
    OBVIOUS
  <1>3. [z EXCEPT !.proof = y] = Session(x, q.cid, y, q.workload, q.ago)
    <2>. HIDE DEF z
    <2>. QED  BY <1>1 DEF Session
  <1>. QED  BY <1>2, <1>3

\* ... its place and its workload ...
LEMMA ContextRecord ==
    ASSUME NEW q \in SessionType, NEW x, NEW y
    PROVE  [q EXCEPT !.pc = x, !.workload = y] = Session(x, q.cid, q.proof, y, q.ago)
  <1> DEFINE z == [q EXCEPT !.pc = x]
  <1>1. z = Session(x, q.cid, q.proof, q.workload, q.ago)
    BY PcRecord
  <1>2. [q EXCEPT !.pc = x, !.workload = y] = [z EXCEPT !.workload = y]
    OBVIOUS
  <1>3. [z EXCEPT !.workload = y] = Session(x, q.cid, q.proof, y, q.ago)
    <2>. HIDE DEF z
    <2>. QED  BY <1>1 DEF Session
  <1>. QED  BY <1>2, <1>3

\* ... its place and its age.
LEMMA SignRecord ==
    ASSUME NEW q \in SessionType, NEW x, NEW y
    PROVE  [q EXCEPT !.pc = x, !.ago = y] = Session(x, q.cid, q.proof, q.workload, y)
  <1> DEFINE z == [q EXCEPT !.pc = x]
  <1>1. z = Session(x, q.cid, q.proof, q.workload, q.ago)
    BY PcRecord
  <1>2. [q EXCEPT !.pc = x, !.ago = y] = [z EXCEPT !.ago = y]
    OBVIOUS
  <1>3. [z EXCEPT !.ago = y] = Session(x, q.cid, q.proof, q.workload, y)
    <2>. HIDE DEF z
    <2>. QED  BY <1>1 DEF Session
  <1>. QED  BY <1>2, <1>3

\* A step of one connection's thread: what has to be shown is about that thread.
LEMMA ConnectionStep ==
    ASSUME IInv, NEW s \in Sessions, NEW v \in SessionType, Becomes(s, v),
           pushed' \in [Sessions -> PushedType],
           \A q \in Sessions \ {s} : pushed'[q] = pushed[q],
           SessionOK(s)'
    PROVE  IInv'
  <1>1. /\ TypeOK /\ KeysInv /\ SessionInv
        /\ session' = [session EXCEPT ![s] = v] /\ UNCHANGED keyVars
        /\ task' = task /\ vms' = vms /\ boot_measurements' = boot_measurements
        /\ workload_contexts' = workload_contexts
        /\ launched' = launched /\ refused' = refused
    BY DEF IInv, Becomes
  <1>2. failures' = failures /\ request' = request
    BY <1>1 DEF keyVars
  <1>3. KeysInv'
    BY <1>1, SameKeys
  <1>4. session \in [Sessions -> SessionType]
    BY <1>1 DEF TypeOK, SessionType
  <1>5. TypeOK'
    <2>1. KeysTypeOK'
      BY <1>3 DEF KeysInv
    <2>2. session' \in [Sessions -> SessionType]
      BY <1>1, <1>4
    <2>. QED  BY <1>1, <2>1, <2>2 DEF TypeOK, SessionType, PushedType
  <1>6. RegisteredAsLaunched' /\ VmsKeyed'
    BY <1>1, <1>2 DEF SessionInv, RegisteredAsLaunched, VmsKeyed, Keyed
  <1>7. TaskProgress'
    BY <1>1, <1>2 DEF SessionInv, TaskProgress, TaskAt, Pending, Keyed
  <1>8. SessionProgress'
    <2>1. ASSUME NEW q \in Sessions, q # s  PROVE SessionOK(q)'
      <3>1. session'[q] = session[q] /\ pushed'[q] = pushed[q] /\ SessionOK(q)
        BY <1>1, <1>4, <2>1 DEF SessionInv, SessionProgress
      <3>. QED  BY <1>1, <1>2, <3>1 DEF SessionOK, At, Proven, Keyed
    <2>. QED  BY <2>1 DEF SessionProgress
  <1>. QED  BY <1>3, <1>5, <1>6, <1>7, <1>8 DEF IInv, SessionInv

\* A step of a thread that pushes nothing.
LEMMA QuietStep ==
    ASSUME IInv, NEW s \in Sessions, NEW v \in SessionType, Becomes(s, v), UNCHANGED pushed,
           ~At(s, "closed"), v.pc # "closed",
           v.pc # "free" => Keyed(v.cid),
           v.pc \in {"accepted", "key", "sign", "signed", "push"} =>
               /\ v.proof.nonce
               /\ Production => v.proof.type = "host" /\ v.proof.artifacts = launched[v.cid],
           v.pc \in {"key", "sign", "signed"} => v.workload = launched[v.cid],
           v.pc = "push" => v.workload \in {Nobody, launched[v.cid]}
    PROVE  IInv'
  <1>1. /\ session \in [Sessions -> SessionType] /\ pushed \in [Sessions -> PushedType]
        /\ SessionOK(s) /\ pushed' = pushed
    BY DEF IInv, TypeOK, SessionType, PushedType, SessionInv, SessionProgress
  <1>2. /\ session'[s] = v /\ launched' = launched /\ refused' = refused /\ failures' = failures
    BY <1>1 DEF Becomes, keyVars
  <1>3. pushed'[s] = NotPushed
    BY <1>1 DEF SessionOK
  <1>4. Proven(s)' <=> /\ v.proof.nonce
                       /\ Production => v.proof.type = "host" /\ v.proof.artifacts = launched[v.cid]
    BY <1>2 DEF Proven
  <1>5. v.pc # "free" => Keyed(session[s].cid)'
    BY <1>2 DEF Keyed
  <1>6. SessionOK(s)'
    BY <1>2, <1>3, <1>4, <1>5 DEF SessionOK, At
  <1>. QED  BY <1>1, <1>6, ConnectionStep

\* What the invariant says of one connection.
LEMMA SessionFacts ==
    ASSUME IInv, NEW s \in Sessions
    PROVE  /\ session[s] \in SessionType /\ SessionOK(s)
           /\ session[s].cid \in Cids \cup {NoCid} /\ session[s].ago \in 0..Gap
           /\ session[s].proof \in Proofs \cup {NoProof}
           /\ session[s].workload \in Targets \cup {Nobody}
  <1>1. session \in [Sessions -> SessionType] /\ SessionOK(s)
    BY DEF IInv, TypeOK, SessionType, SessionInv, SessionProgress
  <1>. QED  BY <1>1 DEF SessionType

\* A thread that gives up, or whose proof is refused.
LEMMA FreeStep ==
    ASSUME IInv, NEW s \in Sessions, ~At(s, "closed"), Becomes(s, Free), UNCHANGED pushed
    PROVE  IInv'
  <1>1. 0 \in 0..Gap
    BY Lengths
  <1>2. Free \in SessionType /\ Free.pc = "free"
    BY <1>1 DEF Free, Session, SessionType
  <1>. QED  BY <1>2, QuietStep

\* Only a VM that runs connects.
LEMMA ChallengeStep ==
    ASSUME IInv, NEW s \in Sessions, NEW c \in Cids, Challenge(s, c)
    PROVE  IInv'
  <1> DEFINE v == Session("challenged", c, NoProof, Nobody, 0)
  <1>1. 0 \in 0..Gap
    BY Lengths
  <1>2. v \in SessionType /\ v.pc = "challenged" /\ v.cid = c
    BY <1>1 DEF Session, SessionType
  <1>3. ~At(s, "closed") /\ Keyed(c) /\ Becomes(s, v) /\ UNCHANGED pushed
    BY DEF Challenge, At, IInv, SessionInv, VmsKeyed
  <1>. HIDE DEF v
  <1>. QED  BY <1>2, <1>3, QuietStep

\* The guest answers with anything.
LEMMA ReceiveProofStep ==
    ASSUME IInv, NEW s \in Sessions, NEW proof \in Proofs, ReceiveProof(s, proof)
    PROVE  IInv'
  <1> DEFINE q == session[s]
             v == Session("proved", q.cid, proof, q.workload, q.ago)
  <1>1. q \in SessionType /\ SessionOK(s)
    BY SessionFacts
  <1>2. v \in SessionType /\ v.pc = "proved" /\ v.cid = q.cid
    <2>1. /\ q.cid \in Cids \cup {NoCid} /\ q.workload \in Targets \cup {Nobody}
          /\ q.ago \in 0..Gap
      BY SessionFacts
    <2>. HIDE DEF q
    <2>. QED  BY <2>1 DEF Session, SessionType
  <1>3. At(s, "challenged") /\ UNCHANGED pushed
    BY DEF ReceiveProof
  <1>4. ~At(s, "closed") /\ Keyed(q.cid)
    BY <1>1, <1>3 DEF SessionOK, At
  <1>5. Becomes(s, v)
    BY <1>1, ProofRecord DEF ReceiveProof
  <1>. HIDE DEF v, q
  <1>. QED  BY <1>2, <1>3, <1>4, <1>5, QuietStep

\* A proof is accepted only with the nonce and, in production, the artifacts of
\* the VM that shows it.
LEMMA VerifyStep ==
    ASSUME IInv, NEW s \in Sessions, Verify(s)
    PROVE  IInv'
  <1> DEFINE q == session[s]
             v == Session("accepted", q.cid, q.proof, q.workload, q.ago)
  <1>1. q \in SessionType /\ SessionOK(s)
    BY SessionFacts
  <1>2. v \in SessionType /\ v.pc = "accepted" /\ v.cid = q.cid /\ v.proof = q.proof
    <2>1. /\ q.cid \in Cids \cup {NoCid} /\ q.proof \in Proofs \cup {NoProof}
          /\ q.workload \in Targets \cup {Nobody} /\ q.ago \in 0..Gap
      BY SessionFacts
    <2>. HIDE DEF q
    <2>. QED  BY <2>1 DEF Session, SessionType
  <1>3. At(s, "proved") /\ UNCHANGED pushed
    BY DEF Verify
  <1>4. ~At(s, "closed") /\ Keyed(q.cid)
    BY <1>1, <1>3 DEF SessionOK, At
  <1>5. CASE ~Verified(s)
    BY <1>3, <1>4, <1>5, FreeStep DEF Verify
  <1>6. CASE Verified(s)
    <2>1. Becomes(s, v)
      BY <1>1, <1>6, PcRecord DEF Verify
    <2>2. q.proof.nonce
      BY <1>6 DEF Verified, DevSoftware, HostMeasured, NonceBound
    <2>3. ASSUME Production
          PROVE  q.proof.type = "host" /\ q.proof.artifacts = launched[q.cid]
      <3>1. /\ q.proof.type = "host" /\ boot_measurements[q.cid] # Nobody
            /\ q.proof.artifacts = boot_measurements[q.cid]
        BY <1>6, <2>3 DEF Verified, DevSoftware, HostMeasured
      <3>2. boot_measurements[q.cid] \in {Nobody, launched[q.cid]}
        BY <1>4 DEF IInv, SessionInv, RegisteredAsLaunched, Keyed
      <3>. QED  BY <3>1, <3>2
    <2>. HIDE DEF v, q
    <2>. QED  BY <1>2, <1>3, <1>4, <2>1, <2>2, <2>3, QuietStep
  <1>. QED  BY <1>5, <1>6

\* The context read is that of the VM, or there is none any more.
LEMMA ReadContextStep ==
    ASSUME IInv, NEW s \in Sessions, ReadContext(s)
    PROVE  IInv'
  <1> DEFINE q == session[s]
             w == workload_contexts[q.cid]
             x == IF w = Nobody THEN "push" ELSE "key"
             v == Session(x, q.cid, q.proof, w, q.ago)
  <1>1. q \in SessionType /\ SessionOK(s)
    BY SessionFacts
  <1>2. At(s, "accepted") /\ UNCHANGED pushed
    BY DEF ReadContext
  <1>3. ~At(s, "closed") /\ Keyed(q.cid) /\ Proven(s)
    BY <1>1, <1>2 DEF SessionOK, At
  <1>4. w \in Targets \cup {Nobody} /\ w \in {Nobody, launched[q.cid]}
    BY <1>3 DEF IInv, TypeOK, SessionInv, RegisteredAsLaunched, Keyed
  <1>5. /\ v \in SessionType /\ v.pc = x /\ v.cid = q.cid /\ v.proof = q.proof
        /\ v.workload = w
    <2>1. /\ q.cid \in Cids \cup {NoCid} /\ q.proof \in Proofs \cup {NoProof}
          /\ q.ago \in 0..Gap
      BY SessionFacts
    <2>2. x \in {"push", "key"}
      OBVIOUS
    <2>. HIDE DEF q, w, x
    <2>. QED  BY <1>4, <2>1, <2>2 DEF Session, SessionType
  <1>6. Becomes(s, v)
    <2>1. Becomes(s, [q EXCEPT !.pc = x, !.workload = w])
      BY DEF ReadContext
    <2>. HIDE DEF q, w, x
    <2>. QED  BY <1>1, <2>1, ContextRecord
  <1>7. /\ q.proof.nonce
        /\ Production => q.proof.type = "host" /\ q.proof.artifacts = launched[q.cid]
    BY <1>3 DEF Proven
  <1>. HIDE DEF v, q
  <1>8. /\ v.pc \in {"key", "sign", "signed"} => v.workload = launched[v.cid]
        /\ v.pc = "push" => v.workload \in {Nobody, launched[v.cid]}
        /\ v.pc # "closed"
    BY <1>4, <1>5
  <1>. QED  BY <1>2, <1>3, <1>5, <1>6, <1>7, <1>8, QuietStep

\* The step of a thread that moves on with what it has read.
LEMMA MoveOn ==
    ASSUME IInv, NEW s \in Sessions, At(s, "key") \/ At(s, "sign"),
           NEW x \in {"sign", "signed", "push"}, NEW a \in 0..Gap,
           Becomes(s, Session(x, session[s].cid, session[s].proof, session[s].workload, a)),
           UNCHANGED pushed
    PROVE  IInv'
  <1> DEFINE q == session[s]
             v == Session(x, q.cid, q.proof, q.workload, a)
  <1>1. SessionOK(s)
    BY SessionFacts
  <1>2. ~At(s, "closed") /\ Keyed(q.cid) /\ Proven(s) /\ q.workload = launched[q.cid]
    BY <1>1 DEF SessionOK, At
  <1>3. /\ v \in SessionType /\ v.pc = x /\ v.cid = q.cid /\ v.proof = q.proof
        /\ v.workload = q.workload
    <2>1. /\ q.cid \in Cids \cup {NoCid} /\ q.proof \in Proofs \cup {NoProof}
          /\ q.workload \in Targets \cup {Nobody}
      BY SessionFacts
    <2>. HIDE DEF q
    <2>. QED  BY <2>1 DEF Session, SessionType
  <1>4. /\ q.proof.nonce
        /\ Production => q.proof.type = "host" /\ q.proof.artifacts = launched[q.cid]
    BY <1>2 DEF Proven
  <1>5. Becomes(s, v)
    OBVIOUS
  <1>. HIDE DEF v, q
  <1>6. v.pc # "closed"
    BY <1>3
  <1>. QED  BY <1>2, <1>3, <1>4, <1>5, <1>6, QuietStep

\* The first look at the key.
LEMMA CheckKeyStep ==
    ASSUME IInv, NEW s \in Sessions, CheckKey(s)
    PROVE  IInv'
  <1> DEFINE q == session[s]
             x == IF HasValidKey(q.workload, 0) THEN "sign" ELSE "push"
  <1>1. q \in SessionType /\ q.ago \in 0..Gap
    BY SessionFacts
  <1>2. At(s, "key") /\ UNCHANGED pushed /\ Becomes(s, [q EXCEPT !.pc = x])
    BY DEF CheckKey
  <1>3. x \in {"sign", "signed", "push"}
    OBVIOUS
  <1>4. Becomes(s, Session(x, q.cid, q.proof, q.workload, q.ago))
    <2>. HIDE DEF q, x
    <2>. QED  BY <1>1, <1>2, PcRecord
  <1>. HIDE DEF x
  <1>. QED  BY <1>1, <1>2, <1>3, <1>4, MoveOn

\* The second look at the key.
LEMMA SignStep ==
    ASSUME IInv, NEW s \in Sessions, Sign(s)
    PROVE  IInv'
  <1> DEFINE q == session[s]
             x == IF HasValidKey(q.workload, q.ago) THEN "signed" ELSE "push"
  <1>1. q \in SessionType /\ 0 \in 0..Gap
    BY SessionFacts, Lengths
  <1>2. At(s, "sign") /\ UNCHANGED pushed /\ Becomes(s, [q EXCEPT !.pc = x, !.ago = 0])
    BY DEF Sign
  <1>3. x \in {"sign", "signed", "push"}
    OBVIOUS
  <1>4. Becomes(s, Session(x, q.cid, q.proof, q.workload, 0))
    <2>. HIDE DEF q, x
    <2>. QED  BY <1>1, <1>2, SignRecord
  <1>. HIDE DEF x
  <1>. QED  BY <1>1, <1>2, <1>3, <1>4, MoveOn

\* The push: the settings of the VM's workload, or none and no SVID.
LEMMA PushStep ==
    ASSUME IInv, NEW s \in Sessions, Push(s)
    PROVE  IInv'
  <1> DEFINE q == session[s]
             v == Session("closed", q.cid, q.proof, q.workload, q.ago)
             g == At(s, "signed")
  <1>1. q \in SessionType /\ SessionOK(s)
    BY SessionFacts
  <1>2. /\ At(s, "push") \/ At(s, "signed")
        /\ Becomes(s, [q EXCEPT !.pc = "closed"])
        /\ pushed' = [pushed EXCEPT ![s] = [workload |-> q.workload, svid |-> g]]
    BY DEF Push
  <1>3. /\ Keyed(q.cid) /\ Proven(s)
        /\ q.workload \in {Nobody, launched[q.cid]}
        /\ g => q.workload = launched[q.cid]
    BY <1>1, <1>2 DEF SessionOK, At
  <1>4. /\ q.cid \in Cids \cup {NoCid} /\ q.proof \in Proofs \cup {NoProof}
        /\ q.workload \in Targets \cup {Nobody} /\ q.ago \in 0..Gap
    BY SessionFacts
  <1>5. v \in SessionType /\ v.pc = "closed" /\ v.cid = q.cid /\ v.proof = q.proof
    <2>. HIDE DEF q
    <2>. QED  BY <1>4 DEF Session, SessionType
  <1>6. Becomes(s, v)
    <2>. HIDE DEF q
    <2>. QED  BY <1>1, <1>2, PcRecord
  <1>7. /\ pushed \in [Sessions -> PushedType] /\ session \in [Sessions -> SessionType]
    BY DEF IInv, TypeOK, PushedType, SessionType
  <1>8. g \in BOOLEAN
    BY DEF At
  <1>9. /\ pushed'[s].workload = q.workload /\ pushed'[s].svid = g
        /\ \A r \in Sessions \ {s} : pushed'[r] = pushed[r]
    BY <1>2, <1>7
  <1>10. pushed' \in [Sessions -> PushedType]
    <2>1. [workload |-> q.workload, svid |-> g] \in PushedType
      <3>. HIDE DEF q, g
      <3>. QED  BY <1>4, <1>8 DEF PushedType
    <2>. QED  BY <1>2, <1>7, <2>1
  <1>11. /\ session'[s] = v /\ launched' = launched /\ refused' = refused
         /\ failures' = failures
    BY <1>6, <1>7 DEF Becomes, keyVars
  <1>12. q.workload = Nobody => ~g
    BY <1>3 DEF Keyed
  <1>13. SessionOK(s)'
    <2>1. Keyed(session[s].cid)'
      BY <1>3, <1>5, <1>11 DEF Keyed
    <2>2. Proven(s)'
      BY <1>3, <1>5, <1>11 DEF Proven
    <2>3. session'[s].pc = "closed" /\ session'[s].cid = q.cid
      BY <1>5, <1>11
    <2>4. /\ pushed'[s].workload \in {Nobody, launched'[session'[s].cid]}
          /\ pushed'[s].workload = Nobody => ~pushed'[s].svid
      BY <1>3, <1>9, <1>11, <1>12, <2>3
    <2>. QED  BY <2>1, <2>2, <2>3, <2>4 DEF SessionOK, At
  <1>. HIDE DEF v
  <1>. QED  BY <1>5, <1>6, <1>9, <1>10, <1>13, ConnectionStep

\* Time passes for the keys, the loop and the threads.
LEMMA TimeStep ==
    ASSUME IInv, Time
    PROVE  IInv'
  <1>1. /\ TypeOK /\ KeysInv /\ SessionInv /\ KeysTypeOK /\ Tick
        /\ session' = [s \in Sessions |->
               IF At(s, "sign") THEN [session[s] EXCEPT !.ago = Min({@ + 1, Gap})]
                                ELSE session[s]]
        /\ task' = task /\ vms' = vms /\ boot_measurements' = boot_measurements
        /\ workload_contexts' = workload_contexts
        /\ launched' = launched /\ refused' = refused /\ pushed' = pushed
        /\ failures' = failures
    BY DEF IInv, KeysInv, Time, Tick
  <1>2. KeysInv'
    BY <1>1, TickKeys
  <1>3. ASSUME NEW s \in Sessions
        PROVE  /\ session'[s] \in SessionType
               /\ session'[s].pc = session[s].pc /\ session'[s].cid = session[s].cid
               /\ session'[s].proof = session[s].proof
               /\ session'[s].workload = session[s].workload
    <2> DEFINE q == session[s]
               a == Min({q.ago + 1, Gap})
    <2>1. /\ q \in SessionType /\ q.cid \in Cids \cup {NoCid} /\ q.ago \in 0..Gap
          /\ q.proof \in Proofs \cup {NoProof} /\ q.workload \in Targets \cup {Nobody}
      BY SessionFacts
    <2>2. CASE At(s, "sign")
      <3>1. session'[s] = [q EXCEPT !.ago = a] /\ q.pc = "sign"
        BY <1>1, <2>2 DEF At
      <3>2. a \in 0..Gap
        <4>. HIDE DEF q
        <4>1. q.ago + 1 \in Int /\ Gap \in Int /\ q.ago + 1 >= 0 /\ Gap >= 0
          BY <2>1, Lengths
        <4>2. a \in {q.ago + 1, Gap} /\ a <= Gap
          BY <4>1, MinOfTwo
        <4>. QED  BY <4>1, <4>2
      <3>3. session'[s] = Session(q.pc, q.cid, q.proof, q.workload, a)
        <4>. HIDE DEF q, a
        <4>. QED  BY <2>1, <3>1, AgoRecord
      <3>. HIDE DEF q, a
      <3>4. session'[s] \in SessionType /\ session'[s].pc = q.pc /\ session'[s].cid = q.cid
            /\ session'[s].proof = q.proof /\ session'[s].workload = q.workload
        BY <2>1, <3>1, <3>2, <3>3 DEF Session, SessionType
      <3>. QED  BY <3>4 DEF q
    <2>3. CASE ~At(s, "sign")
      BY <1>1, <2>1, <2>3
    <2>. QED  BY <2>2, <2>3
  <1>4. TypeOK'
    <2>1. KeysTypeOK'
      BY <1>2 DEF KeysInv
    <2>2. session' = [s \in Sessions |-> session'[s]]
      BY <1>1
    <2>3. session' \in [Sessions -> SessionType]
      BY <1>3, <2>2
    <2>. QED  BY <1>1, <2>1, <2>3 DEF TypeOK, SessionType
  <1>5. RegisteredAsLaunched' /\ VmsKeyed'
    BY <1>1 DEF SessionInv, RegisteredAsLaunched, VmsKeyed, Keyed
  <1>6. TaskProgress'
    <2>1. (Pending("boot")' <=> Pending("boot")) /\ request'["boot"].target = request["boot"].target
      BY <1>1, TickRequests DEF Requesters
    <2>2. \A c : Keyed(c)' <=> Keyed(c)
      BY <1>1 DEF Keyed
    <2>3. Keyed(task.cid)' <=> Keyed(task.cid)
      BY <1>1 DEF Keyed
    <2>. QED  BY <1>1, <2>1, <2>3 DEF SessionInv, TaskProgress, TaskAt
  <1>7. SessionProgress'
    <2>. SUFFICES ASSUME NEW s \in Sessions  PROVE SessionOK(s)'
      BY DEF SessionProgress
    <2>1. SessionOK(s)
      BY <1>1 DEF SessionInv, SessionProgress
    <2>2. /\ session'[s].pc = session[s].pc /\ session'[s].cid = session[s].cid
          /\ session'[s].proof = session[s].proof
          /\ session'[s].workload = session[s].workload
      BY <1>3
    <2>3. Keyed(session[s].cid)' <=> Keyed(session[s].cid)
      BY <1>1, <2>2 DEF Keyed
    <2>4. Proven(s)' <=> Proven(s)
      BY <1>1, <2>2 DEF Proven
    <2>. QED  BY <1>1, <2>1, <2>2, <2>3, <2>4 DEF SessionOK, At
  <1>. QED  BY <1>2, <1>4, <1>5, <1>6, <1>7 DEF IInv, SessionInv

---------------------------------------------------------------------------
(* The invariant holds. *)

\* It holds when the agent starts, without keys, VMs and connections.
LEMMA InitInvariant == Init => IInv
  <1>. SUFFICES ASSUME Init  PROVE IInv
    OBVIOUS
  <1>1. KeysInv
    BY InitKeys DEF Init
  <1>2. TypeOK
    <2>1. 0 \in 0..Gap /\ KeysTypeOK
      BY <1>1, Lengths DEF KeysInv
    <2>2. Free \in SessionType /\ Idle \in TaskType /\ NotPushed \in PushedType
      BY <2>1 DEF Free, Session, SessionType, Idle, TaskType, NotPushed, PushedType
    <2>. QED  BY <2>1, <2>2 DEF Init, TypeOK, SessionType, TaskType, PushedType
  <1>3. ~Pending("boot")
    BY DEF Init, KeysInit, Pending, Requesters
  <1>4. RegisteredAsLaunched /\ TaskProgress /\ VmsKeyed
    BY <1>3 DEF Init, RegisteredAsLaunched, TaskProgress, VmsKeyed, TaskAt, Idle
  <1>5. SessionProgress
    BY DEF Init, SessionProgress, SessionOK, At, Free, Session
  <1>. QED  BY <1>1, <1>2, <1>4, <1>5 DEF IInv, SessionInv

\* Every step of the keys, the schedule task and the connections preserves it.
LEMMA NextInvariant == IInv /\ [Next]_vars => IInv'
  <1>. SUFFICES ASSUME IInv, [Next]_vars  PROVE IInv'
    OBVIOUS
  <1>. USE DEF IInv
  <1>0. TypeOK /\ KeysInv /\ SessionInv /\ KeysTypeOK
        /\ request \in [Requesters -> Request \cup {NoRequest}]
    BY DEF KeysInv, KeysTypeOK
  <1>1. ASSUME NEW r \in Requesters, Issue(r), UNCHANGED sessionVars  PROVE IInv'
    <2>1. KeysInv' /\ KeysTypeOK' /\ failures' = failures
      BY <1>0, <1>1, IssueKeys DEF KeysInv, Issue
    <2>2. (Pending("boot")' <=> Pending("boot")) /\ request'["boot"].target = request["boot"].target
      <3>1. request[r] \in Request /\ request[r].step = "asked"
        BY <1>0, <1>1, RequestType DEF Issue
      <3>2. request' = [request EXCEPT ![r] =
                [step |-> "issued", target |-> request[r].target, left |-> Ttl,
                 waited |-> request[r].waited]]
        BY <1>1, <3>1, IssuedRecord DEF Issue
      <3>. QED  BY <1>0, <3>1, <3>2 DEF Pending, NoRequest, Requesters
    <2>. QED  BY <1>0, <1>1, <2>1, <2>2, KeysStep
  <1>2. ASSUME NEW r \in Requesters, Install(r), UNCHANGED sessionVars  PROVE IInv'
    <2>1. KeysInv' /\ KeysTypeOK'
      BY <1>0, <1>2, InstallKeys DEF KeysInv
    <2>2. DOMAIN failures' = DOMAIN failures \cup {request[r].target}
      BY <1>2 DEF Install, Put
    <2>3. /\ Pending("boot")' =>
                 Pending("boot") /\ request'["boot"].target = request["boot"].target
          /\ Pending("boot") /\ ~Pending("boot")' => request["boot"].target \in DOMAIN failures'
      BY <1>0, <1>2, <2>2 DEF Install, Pending, Requesters
    <2>. QED  BY <1>0, <1>2, <2>1, <2>2, <2>3, KeysStep
  <1>3. ASSUME RequestFails("loop"), UNCHANGED sessionVars  PROVE IInv'
    <2>1. KeysInv' /\ KeysTypeOK'
      BY <1>0, <1>3, RequestFailsKeys DEF KeysInv, Requesters
    <2>2. DOMAIN failures' = DOMAIN failures /\ request'["boot"] = request["boot"]
      BY <1>0, <1>3 DEF RequestFails, Requesters
    <2>. QED  BY <1>0, <1>3, <2>1, <2>2, KeysStep DEF Pending
  <1>4. ASSUME Check, UNCHANGED sessionVars  PROVE IInv'
    <2>1. KeysInv' /\ KeysTypeOK' /\ failures' = failures /\ request' = request
      BY <1>0, <1>4, CheckKeys DEF KeysInv, Check
    <2>. QED  BY <1>0, <1>4, <2>1, KeysStep DEF Pending
  <1>5. ASSUME NEW t \in Targets, Refresh(t), UNCHANGED sessionVars  PROVE IInv'
    <2>1. KeysInv' /\ KeysTypeOK' /\ failures' = failures
      BY <1>0, <1>5, RefreshKeys DEF KeysInv, Refresh
    <2>2. request'["boot"] = request["boot"]
      BY <1>0, <1>5 DEF Refresh, Ask, Requesters
    <2>. QED  BY <1>0, <1>5, <2>1, <2>2, KeysStep DEF Pending
  <1>6. CASE KeyRefused
    BY <1>6, KeyRefusedStep
  <1>7. CASE Time
    BY <1>7, TimeStep
  <1>8. CASE Schedule
    BY <1>8, BootPodStep, KeyAwaitedStep, RegisterBootMeasurementStep,
       RegisterWorkloadContextStep, LaunchStep, UnregisterBootMeasurementStep,
       UnregisterWorkloadContextStep DEF Schedule
  <1>9. ASSUME NEW s \in Sessions, Connection(s)  PROVE IInv'
    <2>1. CASE Disconnect(s)
      BY <2>1, FreeStep DEF Disconnect, At
    <2>. QED  BY <1>9, <2>1, ChallengeStep, ReceiveProofStep, VerifyStep, ReadContextStep,
               CheckKeyStep, SignStep, PushStep DEF Connection
  <1>10. CASE UNCHANGED vars
    <2>1. UNCHANGED keyVars /\ UNCHANGED sessionVars
      BY <1>10 DEF vars
    <2>2. KeysInv' /\ KeysTypeOK' /\ failures' = failures /\ request' = request
      BY <1>0, <2>1, SameKeys DEF KeysInv, keyVars
    <2>. QED  BY <1>0, <2>1, <2>2, KeysStep DEF Pending
  <1>. QED  BY <1>1, <1>2, <1>3, <1>4, <1>5, <1>6, <1>7, <1>8, <1>9, <1>10 DEF Next

\* The inductive invariant holds in every state.
THEOREM InvariantHolds == Spec => []IInv
  <1>1. Init => IInv
    BY InitInvariant
  <1>2. IInv /\ [Next]_vars => IInv'
    BY NextInvariant
  <1>. QED  BY <1>1, <1>2, PTL DEF Spec

\* Every variable keeps its type: no key is in the map for longer than a gap after
\* it has expired, and the loop's timer is never more than a round late.
THEOREM TypeCorrect == Spec => []TypeOK
  <1>1. IInv => TypeOK
    BY DEF IInv
  <1>. QED  BY <1>1, InvariantHolds, PTL

\* For any lifetime of a key, period of the loop and longest request, and any
\* number of workloads: a workload that ever had a key has a valid one unless more
\* than Retries refreshes in a row have failed (run_delegation_refresh_loop,
\* prune_expired, request_and_install).
THEOREM KeysOutliveFailures == Spec => []KeysSurviveFailures
  <1>1. IInv => KeysSurviveFailures
    BY KeysSurvive DEF IInv
  <1>. QED  BY <1>1, InvariantHolds, PTL

\* A configuration goes only to the VM booted for its workload, over a connection
\* that has proved itself (handle_connection), whatever guests answer and however
\* boots and evictions run between the steps of a thread.
THEOREM PushesAreProven == Spec => []PushedToProven
  <1>1. IInv => PushedToProven
    <2>. SUFFICES ASSUME IInv, NEW s \in Sessions, Pushed(s)
                  PROVE  /\ session[s].proof.nonce
                         /\ pushed[s].workload = Nobody => ~pushed[s].svid
                         /\ pushed[s].workload # Nobody =>
                                pushed[s].workload = launched[session[s].cid]
                         /\ Production =>
                                /\ session[s].proof.type = "host"
                                /\ session[s].proof.artifacts = launched[session[s].cid]
      BY DEF PushedToProven
    <2>1. SessionOK(s)
      BY SessionFacts
    <2>2. At(s, "closed")
      BY <2>1 DEF SessionOK, Pushed
    <2>. QED  BY <2>1, <2>2 DEF SessionOK, At, Proven
  <1>. QED  BY <1>1, InvariantHolds, PTL

\* A thread signs if it finds a valid key.
LEMMA SignWith ==
    ASSUME IInv, NEW s \in Sessions, Sign(s)
    PROVE  session'[s].pc =
               IF HasValidKey(session[s].workload, session[s].ago) THEN "signed" ELSE "push"
  <1> DEFINE q == session[s]
             x == IF HasValidKey(q.workload, q.ago) THEN "signed" ELSE "push"
  <1>1. q \in SessionType /\ 0 \in 0..Gap
    BY SessionFacts, Lengths
  <1>2. At(s, "sign") /\ UNCHANGED pushed /\ Becomes(s, [q EXCEPT !.pc = x, !.ago = 0])
    BY DEF Sign
  <1>3. Becomes(s, Session(x, q.cid, q.proof, q.workload, 0))
    <2>. HIDE DEF q, x
    <2>. QED  BY <1>1, <1>2, SignRecord
  <1>4. session \in [Sessions -> SessionType]
    BY DEF IInv, TypeOK, SessionType
  <1>5. session'[s] = Session(x, q.cid, q.proof, q.workload, 0)
    BY <1>3, <1>4 DEF Becomes
  <1>6. session'[s].pc = x
    <2>. HIDE DEF q, x
    <2>. QED  BY <1>5 DEF Session
  <1>. QED  BY <1>6

\* A step after which a thread is about to push without an SVID was a look at the
\* key of its workload, which the boot has obtained, or was refused.
LEMMA DeliveredStep ==
    ASSUME IInv, [Next]_vars, NEW s \in Sessions, At(s, "key") \/ At(s, "sign"),
           session'[s].pc = "push", session[s].cid \notin refused
    PROVE  /\ session[s].workload \in DOMAIN failures
           /\ failures[session[s].workload] > Retries
  <1> DEFINE q == session[s]
             w == q.workload
  <1>1. session \in [Sessions -> SessionType] /\ SessionOK(s) /\ q \in SessionType
    BY SessionFacts DEF IInv, TypeOK, SessionType
  <1>2. w = launched[q.cid] /\ Keyed(q.cid)
    BY <1>1 DEF SessionOK, At
  <1>3. w \in DOMAIN failures
    BY <1>2 DEF Keyed
  <1>4. q.pc \in {"key", "sign"} /\ q.pc # session'[s].pc
    BY DEF At
  <1>5. CheckKey(s) \/ Sign(s)
    <2>1. CASE UNCHANGED vars
      BY <1>4, <2>1 DEF vars, sessionVars
    <2>2. CASE UNCHANGED sessionVars
      BY <1>4, <2>2 DEF sessionVars
    <2>3. CASE KeyRefused \/ Schedule
      <3>1. session' = session
        BY <2>3 DEF KeyRefused, Schedule, BootPod, KeyAwaited, RegisterBootMeasurement,
           RegisterWorkloadContext, Launch, UnregisterBootMeasurement,
           UnregisterWorkloadContext
      <3>. QED  BY <1>4, <3>1
    <2>4. CASE Time
      <3>1. session'[s] = IF At(s, "sign") THEN [q EXCEPT !.ago = Min({@ + 1, Gap})] ELSE q
        BY <2>4 DEF Time
      <3>2. [q EXCEPT !.ago = Min({@ + 1, Gap})].pc = q.pc
        BY <1>1 DEF SessionType
      <3>. QED  BY <1>4, <3>1, <3>2
    <2>5. ASSUME NEW r \in Sessions, Connection(r)  PROVE CheckKey(s) \/ Sign(s)
      <3>1. CASE r # s
        <4>1. \E v : Becomes(r, v)
          BY <2>5 DEF Connection, Challenge, ReceiveProof, Disconnect, Verify, ReadContext,
             CheckKey, Sign, Push
        <4>2. session'[s] = session[s]
          BY <1>1, <3>1, <4>1 DEF Becomes
        <4>. QED  BY <1>4, <4>2
      <3>2. CASE r = s
        <4>1. CASE Disconnect(s)
          <5>1. session'[s] = Free
            BY <1>1, <4>1 DEF Disconnect, Becomes
          <5>. QED  BY <5>1 DEF Free, Session
        <4>2. ~(\E c \in Cids : Challenge(s, c)) /\ ~(\E p \in Proofs : ReceiveProof(s, p))
              /\ ~Verify(s) /\ ~ReadContext(s) /\ ~Push(s)
          BY DEF At, Challenge, ReceiveProof, Verify, ReadContext, Push
        <4>. QED  BY <2>5, <3>2, <4>1, <4>2 DEF Connection
      <3>. QED  BY <3>1, <3>2
    <2>. QED  BY <2>1, <2>2, <2>3, <2>4, <2>5 DEF Next
  <1>6. ~HasValidKey(w, 0)
    <2>1. CASE CheckKey(s)
      <3>1. session' = [session EXCEPT ![s] = [q EXCEPT
                !.pc = IF HasValidKey(w, 0) THEN "sign" ELSE "push"]]
        BY <2>1 DEF CheckKey, Becomes
      <3> DEFINE x == IF HasValidKey(w, 0) THEN "sign" ELSE "push"
      <3>2. session'[s].pc = x
        <4>1. session'[s] = [q EXCEPT !.pc = x]
          BY <1>1, <3>1
        <4>. HIDE DEF x
        <4>. QED  BY <1>1, <4>1 DEF SessionType
      <3>. QED  BY <3>2
    <2>2. CASE Sign(s)
      <3>3. ~HasValidKey(w, q.ago)
        BY <2>2, SignWith
      <3>4. q.ago \in Nat
        BY SessionFacts, Lengths
      <3>5. w \in DOMAIN keys => keys[w] \in Int
        BY NumberType DEF IInv, KeysInv
      <3>. HIDE DEF w, q
      <3>. QED  BY <3>3, <3>4, <3>5 DEF HasValidKey
    <2>. QED  BY <1>5, <2>1, <2>2
  <1>7. ~(failures[w] <= Retries)
    <2>1. KeysSurviveFailures
      BY KeysSurvive DEF IInv
    <2>. QED  BY <1>3, <1>6, <2>1 DEF KeysSurviveFailures
  <1>8. failures[w] \in Nat /\ Retries \in Int
    BY <1>3, NumberType, Lengths DEF IInv, KeysInv
  <1>. QED  BY <1>3, <1>7, <1>8

\* A guest goes without an SVID only if its boot's request failed, or too many
\* refreshes of its workload's key in a row did (build, renew_svid_locally): the
\* two looks of a thread at the key may have any steps between them.
THEOREM IdentityIsDelivered == Spec => IdentityDelivered
  <1>1. IInv /\ [Next]_vars =>
            [\A s \in Sessions :
                At(s, "key") \/ At(s, "sign") =>
                    LET w == session[s].workload IN
                    \/ session'[s].pc # "push"
                    \/ session[s].cid \in refused
                    \/ w \in DOMAIN failures /\ failures[w] > Retries]_vars
    BY DeliveredStep
  <1>. QED  BY <1>1, InvariantHolds, PTL DEF Spec, IdentityDelivered

=============================================================================
