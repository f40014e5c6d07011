------------------------- MODULE ControlClientProofs -------------------------
(***************************************************************************)
(* Proofs about the control-plane client: whatever the tasks, the nodes and*)
(* the bounds, the cached channel belongs to the current target and to the *)
(* SVID the client last saw, with the private key of its certificate.      *)
(*                                                                         *)
(* The channel properties speak of the channel that is cached; while it*)
(* is rebuilt nothing is cached, and what will be cached is in the hands of*)
(* the task that holds the lock.  The invariant therefore says what that   *)
(* task may still rely on at each step of get_channel.                     *)
(***************************************************************************)
EXTENDS ControlClient, TLAPS

\* While a rebuild is under way no channel is cached.
NothingCached ==
    \A t \in Tasks : pc[t] \in {"target", "key", "build"} => channel = NoChannel

\* The SVID that was compared is the one that will be read: the rotation waits.
SvidSeen ==
    \A t \in Tasks : pc[t] = "target" => last_svid_generation = svid_generation

\* A guard is held exactly while its task is inside the critical section; the
\* guards of the code are dropped with the scope they were taken in.
LocksHeld ==
    \A t \in Tasks :
        /\ channel_lock = t <=> pc[t] \in {"target", "key", "build"}
        /\ target_lock = t <=> pc[t] = "clear"

\* A key was loaded after its certificate was copied, and is one the node has
\* had: no older than the certificate, no newer than the SVID.
KeyLater(c) == c.generation <= c.key /\ c.key <= svid_generation

CachedKeyLater == channel # NoChannel => KeyLater(channel)

\* What a task is about to cache is what the client last saw, and leads to the
\* current target unless a retarget waits for the lock to clear it.
AboutToCache ==
    \A t \in Tasks : pc[t] \in {"key", "build"} =>
        /\ conn[t] \in Channels
        /\ pc[t] = "build" => KeyLater(conn[t])
        /\ conn[t].generation = last_svid_generation
        /\ (\A u \in Tasks : pc[u] # "clear") => conn[t].target = current_target

\* A call that is still going on has retries left.
RetriesLeft ==
    \A t \in Calls : pc[t] # "idle" => transient_retries[t] <= MaxTransientRetries

IInv ==
    /\ TypeOK
    /\ RetriesLeft
    /\ LocksHeld
    /\ NothingCached
    /\ SvidSeen
    /\ AboutToCache
    /\ ChannelMatchesSvid
    /\ ChannelFollowsTarget
    /\ CachedKeyLater

---------------------------------------------------------------------------
(* Lemmas about the state and about the steps that leave the client alone.  *)

Places == {"idle", "connect", "target", "key", "build", "call", "streaming",
           "retarget", "clear"}

\* Places outside the critical sections of the two locks.
Outside == {"idle", "connect", "call", "streaming", "retarget"}

\* At most one task is inside get_channel's critical section, and at most one
\* is about to clear the channel: a lock has one owner.
LEMMA OneHolder ==
    ASSUME LocksHeld, NEW t \in Tasks, NEW u \in Tasks
    PROVE  /\ (/\ pc[t] \in {"target", "key", "build"}
               /\ pc[u] \in {"target", "key", "build"}) => t = u
           /\ pc[t] = "clear" /\ pc[u] = "clear" => t = u
BY DEF LocksHeld

\* A lock nobody holds: its critical section is empty.
LEMMA FreeMeansEmpty ==
    ASSUME LocksHeld, NEW t \in Tasks
    PROVE  /\ channel_lock = Nobody => pc[t] \notin {"target", "key", "build"}
           /\ target_lock = Nobody => pc[t] # "clear"
BY ClientAssumption DEF LocksHeld

\* A step of the loop around a call, which moves one task between places
\* outside the critical sections and leaves the client's state alone, keeps
\* what the invariant says of the client.
LEMMA LoopStep ==
    ASSUME IInv, NEW t \in Tasks, NEW place \in Outside,
           pc[t] \in Outside, Goto(t, place),
           UNCHANGED clientVars,
           \A u \in Tasks \ {t} : conn'[u] = conn[u]
    PROVE  /\ LocksHeld' /\ NothingCached' /\ SvidSeen' /\ AboutToCache'
           /\ ChannelMatchesSvid' /\ ChannelFollowsTarget' /\ CachedKeyLater'
<1>1. pc \in [Tasks -> Places]
  BY DEF IInv, TypeOK, Places
<1>2. /\ pc'[t] = place
      /\ \A u \in Tasks : u # t => pc'[u] = pc[u]
  BY <1>1 DEF Goto
<1>3. \A u \in Tasks : \A p \in {"target", "key", "build", "clear"} :
          pc'[u] = p <=> pc[u] = p
  BY <1>2 DEF Outside
<1>4. LocksHeld'
  BY <1>3 DEF IInv, LocksHeld, clientVars
<1>5. NothingCached' /\ SvidSeen'
  BY <1>3 DEF IInv, NothingCached, SvidSeen, clientVars
<1>6. AboutToCache'
  <2> SUFFICES ASSUME NEW u \in Tasks, pc'[u] \in {"key", "build"}
               PROVE  /\ conn'[u] \in Channels
                      /\ pc'[u] = "build" => KeyLater(conn[u])'
                      /\ conn'[u].generation = last_svid_generation'
                      /\ (\A v \in Tasks : pc'[v] # "clear")
                             => conn'[u].target = current_target'
    BY DEF AboutToCache, KeyLater
  <2>1. u # t /\ pc'[u] = pc[u] /\ conn'[u] = conn[u]
    BY <1>2, <1>3 DEF Outside
  <2> QED
    BY <1>3, <2>1 DEF IInv, AboutToCache, KeyLater, clientVars
<1>7. ChannelMatchesSvid' /\ ChannelFollowsTarget' /\ CachedKeyLater'
  BY <1>3 DEF IInv, ChannelMatchesSvid, ChannelFollowsTarget,
         CachedKeyLater, KeyLater, clientVars
<1> QED
  BY <1>4, <1>5, <1>6, <1>7

---------------------------------------------------------------------------
(* Types.                                                                   *)

\* A task of a call or of a stream moves to a place of the list.
LEMMA GotoType ==
    ASSUME pc \in [Tasks -> Places], NEW t \in Tasks, NEW place \in Places,
           Goto(t, place)
    PROVE  pc' \in [Tasks -> Places]
BY DEF Goto

\* get_channel and retarget keep the types and the retries.
LEMMA GetChannelType ==
    ASSUME IInv, NEW t \in Tasks, GetChannel(t) \/ Retarget(t) \/ ClearChannel(t)
    PROVE  TypeOK' /\ RetriesLeft'
<1> USE DEF IInv, TypeOK, RetriesLeft, clientVars, loopVars, Goto, Tasks, Nobody
<1>1. CASE UseCached(t)
  BY <1>1 DEF UseCached
<1>2. CASE BeginRebuild(t)
  BY <1>2 DEF BeginRebuild
<1>3. CASE ReadTarget(t)
  <2>1. [target |-> current_target, generation |-> svid_generation, key |-> 0]
            \in Channels
    BY ClientAssumption DEF Channels
  <2> QED
    BY <1>3, <2>1 DEF ReadTarget
<1>4. CASE LoadKey(t)
  <2>1. conn[t] \in Channels
    BY <1>4 DEF LoadKey, AboutToCache, KeyLater
  <2>2. [conn[t] EXCEPT !.key = svid_generation] \in Channels
    BY <2>1 DEF Channels
  <2> QED
    BY <1>4, <2>2 DEF LoadKey
<1>5. CASE Build(t)
  BY <1>5 DEF Build
<1>6. CASE BuildFails(t)
  BY <1>6, ClientAssumption DEF BuildFails
<1>7. CASE Retarget(t)
  <2>1. CASE current_target = new_target[t]
    BY <1>7, <2>1 DEF Retarget
  <2>2. CASE current_target # new_target[t]
    <3>1. /\ current_target' \in Nodes
          /\ target_lock' = t
          /\ UNCHANGED <<channel, channel_lock, svid_generation,
                         last_svid_generation, conn, loopVars, leader, stable>>
      BY <1>7, <2>2 DEF Retarget
    <3>2. pc' \in [Tasks -> Places] /\ \A u \in Tasks \ {t} : pc'[u] = pc[u]
      BY <1>7, <2>2, GotoType DEF Retarget, Places
    <3>3. pc[t] # "idle"
      BY <1>7 DEF Retarget
    <3> QED
      BY <3>1, <3>2, <3>3 DEF Places
  <2> QED
    BY <2>1, <2>2
<1>8. CASE ClearChannel(t)
  BY <1>8 DEF ClearChannel
<1> QED
  BY <1>1, <1>2, <1>3, <1>4, <1>5, <1>6, <1>7, <1>8 DEF GetChannel

\* So do the steps of the loop around a call: a redirect that is followed was
\* allowed, and the retry after the last one returns.
LEMMA LoopType ==
    ASSUME IInv, NEW t \in Tasks,
           Answer(t) \/ (t \in Calls /\ BeginCall(t))
    PROVE  TypeOK' /\ RetriesLeft'
<1> USE ClientAssumption
        DEF IInv, TypeOK, RetriesLeft, clientVars, loopVars, Goto, Tasks
<1>1. CASE \E n \in Nodes : Redirect(t, n)
  BY <1>1 DEF Redirect, HopsExceeded, MayRefuse
<1>2. CASE Connected(t)
  BY <1>2 DEF Connected, MayAccept
<1>3. CASE RetrySame(t)
  BY <1>3 DEF RetrySame
<1>4. CASE CallReturns(t)
  BY <1>4 DEF CallReturns
<1>5. CASE RetryCall(t)
  BY <1>5 DEF RetryCall, MayRefuse
<1>6. CASE t \in Calls /\ BeginCall(t)
  BY <1>6 DEF BeginCall
<1> QED
  BY <1>1, <1>2, <1>3, <1>4, <1>5, <1>6 DEF Answer

---------------------------------------------------------------------------
(* One lemma per action that touches the client, and one for the loops.     *)

\* What the actions below have in common: how the places change.
LEMMA GotoPlaces ==
    ASSUME IInv, NEW t \in Tasks, NEW place, Goto(t, place)
    PROVE  /\ pc'[t] = place
           /\ \A u \in Tasks : u # t => pc'[u] = pc[u]
BY DEF IInv, TypeOK, Goto

\* A task that finds a good channel takes a copy of it and no lock.
LEMMA UseCachedInv ==
    ASSUME IInv, NEW t \in Tasks, UseCached(t)
    PROVE  IInv'
<1>1. TypeOK' /\ RetriesLeft'
  BY GetChannelType DEF GetChannel
<1>2. /\ pc[t] \in Outside /\ "call" \in Outside /\ Goto(t, "call")
      /\ UNCHANGED clientVars
  BY DEF UseCached, Outside
<1>3. \A u \in Tasks \ {t} : conn'[u] = conn[u]
  BY DEF UseCached, IInv, TypeOK
<1> QED
  BY <1>1, <1>2, <1>3, LoopStep DEF IInv

\* The rebuild begins: the lock is taken, the cache emptied and the rotation
\* noticed in one step under the SVID's read guard.
LEMMA BeginRebuildInv ==
    ASSUME IInv, NEW t \in Tasks, BeginRebuild(t)
    PROVE  IInv'
<1>1. TypeOK' /\ RetriesLeft'
  BY GetChannelType DEF GetChannel
<1>2. /\ pc[t] = "connect" /\ channel_lock = Nobody /\ channel_lock' = t
      /\ channel' = NoChannel /\ last_svid_generation' = svid_generation
      /\ UNCHANGED <<current_target, target_lock, svid_generation, conn>>
  BY DEF BeginRebuild
<1>3. /\ pc'[t] = "target"
      /\ \A u \in Tasks : u # t => pc'[u] = pc[u]
  BY GotoPlaces DEF BeginRebuild
<1>4. \A u \in Tasks : u # t => pc'[u] \notin {"target", "key", "build"}
  BY <1>2, <1>3, FreeMeansEmpty DEF IInv
<1>5. LocksHeld'
  BY <1>2, <1>3, <1>4, ClientAssumption DEF IInv, LocksHeld
<1>6. /\ NothingCached' /\ CachedKeyLater'
      /\ ChannelMatchesSvid' /\ ChannelFollowsTarget'
  BY <1>2 DEF NothingCached, ChannelMatchesSvid, ChannelFollowsTarget,
         CachedKeyLater, KeyLater
<1>7. SvidSeen' /\ AboutToCache'
  BY <1>2, <1>3, <1>4 DEF SvidSeen, AboutToCache, KeyLater
<1> QED
  BY <1>1, <1>5, <1>6, <1>7 DEF IInv

\* The target and the certificate are read together: nobody is about to clear,
\* and the certificate is the one the client compared.
LEMMA ReadTargetInv ==
    ASSUME IInv, NEW t \in Tasks, ReadTarget(t)
    PROVE  IInv'
<1>1. TypeOK' /\ RetriesLeft'
  BY GetChannelType DEF GetChannel
<1>2. /\ pc[t] = "target" /\ target_lock = Nobody
      /\ UNCHANGED <<current_target, target_lock, channel, channel_lock,
                     svid_generation, last_svid_generation>>
  BY DEF ReadTarget, clientVars
<1>3. conn'[t] = [target |-> current_target, generation |-> svid_generation,
                  key |-> 0]
  BY DEF ReadTarget, IInv, TypeOK
<1>4. /\ pc'[t] = "key"
      /\ \A u \in Tasks : u # t => pc'[u] = pc[u]
  BY GotoPlaces DEF ReadTarget
<1>5. \A u \in Tasks : u # t => pc'[u] \notin {"target", "key", "build"}
  BY <1>2, <1>4, OneHolder DEF IInv
<1>6. LocksHeld'
  BY <1>2, <1>4, <1>5 DEF IInv, LocksHeld
<1>7. NothingCached' /\ SvidSeen'
  BY <1>2, <1>4, <1>5 DEF IInv, NothingCached, SvidSeen
<1>8. AboutToCache'
  <2>1. svid_generation = last_svid_generation
    BY <1>2 DEF IInv, SvidSeen
  <2>2. conn'[t] \in Channels
    BY <1>3, ClientAssumption DEF IInv, TypeOK, Channels
  <2>3. /\ conn'[t].generation = last_svid_generation'
        /\ conn'[t].target = current_target'
    BY <1>2, <1>3, <2>1
  <2> QED
    BY <1>4, <1>5, <2>2, <2>3 DEF AboutToCache, KeyLater
<1>9. ChannelMatchesSvid' /\ ChannelFollowsTarget' /\ CachedKeyLater'
  BY <1>2, <1>4 DEF IInv, NothingCached, ChannelMatchesSvid, ChannelFollowsTarget,
         CachedKeyLater, KeyLater
<1> QED
  BY <1>1, <1>6, <1>7, <1>8, <1>9 DEF IInv

\* The key is loaded without the guard: it may be newer than the certificate,
\* never older, since generations only grow.
LEMMA LoadKeyInv ==
    ASSUME IInv, NEW t \in Tasks, LoadKey(t)
    PROVE  IInv'
<1>1. TypeOK' /\ RetriesLeft'
  BY GetChannelType DEF GetChannel
<1>2. /\ pc[t] = "key"
      /\ UNCHANGED <<current_target, target_lock, channel, channel_lock,
                     svid_generation, last_svid_generation>>
  BY DEF LoadKey, clientVars
<1>3. /\ pc'[t] = "build"
      /\ \A u \in Tasks : u # t => pc'[u] = pc[u]
  BY GotoPlaces DEF LoadKey
<1>4. \A u \in Tasks : u # t => pc'[u] \notin {"target", "key", "build"}
  BY <1>2, <1>3, OneHolder DEF IInv
<1>5. LocksHeld'
  BY <1>2, <1>3, <1>4 DEF IInv, LocksHeld
<1>6. NothingCached' /\ SvidSeen'
  BY <1>2, <1>3, <1>4 DEF IInv, NothingCached, SvidSeen
<1>7. AboutToCache'
  <2>1. /\ conn[t] \in Channels /\ conn[t].generation = last_svid_generation
        /\ (\A u \in Tasks : pc[u] # "clear") => conn[t].target = current_target
    BY <1>2 DEF IInv, AboutToCache, KeyLater
  <2>2. conn'[t] = [conn[t] EXCEPT !.key = svid_generation]
    BY DEF LoadKey, IInv, TypeOK
  <2>3. /\ conn'[t] \in Channels /\ conn'[t].target = conn[t].target
        /\ conn'[t].generation = conn[t].generation
        /\ conn'[t].key = svid_generation
    BY <2>1, <2>2 DEF IInv, TypeOK, Channels
  <2>4. KeyLater(conn[t])'
    BY <1>2, <2>1, <2>3 DEF IInv, TypeOK, KeyLater
  <2>5. (\A u \in Tasks : pc'[u] # "clear") => \A u \in Tasks : pc[u] # "clear"
    BY <1>2, <1>3
  <2> QED
    BY <1>2, <1>4, <2>1, <2>3, <2>4, <2>5 DEF AboutToCache, KeyLater
<1>8. ChannelMatchesSvid' /\ ChannelFollowsTarget' /\ CachedKeyLater'
  BY <1>2 DEF IInv, NothingCached, ChannelMatchesSvid, ChannelFollowsTarget,
              CachedKeyLater, KeyLater
<1> QED
  BY <1>1, <1>5, <1>6, <1>7, <1>8 DEF IInv

\* The new channel is cached and the lock given back.
LEMMA BuildInv ==
    ASSUME IInv, NEW t \in Tasks, Build(t)
    PROVE  IInv'
<1>1. TypeOK' /\ RetriesLeft'
  BY GetChannelType DEF GetChannel
<1>2. /\ pc[t] = "build" /\ channel' = conn[t] /\ channel_lock' = Nobody
      /\ UNCHANGED <<current_target, target_lock, svid_generation,
                     last_svid_generation, conn>>
  BY DEF Build
<1>3. /\ pc'[t] = "call"
      /\ \A u \in Tasks : u # t => pc'[u] = pc[u]
  BY GotoPlaces DEF Build
<1>4. \A u \in Tasks : pc'[u] \notin {"target", "key", "build"}
  BY <1>2, <1>3, OneHolder DEF IInv
<1>5. \A u \in Tasks : pc'[u] = "clear" <=> pc[u] = "clear"
  BY <1>2, <1>3
<1>6. LocksHeld'
  BY <1>2, <1>3, <1>4, <1>5, ClientAssumption DEF IInv, LocksHeld
<1>7. NothingCached' /\ SvidSeen' /\ AboutToCache'
  BY <1>4 DEF NothingCached, SvidSeen, AboutToCache, KeyLater
<1>8. ChannelMatchesSvid' /\ ChannelFollowsTarget' /\ CachedKeyLater'
  BY <1>2, <1>5 DEF IInv, AboutToCache, ChannelMatchesSvid, ChannelFollowsTarget,
         CachedKeyLater, KeyLater
<1> QED
  BY <1>1, <1>6, <1>7, <1>8 DEF IInv

\* Every way out of a failed build gives the lock back; nothing is cached.
LEMMA BuildFailsInv ==
    ASSUME IInv, NEW t \in Tasks, BuildFails(t)
    PROVE  IInv'
<1>1. TypeOK' /\ RetriesLeft'
  BY GetChannelType DEF GetChannel
<1>2. /\ pc[t] \in {"key", "build"} /\ channel_lock' = Nobody
      /\ UNCHANGED <<current_target, target_lock, channel, svid_generation,
                     last_svid_generation, conn>>
  BY DEF BuildFails
<1>3. /\ pc'[t] \in {"connect", "idle"}
      /\ \A u \in Tasks : u # t => pc'[u] = pc[u]
  BY GotoPlaces DEF BuildFails
<1>4. \A u \in Tasks : pc'[u] \notin {"target", "key", "build"}
  BY <1>2, <1>3, OneHolder DEF IInv
<1>5. \A u \in Tasks : pc'[u] = "clear" <=> pc[u] = "clear"
  BY <1>2, <1>3
<1>6. LocksHeld'
  BY <1>2, <1>3, <1>4, <1>5, ClientAssumption DEF IInv, LocksHeld
<1>7. NothingCached' /\ SvidSeen' /\ AboutToCache'
  BY <1>4 DEF NothingCached, SvidSeen, AboutToCache, KeyLater
<1>8. ChannelMatchesSvid' /\ ChannelFollowsTarget' /\ CachedKeyLater'
  BY <1>2 DEF IInv, NothingCached, ChannelMatchesSvid, ChannelFollowsTarget,
         CachedKeyLater, KeyLater
<1> QED
  BY <1>1, <1>6, <1>7, <1>8 DEF IInv

\* The target changes under its lock; the channel that no longer fits is
\* excused until this task has cleared it.
LEMMA RetargetInv ==
    ASSUME IInv, NEW t \in Tasks, Retarget(t)
    PROVE  IInv'
<1>1. TypeOK' /\ RetriesLeft'
  BY GetChannelType
<1>2. CASE current_target = new_target[t]
  <2>1. /\ pc[t] \in Outside /\ "connect" \in Outside /\ Goto(t, "connect")
        /\ UNCHANGED clientVars /\ UNCHANGED conn
    BY <1>2 DEF Retarget, Outside, clientVars
  <2> QED
    BY <1>1, <2>1, LoopStep DEF IInv
<1>3. CASE current_target # new_target[t]
  <2>1. /\ pc[t] = "retarget" /\ target_lock = Nobody /\ target_lock' = t
        /\ UNCHANGED <<channel, channel_lock, svid_generation,
                       last_svid_generation, conn>>
    BY <1>3 DEF Retarget
  <2>2. /\ pc'[t] = "clear"
        /\ \A u \in Tasks : u # t => pc'[u] = pc[u]
    BY <1>3, GotoPlaces DEF Retarget
  <2>3. \A u \in Tasks : u # t => pc'[u] # "clear"
    BY <2>1, <2>2, FreeMeansEmpty DEF IInv
  <2>4. \A u \in Tasks : \A p \in {"target", "key", "build"} :
            pc'[u] = p <=> pc[u] = p
    BY <2>1, <2>2
  <2>5. LocksHeld'
    BY <2>1, <2>2, <2>3, <2>4, ClientAssumption DEF IInv, LocksHeld
  <2>6. NothingCached' /\ SvidSeen' /\ AboutToCache'
    BY <2>1, <2>2, <2>4 DEF IInv, NothingCached, SvidSeen, AboutToCache, KeyLater
  <2>7. ChannelMatchesSvid' /\ ChannelFollowsTarget' /\ CachedKeyLater'
    BY <2>1, <2>2 DEF IInv, ChannelMatchesSvid, ChannelFollowsTarget,
         CachedKeyLater, KeyLater
  <2> QED
    BY <1>1, <2>5, <2>6, <2>7 DEF IInv
<1> QED
  BY <1>2, <1>3

\* The cleared cache agrees with every target.  The channel's lock is free, so
\* no rebuild with the old target is under way.
LEMMA ClearChannelInv ==
    ASSUME IInv, NEW t \in Tasks, ClearChannel(t)
    PROVE  IInv'
<1>1. TypeOK' /\ RetriesLeft'
  BY GetChannelType
<1>2. /\ pc[t] = "clear" /\ channel_lock = Nobody
      /\ channel' = NoChannel /\ target_lock' = Nobody
      /\ UNCHANGED <<current_target, channel_lock, svid_generation,
                     last_svid_generation, conn>>
  BY DEF ClearChannel
<1>3. /\ pc'[t] = "connect"
      /\ \A u \in Tasks : u # t => pc'[u] = pc[u]
  BY GotoPlaces DEF ClearChannel
<1>4. \A u \in Tasks : pc'[u] \notin {"target", "key", "build", "clear"}
  BY <1>2, <1>3, FreeMeansEmpty, OneHolder DEF IInv
<1>5. LocksHeld'
  BY <1>2, <1>4, ClientAssumption DEF LocksHeld
<1>6. /\ NothingCached' /\ SvidSeen' /\ AboutToCache'
      /\ ChannelMatchesSvid' /\ ChannelFollowsTarget' /\ CachedKeyLater'
  BY <1>2, <1>4 DEF NothingCached, SvidSeen, AboutToCache, ChannelMatchesSvid,
                    ChannelFollowsTarget, CachedKeyLater, KeyLater
<1> QED
  BY <1>1, <1>5, <1>6 DEF IInv

\* The answers of the control plane and the beginning of a call move a task
\* between places outside the critical sections.
LEMMA LoopInv ==
    ASSUME IInv, NEW t \in Tasks,
           Answer(t) \/ (t \in Calls /\ BeginCall(t))
    PROVE  IInv'
<1>1. TypeOK' /\ RetriesLeft'
  BY LoopType
<1>2. \E place \in Outside : Goto(t, place)
  BY DEF Answer, Redirect, Connected, RetrySame, CallReturns, RetryCall,
         BeginCall, Outside
<1>3. pc[t] \in Outside
  BY DEF Answer, Redirect, Connected, RetrySame, CallReturns, RetryCall,
         BeginCall, MayAccept, MayRefuse, Outside
<1>4. UNCHANGED clientVars /\ UNCHANGED conn
  BY DEF Answer, Redirect, Connected, RetrySame, CallReturns, RetryCall,
         BeginCall
<1> QED
  BY <1>1, <1>2, <1>3, <1>4, LoopStep DEF IInv

\* A step that moves no task and leaves the client and the channels in use
\* alone: an update on a stream, a change of leader, stability.
LEMMA QuietInv ==
    ASSUME IInv, UNCHANGED <<clientVars, pc, conn>>, TypeOK', RetriesLeft'
    PROVE  IInv'
<1>1. LocksHeld' /\ NothingCached' /\ SvidSeen' /\ AboutToCache'
  BY DEF IInv, LocksHeld, NothingCached, SvidSeen, AboutToCache,
         KeyLater, clientVars
<1>2. ChannelMatchesSvid' /\ ChannelFollowsTarget' /\ CachedKeyLater'
  BY DEF IInv, ChannelMatchesSvid, ChannelFollowsTarget,
         CachedKeyLater, KeyLater, clientVars
<1> QED
  BY <1>1, <1>2 DEF IInv

\* The rotation of the SVID, which waits while a task holds the read guard.
LEMMA RotateSvidInv ==
    ASSUME IInv, RotateSvid
    PROVE  IInv'
<1>1. TypeOK' /\ RetriesLeft'
  BY ClientAssumption DEF RotateSvid, IInv, TypeOK, RetriesLeft, loopVars
<1>2. /\ \A t \in Tasks : pc[t] # "target"
      /\ UNCHANGED <<current_target, target_lock, channel, channel_lock,
                     last_svid_generation, pc, conn>>
  BY DEF RotateSvid
<1>3. \A c \in Channels : KeyLater(c) => KeyLater(c)'
  BY ClientAssumption DEF RotateSvid, IInv, TypeOK, KeyLater, Channels
<1>4. LocksHeld' /\ NothingCached' /\ SvidSeen'
  BY <1>2 DEF IInv, LocksHeld, NothingCached, SvidSeen
<1>5. AboutToCache'
  <2>1. \A t \in Tasks : pc[t] = "build" => KeyLater(conn[t])'
    <3> SUFFICES ASSUME NEW t \in Tasks, pc[t] = "build" PROVE KeyLater(conn[t])'
      OBVIOUS
    <3>1. conn[t] \in Channels /\ KeyLater(conn[t]) /\ conn'[t] = conn[t]
      BY <1>2 DEF IInv, AboutToCache
    <3> QED
      BY <1>3, <3>1 DEF KeyLater
  <2> QED
    BY <1>2, <2>1 DEF IInv, AboutToCache
<1>6. CachedKeyLater'
  <2>1. ASSUME channel # NoChannel PROVE KeyLater(channel)'
    BY <1>2, <1>3, <2>1 DEF IInv, TypeOK, CachedKeyLater, KeyLater
  <2> QED
    BY <1>2, <2>1 DEF CachedKeyLater
<1>7. ChannelMatchesSvid' /\ ChannelFollowsTarget'
  BY <1>2 DEF IInv, ChannelMatchesSvid, ChannelFollowsTarget
<1> QED
  BY <1>1, <1>4, <1>5, <1>6, <1>7 DEF IInv

---------------------------------------------------------------------------
(* The invariant.                                                           *)

\* The client starts with no channel, free locks and an SVID it has not seen.
LEMMA InitInv == Init => IInv
<1> SUFFICES ASSUME Init PROVE IInv
  OBVIOUS
<1>1. TypeOK
  <2>1. /\ pc \in [Tasks -> Places]
        /\ conn \in [Tasks -> Channels \cup {NoChannel}]
        /\ new_target \in [Tasks -> Nodes]
    BY DEF Init, Places
  <2>2. /\ redirect_hops \in [Tasks -> 0..(MaxRedirectHops + 1)]
        /\ transient_retries \in [Calls -> 0..(MaxTransientRetries + 1)]
        /\ last_known_version \in [Streams -> 0..MaxVersion]
    BY ClientAssumption DEF Init
  <2>3. /\ svid_generation \in 1..MaxGeneration
        /\ last_svid_generation \in 0..svid_generation
    BY ClientAssumption DEF Init
  <2> QED
    BY <2>1, <2>2, <2>3 DEF Init, TypeOK, Places
<1>2. RetriesLeft
  BY ClientAssumption DEF Init, RetriesLeft
<1>3. \A t \in Tasks : pc[t] \in {"connect", "idle"}
  BY DEF Init
<1>4. LocksHeld
  BY <1>3, ClientAssumption DEF Init, LocksHeld
<1>5. NothingCached /\ SvidSeen /\ AboutToCache
  BY <1>3 DEF NothingCached, SvidSeen, AboutToCache, KeyLater
<1>6. ChannelMatchesSvid /\ ChannelFollowsTarget /\ CachedKeyLater
  BY DEF Init, ChannelMatchesSvid, ChannelFollowsTarget,
         CachedKeyLater, KeyLater
<1> QED
  BY <1>1, <1>2, <1>4, <1>5, <1>6 DEF IInv

\* Every step keeps the invariant.
LEMMA NextInv == IInv /\ [Next]_vars => IInv'
<1> SUFFICES ASSUME IInv, [Next]_vars PROVE IInv'
  OBVIOUS
<1>1. ASSUME NEW t \in Tasks, GetChannel(t) PROVE IInv'
  BY <1>1, UseCachedInv, BeginRebuildInv, ReadTargetInv, LoadKeyInv, BuildInv,
     BuildFailsInv
     DEF GetChannel
<1>2. ASSUME NEW t \in Tasks, Retarget(t) PROVE IInv'
  BY <1>2, RetargetInv
<1>3. ASSUME NEW t \in Tasks, ClearChannel(t) PROVE IInv'
  BY <1>3, ClearChannelInv
<1>4. ASSUME NEW t \in Tasks, Answer(t) PROVE IInv'
  BY <1>4, LoopInv
<1>5. ASSUME NEW t \in Calls, BeginCall(t) PROVE IInv'
  BY <1>5, LoopInv DEF Tasks
<1>6. ASSUME NEW t \in Streams, NEW v \in 1..MaxVersion, Update(t, v) PROVE IInv'
  <2>1. TypeOK' /\ RetriesLeft'
    BY <1>6, ClientAssumption DEF Update, IInv, TypeOK, RetriesLeft, clientVars
  <2> QED
    BY <1>6, <2>1, QuietInv DEF Update
<1>7. ASSUME NEW n \in Nodes, ElectLeader(n) PROVE IInv'
  <2>1. TypeOK' /\ RetriesLeft'
    BY <1>7 DEF ElectLeader, IInv, TypeOK, RetriesLeft, clientVars, loopVars
  <2> QED
    BY <1>7, <2>1, QuietInv DEF ElectLeader
<1>8. ASSUME Stabilise PROVE IInv'
  <2>1. TypeOK' /\ RetriesLeft'
    BY <1>8 DEF Stabilise, IInv, TypeOK, RetriesLeft, clientVars, loopVars
  <2> QED
    BY <1>8, <2>1, QuietInv DEF Stabilise
<1>9. ASSUME RotateSvid PROVE IInv'
  BY <1>9, RotateSvidInv
<1>10. ASSUME UNCHANGED vars PROVE IInv'
  <2>1. TypeOK' /\ RetriesLeft'
    BY <1>10 DEF vars, IInv, TypeOK, RetriesLeft, clientVars, loopVars
  <2> QED
    BY <1>10, <2>1, QuietInv DEF vars
<1> QED
  BY <1>1, <1>2, <1>3, <1>4, <1>5, <1>6, <1>7, <1>8, <1>9, <1>10 DEF Next

\* The strengthened invariant holds of every behaviour of the client.
THEOREM InvariantHolds == Spec => []IInv
BY InitInv, NextInv, PTL DEF Spec

\* Types, and the bounds on redirects and attempts: whatever the control plane
\* answers, classify_error stops a task after MAX_REDIRECT_HOPS redirects and a
\* unary call after MAX_TRANSIENT_RETRIES retries.
THEOREM TypeCorrect == Spec => []TypeOK
<1>1. IInv => TypeOK
  BY DEF IInv
<1> QED
  BY <1>1, InvariantHolds, PTL

\* A channel that get_channel hands out from the cache was built with the SVID
\* the client last saw: no rotation goes unnoticed.
THEOREM CachedChannelMatchesSvid == Spec => []ChannelMatchesSvid
<1>1. IInv => ChannelMatchesSvid
  BY DEF IInv
<1> QED
  BY <1>1, InvariantHolds, PTL

\* A retarget is not undone by a rebuild that read the old target.
THEOREM CachedChannelFollowsTarget == Spec => []ChannelFollowsTarget
<1>1. IInv => ChannelFollowsTarget
  BY DEF IInv
<1> QED
  BY <1>1, InvariantHolds, PTL

\* No mix of certificate and key is served from the cache: a rotation between
\* dropping the SVID guard and load_svid_private_key leaves a channel that the
\* next get_channel replaces.
THEOREM KeyOfCachedChannel == Spec => []CachedKeyMatches
<1>1. IInv => CachedKeyMatches
  <2> SUFFICES ASSUME IInv, channel # NoChannel, ~Rotated
               PROVE  channel.key = channel.generation
    BY DEF CachedKeyMatches
  <2>1. /\ channel.generation = last_svid_generation /\ KeyLater(channel)
        /\ channel \in Channels
    BY DEF IInv, TypeOK, ChannelMatchesSvid, CachedKeyLater, KeyLater
  <2>2. channel.key \in Int
    BY <2>1, ClientAssumption DEF Channels
  <2> QED
    BY <2>1, <2>2 DEF IInv, TypeOK, KeyLater, Rotated
<1> QED
  BY <1>1, InvariantHolds, PTL

=============================================================================
