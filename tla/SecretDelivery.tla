---------------------------- MODULE SecretDelivery ----------------------------
(***************************************************************************)
(* The delivery of secrets by the events watch (wiring.rs), on top of the  *)
(* node's identity: fetch, replay check (identity/sequences.rs), unseal    *)
(* (secret/deliver.rs), write, cache.  One task handles one notification   *)
(* after the other; the process may die between any two of its steps.      *)
(* An answer of control may be repeated or name another target or version  *)
(* than it was asked for, and a secret may be malformed.                   *)
(***************************************************************************)
EXTENDS NodeIdentity

CONSTANTS
    Ids,                \* SPIFFE ids of workloads
    Targets,            \* those whose secrets this node is told of
    Misnamed,           \* bound: secrets sent in answer to another question
    MaxAnnounced,       \* bound: SVID versions announced
    MaxSequence         \* bound: secrets sealed per id and version

Secret == [target : Ids, version : Versions, sequence : 0..MaxSequence]

ASSUME DeliveryAssumption ==
    /\ Targets \subseteq Ids /\ Misnamed \subseteq Secret
    /\ 1..MaxAnnounced \subseteq Versions /\ MaxSequence \in Nat

VARIABLES
    sequences,          \* the keyspace: last sequence per id and version
    files,              \* /run/fleetos/secrets
    secrets,            \* the cache of the process
    event,              \* the notification in work, with the version to ask for
    sealed,             \* the answer to it
    hpc,                \* where the handler is
    delivered           \* history: the secrets written to files

deliveryVars == <<sequences, files, secrets, event, sealed, hpc, delivered>>
vars == <<identityVars, deliveryVars>>

NoSecret == [target |-> "none", version |-> None, sequence |-> 0]
Truncated == [target |-> "none", version |-> None, sequence |-> 1]

Event == [target : Targets, version : Versions]
NoEvent == [target |-> "none", version |-> None]

Init ==
    /\ IdentityInit
    /\ sequences = [t \in Ids |-> [v \in Versions |-> 0]]
    /\ files = [t \in Targets |-> NoSecret]
    /\ secrets = [t \in Targets |-> NoSecret]
    /\ event = NoEvent /\ sealed = NoSecret /\ hpc = "idle"
    /\ delivered = {}

---------------------------------------------------------------------------
(* run_events_watch and handle_rotation. *)

Done ==
    /\ hpc' = "idle"
    /\ event' = NoEvent
    /\ sealed' = NoSecret

\* A SecretRotation is fetched for the version in memory, an SvidRotation for
\* the version it announces (bound: the one after it, as nothing ever updates
\* the version in memory).
Notified(t, v) ==
    /\ pc = "up" /\ hpc = "idle"
    /\ event' = [target |-> t, version |-> v]
    /\ hpc' = "fetch"
    /\ UNCHANGED <<identityVars, sequences, files, secrets, sealed, delivered>>

SecretRotation(t) == Notified(t, svid_state.version)

SvidRotation(t) ==
    /\ svid_state.version + 1 \in 1..MaxAnnounced
    /\ Notified(t, svid_state.version + 1)

\* control seals a secret, or repeats an earlier answer; 0 is the sequence of
\* an answer that carries none.  Nothing compares the target and the version
\* the answer names with those asked for.
FetchSecret(x) ==
    /\ pc = "up" /\ hpc = "fetch"
    /\ x \in Misnamed \/ (x.target = event.target /\ x.version = event.version)
    /\ sealed' = x
    /\ hpc' = "check"
    /\ UNCHANGED <<identityVars, sequences, files, secrets, event, delivered>>

\* The call fails, or the storage when the sequence is looked up or recorded.
FetchFails ==
    /\ pc = "up" /\ hpc \in {"fetch", "check"}
    /\ Done
    /\ UNCHANGED <<identityVars, sequences, files, secrets, delivered>>

\* check_and_record, after the node's sealing key was loaded: only a sequence
\* strictly newer for this target and version is accepted, and at once recorded.
BugCheckAndRecord ==
    /\ pc = "up" /\ hpc = "check"
    /\ IF Opens(sealing_key_blob)
          /\ sealed.sequence > sequences[sealed.target][sealed.version]
       THEN hpc' = "unseal" /\ UNCHANGED <<sequences, event, sealed>>
       ELSE Done /\ UNCHANGED sequences
    /\ UNCHANGED <<identityVars, files, secrets, delivered>>

CheckAndRecord ==
    /\ pc = "up" /\ hpc = "check"
    /\ IF Opens(sealing_key_blob)
          /\ sealed.sequence > sequences[sealed.target][sealed.version]
       THEN /\ sequences' =
                  [sequences EXCEPT ![sealed.target][sealed.version] = sealed.sequence]
            /\ hpc' = "unseal"
            /\ UNCHANGED <<event, sealed>>
       ELSE Done /\ UNCHANGED sequences
    /\ UNCHANGED <<identityVars, files, secrets, delivered>>

\* proto_to_core and unseal, which needs the key control has sealed for.  The
\* file is opened next, which empties it.
Unseal ==
    /\ pc = "up" /\ hpc = "unseal"
    /\ sealing_key_blob.key = registered
    /\ files' = [files EXCEPT ![event.target] = Truncated]
    /\ hpc' = "write"
    /\ UNCHANGED <<identityVars, sequences, secrets, event, sealed, delivered>>

\* The secret is malformed, the SPIFFE id invalid, the file cannot be opened; or
\* it cannot be written and stays empty.
DeliveryFails ==
    /\ pc = "up" /\ hpc \in {"unseal", "write"}
    /\ Done
    /\ UNCHANGED <<identityVars, sequences, files, secrets, delivered>>

Write ==
    /\ pc = "up" /\ hpc = "write"
    /\ files' = [files EXCEPT ![event.target] = sealed]
    /\ delivered' = delivered \cup {sealed}
    /\ hpc' = "cache"
    /\ UNCHANGED <<identityVars, sequences, secrets, event, sealed>>

\* Cached only once the write succeeded.
BugCache ==
    /\ pc = "up" /\ hpc = "unseal"
    /\ secrets' = [secrets EXCEPT ![event.target] = sealed]
    /\ Done
    /\ UNCHANGED <<identityVars, sequences, files, delivered>>

Cache ==
    /\ pc = "up" /\ hpc = "cache"
    /\ secrets' = [secrets EXCEPT ![event.target] = sealed]
    /\ Done
    /\ UNCHANGED <<identityVars, sequences, files, delivered>>

\* The end of the process takes the cache and the work in progress with it.
ProcessEnds ==
    /\ Die
    /\ secrets' = [t \in Targets |-> NoSecret]
    /\ Done
    /\ UNCHANGED <<sequences, files, delivered>>

Deliver ==
    \/ \E x \in Secret : FetchSecret(x)
    \/ FetchFails
    \/ CheckAndRecord
    \/ Unseal
    \/ DeliveryFails
    \/ Write
    \/ Cache

Next ==
    \/ (ProcessStep \/ Restart \/ LeaderMoves \/ FaultsEnd) /\ UNCHANGED deliveryVars
    \/ ProcessEnds
    \/ \E t \in Targets : SecretRotation(t)
    \/ \E t \in Targets : SvidRotation(t)
    \/ Deliver

\* Fairness: a process that runs goes on, and one that ended is started again.
\* Nothing is assumed of control but that it answers once the faults ended.
Spec ==
    /\ Init /\ [][Next]_vars
    /\ WF_vars((ProcessStep \/ Restart) /\ UNCHANGED deliveryVars)

---------------------------------------------------------------------------
(* Properties. *)

TypeOK ==
    /\ IdentityTypeOK
    /\ sequences \in [Ids -> [Versions -> 0..MaxSequence]]
    /\ files \in [Targets -> Secret \cup {NoSecret, Truncated}]
    /\ secrets \in [Targets -> Secret \cup {NoSecret}]
    /\ event \in Event \cup {NoEvent}
    /\ sealed \in Secret \cup {NoSecret}
    /\ hpc \in {"idle", "fetch", "check", "unseal", "write", "cache"}
    /\ delivered \subseteq Secret

\* A secret is written, to whichever file, only if it is newer than every
\* secret of its own target and version ever written, before or after a
\* restart: whatever control repeats or mixes up, and wherever the process
\* died, nothing is delivered twice or out of order.
NoReplay ==
    [][\A t \in Targets : files'[t] # files[t] /\ files'[t] \in Secret =>
          \A d \in delivered :
              d.target = files'[t].target /\ d.version = files'[t].version
                  => d.sequence < files'[t].sequence]_vars

\* A cached secret is the one its file holds, unless the next one is being
\* written or a failed write has left the file empty: the cache is never ahead
\* of the disk ("only cache in memory once the write succeeds").
CacheOnDisk ==
    \A t \in Targets :
        secrets[t] # NoSecret =>
            \/ files[t] \in {secrets[t], Truncated}
            \/ hpc = "cache" /\ event.target = t

=============================================================================
