------------------------- MODULE SecretDeliveryProofs -------------------------
(***************************************************************************)
(* Proofs about the node's identity and the delivery of secrets, for every *)
(* number of runs, lost answers, hops, targets, sequences and answers.     *)
(*                                                                         *)
(* The identity's properties speak only of an SVID that is marked          *)
(* installed.  They are not inductive: the mark is the last of a dozen     *)
(* inserts, and what it promises has been built up before it.  The         *)
(* invariant says, place by place, what the run has stored and registered  *)
(* so far, and that every stored key can be opened whenever it was stored. *)
(***************************************************************************)
EXTENDS SecretDelivery, TLAPS

---------------------------------------------------------------------------
(* The identity. *)

InstallPlaces ==
    {"install_cert", "install_version", "install_generation", "install_flag"}

\* Places of a run that has not got its certificate yet.
BeforeAnswer == {"load", "main_sealing", "join_sealing", "challenge", "quote",
                 "svid_key", "csr"}

\* Every certificate was issued in a run of its own or its answer was lost.
IssuedInRuns ==
    issued + (IF pc \in BeforeAnswer THEN 1 ELSE 0) <= run + losses

\* The join works on a database without an installed SVID, what follows it on
\* one with it.
MarkedAfterJoin ==
    /\ pc \in SealPlaces \cup CallPlaces \cup InstallPlaces => ~installed
    /\ pc \in {"bundle", "reload", "channel", "up"} => installed

\* A stored key can be opened: the software master key it was encrypted for is
\* the one in the database, or there is a TPM.
StoredKeyOpens(blob) ==
    blob # NoBlob =>
        IF blob.method = "software"
        THEN blob.master = software_master_key /\ software_master_key # None
        ELSE mode = "secure"

StoredKeysOpen ==
    StoredKeyOpens(sealing_key_blob) /\ StoredKeyOpens(svid_private_key)

\* What the join of this run has stored and registered when it is at a place.
JoinProgress ==
    /\ pc \in CallPlaces \cup InstallPlaces \cup {"svid_key"} =>
           sealing_key_blob \in Blob /\ sealing_key_blob.key = JoinKey[run]
    /\ pc \in InstallPlaces \cup {"csr"} =>
           svid_private_key \in Blob /\ svid_private_key.key = JoinKey[run]
    /\ pc \in {"svid_key", "csr"} /\ mode = "insecure" => registered = JoinKey[run]
    /\ pc \in InstallPlaces =>
           /\ registered = JoinKey[run]
           /\ svid_resp \in Cert /\ svid_resp.key = JoinKey[run]

\* The inserts of svid::store, one after the other.
InstallProgress ==
    /\ pc \in InstallPlaces \ {"install_cert"} => cert_chain = svid_resp
    /\ pc \in {"install_generation", "install_flag"} => svid_version = svid_resp.version
    /\ pc = "install_flag" => generation = 1

\* A process that serves has loaded the version of an issued certificate.
ServesVersion ==
    pc \in {"channel", "up"} => svid_state.version \in Versions

IdentityInv ==
    /\ IdentityTypeOK
    /\ IssuedInRuns
    /\ MarkedAfterJoin
    /\ StoredKeysOpen
    /\ JoinProgress
    /\ InstallProgress
    /\ ServesVersion
    /\ InstalledUsable
    /\ SealingKeyRegistered

---------------------------------------------------------------------------
(* The delivery. *)

\* What the handler works on: an event, and after the fetch some secret.
HandlerProgress ==
    /\ hpc # "idle" => event \in Event
    /\ hpc \in {"check", "unseal", "write", "cache"} => sealed \in Secret
    /\ hpc \in {"unseal", "write", "cache"} =>
           sealed.sequence = sequences[sealed.target][sealed.version]
    /\ hpc = "cache" => files[event.target] = sealed

\* Everything delivered has been recorded before; a secret that is accepted and
\* not yet written is newer than what has been delivered.
RecordedBeforeDelivered ==
    \A d \in delivered :
        /\ d.sequence <= sequences[d.target][d.version]
        /\ hpc \in {"unseal", "write"}
             /\ d.target = sealed.target /\ d.version = sealed.version
               => d.sequence < sealed.sequence

DeliveryTypeOK ==
    /\ sequences \in [Ids -> [Versions -> 0..MaxSequence]]
    /\ files \in [Targets -> Secret \cup {NoSecret, Truncated}]
    /\ secrets \in [Targets -> Secret \cup {NoSecret}]
    /\ event \in Event \cup {NoEvent}
    /\ sealed \in Secret \cup {NoSecret}
    /\ hpc \in {"idle", "fetch", "check", "unseal", "write", "cache"}
    /\ delivered \subseteq Secret

DeliveryInv ==
    /\ DeliveryTypeOK
    /\ HandlerProgress
    /\ RecordedBeforeDelivered
    /\ CacheOnDisk

IInv == IdentityInv /\ DeliveryInv

---------------------------------------------------------------------------
(* Lemmas about keys and sealing. *)

\* The keys of a run are keys.
LEMMA KeysOfRun ==
    ASSUME NEW n \in Runs
    PROVE  MainKey[n] \in Keys /\ JoinKey[n] \in Keys
BY DEF MainKey, JoinKey, Keys

\* store_sealed writes a blob of the key it was given, and one that load_sealed
\* opens: the master key exists before it is used.
LEMMA SealedBlobOpens ==
    ASSUME IdentityTypeOK, NEW key \in Keys, NEW method \in {"tpm", "envelope"},
           Software => software_master_key # None
    PROVE  /\ SealedBlob(key, method) \in Blob
           /\ SealedBlob(key, method).key = key
           /\ StoredKeyOpens(SealedBlob(key, method))
<1>1. CASE Software
  BY <1>1 DEF SealedBlob, SoftwareSeal, Blob, IdentityTypeOK, StoredKeyOpens
<1>2. CASE ~Software
  BY <1>2 DEF SealedBlob, TpmSeal, Blob, IdentityTypeOK, StoredKeyOpens, Software
<1> QED
  BY <1>1, <1>2

\* A blob is not the absent one, so a stored key that opens can be loaded.
LEMMA BlobOpens ==
    ASSUME NEW blob \in Blob, StoredKeyOpens(blob)
    PROVE  Opens(blob)
<1>1. blob # NoBlob
  BY DEF Blob, NoBlob, Keys, NoKey, Runs
<1> QED
  BY <1>1 DEF StoredKeyOpens, Opens, SoftwareOpens, TpmOpens

---------------------------------------------------------------------------
(* Steps that leave parts of the state alone. *)

\* What is stored and registered stays usable while nobody touches it.
LEMMA StoreUntouched ==
    ASSUME IdentityInv, UNCHANGED <<mode, keyVars, svidVars, registered>>
    PROVE  StoredKeysOpen' /\ InstalledUsable' /\ SealingKeyRegistered'
BY DEF IdentityInv, StoredKeysOpen, StoredKeyOpens, InstalledUsable,
       SealingKeyRegistered, Opens, SoftwareOpens, TpmOpens, keyVars, svidVars

\* The join cannot disturb an installed SVID: there is none.
LEMMA NothingInstalled ==
    ASSUME IdentityInv, pc \in SealPlaces \cup CallPlaces \cup InstallPlaces,
           UNCHANGED installed
    PROVE  ~installed' /\ InstalledUsable' /\ SealingKeyRegistered'
BY DEF IdentityInv, MarkedAfterJoin, InstalledUsable, SealingKeyRegistered

---------------------------------------------------------------------------
(* One lemma per action of the process. *)

\* Sealing with the TPM fails: only the choice of the method changes.
LEMMA TpmSealFailsInv ==
    ASSUME IdentityInv, TpmSealFails
    PROVE  IdentityInv'
<1>1. UNCHANGED <<mode, keyVars, svidVars, run, pc, memVars, controlVars>>
  BY DEF TpmSealFails
<1>2. IdentityTypeOK'
  BY <1>1 DEF TpmSealFails, IdentityInv, IdentityTypeOK, keyVars, svidVars, memVars,
              controlVars
<1>3. IssuedInRuns' /\ MarkedAfterJoin' /\ ServesVersion'
  BY <1>1 DEF IdentityInv, IssuedInRuns, MarkedAfterJoin, ServesVersion, svidVars,
              memVars, controlVars
<1>4. StoredKeysOpen' /\ InstalledUsable' /\ SealingKeyRegistered'
  BY <1>1, StoreUntouched DEF controlVars
<1>5. JoinProgress' /\ InstallProgress'
  BY <1>1 DEF IdentityInv, JoinProgress, InstallProgress, keyVars, svidVars,
              memVars, controlVars
<1> QED
  BY <1>2, <1>3, <1>4, <1>5 DEF IdentityInv

\* The software master key is created once: nothing was encrypted for another.
LEMMA CreateMasterKeyInv ==
    ASSUME IdentityInv, CreateMasterKey
    PROVE  IdentityInv'
<1>1. /\ pc \in SealPlaces /\ software_master_key = None
      /\ software_master_key' = run
      /\ UNCHANGED <<mode, sealing_key_blob, svid_private_key, svidVars, run, pc,
                     fallback, memVars, controlVars>>
  BY DEF CreateMasterKey
<1>2. IdentityTypeOK'
  BY <1>1 DEF IdentityInv, IdentityTypeOK, svidVars, memVars, controlVars
<1>3. IssuedInRuns' /\ MarkedAfterJoin' /\ ServesVersion'
  BY <1>1 DEF IdentityInv, IssuedInRuns, MarkedAfterJoin, ServesVersion, svidVars,
              memVars, controlVars
<1>4. StoredKeysOpen'
  BY <1>1 DEF IdentityInv, IdentityTypeOK, StoredKeysOpen, StoredKeyOpens, None, Runs
<1>5. InstalledUsable' /\ SealingKeyRegistered'
  BY <1>1, NothingInstalled DEF svidVars
<1>6. JoinProgress' /\ InstallProgress'
  BY <1>1 DEF IdentityInv, JoinProgress, InstallProgress, svidVars, memVars,
              controlVars
<1> QED
  BY <1>2, <1>3, <1>4, <1>5, <1>6 DEF IdentityInv

\* The SVID is loaded, or a join begins on a database without one.
LEMMA LoadInv ==
    ASSUME IdentityInv, Load
    PROVE  IdentityInv'
<1>1. /\ pc = "load" /\ ~LoadFails /\ svid_state' = Loaded
      /\ pc' = IF Loaded.cert = NoCert THEN "main_sealing" ELSE "channel"
      /\ UNCHANGED <<mode, keyVars, svidVars, run, fallback, redirect_hops,
                     svid_resp, controlVars>>
  BY DEF Load
<1>2. IF installed THEN pc' = "channel" ELSE pc' = "main_sealing"
  BY <1>1 DEF LoadFails, Loaded, NoSvid
<1>3. Loaded \in Svid /\ (installed => Loaded.version \in Versions)
  <2>1. CASE installed
    BY <1>1, <2>1 DEF IdentityInv, IdentityTypeOK, Loaded, LoadFails, Svid
  <2>2. CASE ~installed
    BY <2>2 DEF Loaded, NoSvid, Svid
  <2> QED
    BY <2>1, <2>2
<1>4. IdentityTypeOK'
  BY <1>1, <1>2, <1>3 DEF IdentityInv, IdentityTypeOK, SealPlaces, keyVars, svidVars,
                          controlVars
<1>5. IssuedInRuns'
  BY <1>1, <1>2 DEF IdentityInv, IdentityTypeOK, IssuedInRuns, BeforeAnswer,
                    controlVars, Runs
<1>6. MarkedAfterJoin'
  BY <1>1, <1>2 DEF MarkedAfterJoin, SealPlaces, CallPlaces, InstallPlaces, svidVars
<1>7. ServesVersion'
  BY <1>1, <1>2, <1>3 DEF ServesVersion
<1>8. StoredKeysOpen' /\ InstalledUsable' /\ SealingKeyRegistered'
  BY <1>1, StoreUntouched DEF controlVars
<1>9. JoinProgress' /\ InstallProgress'
  BY <1>2 DEF JoinProgress, InstallProgress, CallPlaces, InstallPlaces
<1> QED
  BY <1>4, <1>5, <1>6, <1>7, <1>8, <1>9 DEF IdentityInv

\* store_sealed as a whole: what every place that seals has in common.
LEMMA StoreSealedStep ==
    ASSUME IdentityInv, NEW place \in SealPlaces, NEW next, StoreSealed(place, next)
    PROVE  /\ pc = place /\ pc' = next /\ fallback' = FALSE
           /\ UNCHANGED <<mode, software_master_key, cert_chain, svid_version,
                          generation, installed, run, redirect_hops, svid_resp,
                          svid_state, calm, registered, issued, losses>>
           /\ \A key \in Keys, method \in {"tpm", "envelope"} :
                 /\ SealedBlob(key, method) \in Blob
                 /\ SealedBlob(key, method).key = key
                 /\ StoredKeyOpens(SealedBlob(key, method))
BY SealedBlobOpens DEF IdentityInv, StoreSealed, svidVars, memVars

\* main's own sealing key: the join will replace it.
LEMMA GenerateSealingKeyInv ==
    ASSUME IdentityInv, GenerateSealingKey
    PROVE  IdentityInv'
<1>1. /\ pc = "main_sealing" /\ pc' = "join_sealing" /\ fallback' = FALSE
      /\ UNCHANGED <<mode, software_master_key, cert_chain, svid_version,
                     generation, installed, run, redirect_hops, svid_resp,
                     svid_state, calm, registered, issued, losses>>
  BY StoreSealedStep DEF GenerateSealingKey, SealPlaces
<1>2. MainKey[run] \in Keys
  BY KeysOfRun DEF IdentityInv, IdentityTypeOK
<1>3. /\ sealing_key_blob' \in Blob /\ StoredKeyOpens(sealing_key_blob')
      /\ UNCHANGED <<svid_private_key, at_leader>>
  BY <1>2, StoreSealedStep DEF GenerateSealingKey, SealPlaces
<1>4. IdentityTypeOK'
  BY <1>1, <1>3 DEF IdentityInv, IdentityTypeOK, SealPlaces
<1>5. IssuedInRuns' /\ MarkedAfterJoin' /\ ServesVersion'
  BY <1>1 DEF IdentityInv, IssuedInRuns, BeforeAnswer, MarkedAfterJoin, SealPlaces,
              CallPlaces, InstallPlaces, ServesVersion
<1>6. StoredKeysOpen'
  BY <1>1, <1>3 DEF IdentityInv, StoredKeysOpen, StoredKeyOpens
<1>7. InstalledUsable' /\ SealingKeyRegistered'
  BY <1>1, NothingInstalled DEF SealPlaces
<1>8. JoinProgress' /\ InstallProgress'
  BY <1>1 DEF JoinProgress, InstallProgress, CallPlaces, InstallPlaces
<1> QED
  BY <1>4, <1>5, <1>6, <1>7, <1>8 DEF IdentityInv

\* The join's sealing key replaces it.
LEMMA JoinSealingKeyInv ==
    ASSUME IdentityInv, JoinSealingKey
    PROVE  IdentityInv'
<1>1. /\ pc = "join_sealing" /\ pc' = "challenge" /\ fallback' = FALSE
      /\ UNCHANGED <<mode, software_master_key, cert_chain, svid_version,
                     generation, installed, run, redirect_hops, svid_resp,
                     svid_state, calm, registered, issued, losses>>
  BY StoreSealedStep DEF JoinSealingKey, SealPlaces
<1>2. JoinKey[run] \in Keys
  BY KeysOfRun DEF IdentityInv, IdentityTypeOK
<1>3. /\ sealing_key_blob' \in Blob /\ StoredKeyOpens(sealing_key_blob')
      /\ sealing_key_blob'.key = JoinKey[run]
      /\ UNCHANGED svid_private_key /\ at_leader' \in BOOLEAN
  BY <1>2, StoreSealedStep DEF JoinSealingKey, SealPlaces
<1>4. IdentityTypeOK'
  BY <1>1, <1>3 DEF IdentityInv, IdentityTypeOK, JoinedPlaces, CallPlaces
<1>5. IssuedInRuns' /\ MarkedAfterJoin' /\ ServesVersion'
  BY <1>1 DEF IdentityInv, IssuedInRuns, BeforeAnswer, MarkedAfterJoin, SealPlaces,
              CallPlaces, InstallPlaces, ServesVersion
<1>6. StoredKeysOpen'
  BY <1>1, <1>3 DEF IdentityInv, StoredKeysOpen, StoredKeyOpens
<1>7. InstalledUsable' /\ SealingKeyRegistered'
  BY <1>1, NothingInstalled DEF SealPlaces
<1>8. JoinProgress' /\ InstallProgress'
  BY <1>1, <1>3 DEF JoinProgress, InstallProgress, CallPlaces, InstallPlaces
<1> QED
  BY <1>4, <1>5, <1>6, <1>7, <1>8 DEF IdentityInv

\* The SVID's private key is replaced before its certificate exists: the mark is
\* not set, so nothing claims that they fit.
LEMMA GenerateSvidKeyInv ==
    ASSUME IdentityInv, GenerateSvidKey
    PROVE  IdentityInv'
<1>1. /\ pc = "svid_key" /\ pc' = "csr" /\ fallback' = FALSE
      /\ UNCHANGED <<mode, software_master_key, cert_chain, svid_version,
                     generation, installed, run, redirect_hops, svid_resp,
                     svid_state, calm, registered, issued, losses>>
  BY StoreSealedStep DEF GenerateSvidKey, SealPlaces
<1>2. JoinKey[run] \in Keys
  BY KeysOfRun DEF IdentityInv, IdentityTypeOK
<1>3. /\ svid_private_key' \in Blob /\ StoredKeyOpens(svid_private_key')
      /\ svid_private_key'.key = JoinKey[run]
      /\ UNCHANGED <<sealing_key_blob, at_leader>>
  BY <1>2, StoreSealedStep DEF GenerateSvidKey, SealPlaces
<1>4. IdentityTypeOK'
  BY <1>1, <1>3 DEF IdentityInv, IdentityTypeOK, JoinedPlaces, CallPlaces
<1>5. IssuedInRuns' /\ MarkedAfterJoin' /\ ServesVersion'
  BY <1>1 DEF IdentityInv, IssuedInRuns, BeforeAnswer, MarkedAfterJoin, SealPlaces,
              CallPlaces, InstallPlaces, ServesVersion
<1>6. StoredKeysOpen'
  BY <1>1, <1>3 DEF IdentityInv, StoredKeysOpen, StoredKeyOpens
<1>7. InstalledUsable' /\ SealingKeyRegistered'
  BY <1>1, NothingInstalled DEF SealPlaces
<1>8. JoinProgress' /\ InstallProgress'
  BY <1>1, <1>3 DEF IdentityInv, JoinProgress, InstallProgress, CallPlaces,
                    InstallPlaces
<1> QED
  BY <1>4, <1>5, <1>6, <1>7, <1>8 DEF IdentityInv

\* control's part of a call is typed, and registers only this run's sealing key.
LEMMA ProcessedType ==
    ASSUME IdentityInv, pc \in CallPlaces, Processed
    PROVE  /\ registered' \in Keys \cup {NoKey}
           /\ pc = "csr" => issued' = issued + 1
           /\ pc # "csr" => issued' = issued
           /\ pc = "quote" => registered' = JoinKey[run]
           /\ pc = "csr" => registered' = JoinKey[run]
           /\ pc = "challenge" => registered' = registered
<1>1. JoinKey[run] \in Keys
  BY KeysOfRun DEF IdentityInv, IdentityTypeOK
<1>2. pc = "csr" /\ mode # "secure" => registered = JoinKey[run]
  BY DEF IdentityInv, IdentityTypeOK, JoinProgress
<1> QED
  BY <1>1, <1>2 DEF Processed, Registers, IdentityInv, IdentityTypeOK

\* An answer arrives: the last one brings the certificate of this run's key, and
\* by then control has this run's sealing key in either mode.
LEMMA CallAnsweredInv ==
    ASSUME IdentityInv, CallAnswered
    PROVE  IdentityInv'
<1>1. /\ pc \in CallPlaces /\ Processed
      /\ UNCHANGED <<mode, keyVars, svidVars, run, fallback, redirect_hops,
                     svid_state, at_leader, calm, losses>>
  BY DEF CallAnswered
<1>2. /\ pc = "challenge" => \/ mode = "insecure" /\ pc' = "quote"
                             \/ mode = "secure" /\ pc' = "svid_key"
      /\ pc = "quote" => pc' = "svid_key"
      /\ pc = "csr" => pc' = "install_cert"
  BY DEF CallAnswered, CallPlaces, IdentityInv, IdentityTypeOK
<1>3. /\ issued \in Nat /\ run \in Nat /\ losses \in Nat
      /\ run <= MaxRuns /\ losses <= MaxLosses
      /\ issued + 1 <= run + losses
  BY <1>1, IdentityAssumption
     DEF IdentityInv, IdentityTypeOK, Runs, IssuedInRuns, BeforeAnswer, CallPlaces
<1>4. issued + 1 \in Versions
  BY <1>3, IdentityAssumption DEF Versions
<1>5. JoinKey[run] \in Keys
  BY KeysOfRun DEF IdentityInv, IdentityTypeOK
<1>6. /\ pc = "csr" => svid_resp' \in Cert /\ svid_resp'.key = JoinKey[run]
      /\ pc # "csr" => svid_resp' = svid_resp
  BY <1>4, <1>5 DEF CallAnswered, Cert
<1>7. IdentityTypeOK'
  <2>1. issued' \in 0..(MaxRuns + MaxLosses) /\ registered' \in Keys \cup {NoKey}
    BY <1>1, <1>3, ProcessedType, IdentityAssumption
  <2>2. svid_resp' \in Cert \cup {NoCert}
    BY <1>6 DEF IdentityInv, IdentityTypeOK
  <2>3. pc' \in SealPlaces \cup JoinedPlaces
    BY <1>1, <1>2 DEF CallPlaces, SealPlaces, JoinedPlaces
  <2> QED
    BY <1>1, <2>1, <2>2, <2>3 DEF IdentityInv, IdentityTypeOK, keyVars, svidVars
<1>8. IssuedInRuns'
  BY <1>1, <1>2, <1>3, ProcessedType DEF IssuedInRuns, BeforeAnswer, CallPlaces
<1>9. InstalledUsable' /\ SealingKeyRegistered' /\ ~installed'
  BY <1>1, NothingInstalled DEF svidVars
<1>10. MarkedAfterJoin' /\ ServesVersion'
  BY <1>1, <1>2, <1>9 DEF MarkedAfterJoin, ServesVersion, CallPlaces
<1>11. StoredKeysOpen'
  BY <1>1 DEF IdentityInv, StoredKeysOpen, StoredKeyOpens, keyVars
<1>12. JoinProgress'
  BY <1>1, <1>2, <1>6, ProcessedType
     DEF IdentityInv, JoinProgress, CallPlaces, InstallPlaces, keyVars
<1>13. InstallProgress'
  BY <1>1, <1>2 DEF InstallProgress, CallPlaces, InstallPlaces
<1> QED
  BY <1>7, <1>8, <1>9, <1>10, <1>11, <1>12, <1>13 DEF IdentityInv

\* An answer is lost: control has done its part, the join asks again.
LEMMA AnswerLostInv ==
    ASSUME IdentityInv, AnswerLost
    PROVE  IdentityInv'
<1>1. /\ pc \in CallPlaces /\ Processed /\ losses' = losses + 1 /\ losses < MaxLosses
      /\ UNCHANGED <<mode, keyVars, svidVars, run, pc, fallback, memVars,
                     at_leader, calm>>
  BY DEF AnswerLost
<1>2. /\ issued \in Nat /\ run \in Nat /\ losses \in Nat
      /\ run <= MaxRuns /\ losses <= MaxLosses
      /\ issued + 1 <= run + losses
  BY <1>1, IdentityAssumption
     DEF IdentityInv, IdentityTypeOK, Runs, IssuedInRuns, BeforeAnswer, CallPlaces
<1>3. issued' \in {issued, issued + 1} /\ registered' \in Keys \cup {NoKey}
  BY <1>1, ProcessedType
<1>4. issued' \in 0..(MaxRuns + MaxLosses) /\ losses' \in 0..MaxLosses
  BY <1>1, <1>2, <1>3, IdentityAssumption
<1>5. IdentityTypeOK'
  BY <1>1, <1>3, <1>4 DEF IdentityInv, IdentityTypeOK, keyVars, svidVars, memVars
<1>6. IssuedInRuns'
  <2>1. run' = run /\ losses' = losses + 1
    BY <1>1
  <2>2. issued' = issued \/ issued' = issued + 1
    BY <1>3
  <2>3. issued' + 1 <= run' + losses' /\ issued' + 0 <= run' + losses'
    BY <1>2, <2>1, <2>2
  <2> QED
    BY <2>3 DEF IssuedInRuns
<1>7. InstalledUsable' /\ SealingKeyRegistered'
  BY <1>1, NothingInstalled DEF svidVars
<1>8. MarkedAfterJoin' /\ ServesVersion'
  BY <1>1 DEF IdentityInv, MarkedAfterJoin, ServesVersion, svidVars, memVars
<1>9. StoredKeysOpen'
  BY <1>1 DEF IdentityInv, StoredKeysOpen, StoredKeyOpens, keyVars
<1>10. JoinProgress' /\ InstallProgress'
  BY <1>1, ProcessedType
     DEF IdentityInv, JoinProgress, InstallProgress, CallPlaces, InstallPlaces,
         keyVars, svidVars, memVars
<1> QED
  BY <1>5, <1>6, <1>7, <1>8, <1>9, <1>10 DEF IdentityInv

\* A redirect that is followed was allowed; nothing stored changes.
LEMMA CallRedirectedInv ==
    ASSUME IdentityInv, CallRedirected
    PROVE  IdentityInv'
<1>1. /\ ~HopsExceeded /\ redirect_hops' = redirect_hops + 1 /\ at_leader' \in BOOLEAN
      /\ UNCHANGED <<mode, keyVars, svidVars, run, pc, fallback, svid_resp,
                     svid_state, calm, registered, issued, losses>>
  BY DEF CallRedirected
<1>2. redirect_hops' \in 0..(MaxRedirectHops + 1)
  BY <1>1, IdentityAssumption DEF HopsExceeded, IdentityInv, IdentityTypeOK
<1>3. IdentityTypeOK'
  BY <1>1, <1>2 DEF IdentityInv, IdentityTypeOK, keyVars, svidVars
<1>4. IssuedInRuns' /\ MarkedAfterJoin' /\ ServesVersion'
  BY <1>1 DEF IdentityInv, IssuedInRuns, MarkedAfterJoin, ServesVersion, svidVars
<1>5. StoredKeysOpen' /\ InstalledUsable' /\ SealingKeyRegistered'
  BY <1>1, StoreUntouched
<1>6. JoinProgress' /\ InstallProgress'
  BY <1>1 DEF IdentityInv, JoinProgress, InstallProgress, keyVars, svidVars
<1> QED
  BY <1>3, <1>4, <1>5, <1>6 DEF IdentityInv

\* The first insert of svid::store.
LEMMA InstallCertInv ==
    ASSUME IdentityInv, InstallCert
    PROVE  IdentityInv'
<1>1. /\ pc = "install_cert" /\ cert_chain' = svid_resp /\ pc' = "install_version"
      /\ UNCHANGED <<mode, keyVars, svid_version, generation, installed, run,
                     fallback, memVars, controlVars>>
  BY DEF InstallCert
<1>2. IdentityTypeOK'
  BY <1>1 DEF IdentityInv, IdentityTypeOK, JoinedPlaces, keyVars, memVars, controlVars
<1>3. InstalledUsable' /\ SealingKeyRegistered' /\ ~installed'
  BY <1>1, NothingInstalled DEF InstallPlaces
<1>4. IssuedInRuns' /\ MarkedAfterJoin' /\ ServesVersion'
  BY <1>1, <1>3 DEF IdentityInv, IssuedInRuns, BeforeAnswer, MarkedAfterJoin,
                    ServesVersion, controlVars
<1>5. StoredKeysOpen'
  BY <1>1 DEF IdentityInv, StoredKeysOpen, StoredKeyOpens, keyVars
<1>6. JoinProgress' /\ InstallProgress'
  BY <1>1 DEF IdentityInv, JoinProgress, InstallProgress, CallPlaces, InstallPlaces,
              keyVars, memVars, controlVars
<1> QED
  BY <1>2, <1>3, <1>4, <1>5, <1>6 DEF IdentityInv

\* The second.
LEMMA InstallVersionInv ==
    ASSUME IdentityInv, InstallVersion
    PROVE  IdentityInv'
<1>1. /\ pc = "install_version" /\ svid_version' = svid_resp.version
      /\ pc' = "install_generation"
      /\ UNCHANGED <<mode, keyVars, cert_chain, generation, installed, run, fallback,
                     memVars, controlVars>>
  BY DEF InstallVersion
<1>2. svid_version' \in Versions
  BY <1>1 DEF IdentityInv, JoinProgress, InstallPlaces, Cert
<1>3. IdentityTypeOK'
  BY <1>1, <1>2 DEF IdentityInv, IdentityTypeOK, JoinedPlaces, keyVars, memVars,
                    controlVars
<1>4. InstalledUsable' /\ SealingKeyRegistered' /\ ~installed'
  BY <1>1, NothingInstalled DEF InstallPlaces
<1>5. IssuedInRuns' /\ MarkedAfterJoin' /\ ServesVersion'
  BY <1>1, <1>4 DEF IdentityInv, IssuedInRuns, BeforeAnswer, MarkedAfterJoin,
                    ServesVersion, controlVars
<1>6. StoredKeysOpen'
  BY <1>1 DEF IdentityInv, StoredKeysOpen, StoredKeyOpens, keyVars
<1>7. JoinProgress' /\ InstallProgress'
  BY <1>1 DEF IdentityInv, JoinProgress, InstallProgress, CallPlaces, InstallPlaces,
              keyVars, memVars, controlVars
<1> QED
  BY <1>3, <1>4, <1>5, <1>6, <1>7 DEF IdentityInv

\* The third: the generation counts from an unmarked record, so it is 1.
LEMMA InstallGenerationInv ==
    ASSUME IdentityInv, InstallGeneration
    PROVE  IdentityInv'
<1>1. /\ pc = "install_generation" /\ generation' = Loaded.generation + 1
      /\ pc' = "install_flag"
      /\ UNCHANGED <<mode, keyVars, cert_chain, svid_version, installed, run,
                     fallback, memVars, controlVars>>
  BY DEF InstallGeneration
<1>2. InstalledUsable' /\ SealingKeyRegistered' /\ ~installed' /\ ~installed
  BY <1>1, NothingInstalled DEF InstallPlaces
<1>3. generation' = 1
  BY <1>1, <1>2 DEF Loaded, NoSvid
<1>4. IdentityTypeOK'
  BY <1>1, <1>3 DEF IdentityInv, IdentityTypeOK, JoinedPlaces, keyVars, memVars,
                    controlVars
<1>5. IssuedInRuns' /\ MarkedAfterJoin' /\ ServesVersion'
  BY <1>1, <1>2 DEF IdentityInv, IssuedInRuns, BeforeAnswer, MarkedAfterJoin,
                    ServesVersion, controlVars
<1>6. StoredKeysOpen'
  BY <1>1 DEF IdentityInv, StoredKeysOpen, StoredKeyOpens, keyVars
<1>7. JoinProgress' /\ InstallProgress'
  BY <1>1, <1>3 DEF IdentityInv, JoinProgress, InstallProgress, CallPlaces,
                    InstallPlaces, keyVars, memVars, controlVars
<1> QED
  BY <1>2, <1>4, <1>5, <1>6, <1>7 DEF IdentityInv

\* The mark: everything it promises has been stored by this run.
LEMMA InstallFlagInv ==
    ASSUME IdentityInv, InstallFlag
    PROVE  IdentityInv'
<1>1. /\ pc = "install_flag" /\ installed' = TRUE /\ pc' = "bundle"
      /\ UNCHANGED <<mode, keyVars, cert_chain, svid_version, generation, run,
                     fallback, memVars, controlVars>>
  BY DEF InstallFlag
<1>2. IdentityTypeOK'
  BY <1>1 DEF IdentityInv, IdentityTypeOK, JoinedPlaces, keyVars, memVars, controlVars
<1>3. IssuedInRuns' /\ MarkedAfterJoin' /\ ServesVersion'
  BY <1>1 DEF IdentityInv, IssuedInRuns, BeforeAnswer, MarkedAfterJoin, SealPlaces,
              CallPlaces, InstallPlaces, ServesVersion, controlVars
<1>4. StoredKeysOpen'
  BY <1>1 DEF IdentityInv, StoredKeysOpen, StoredKeyOpens, keyVars
<1>5. JoinProgress' /\ InstallProgress'
  BY <1>1 DEF JoinProgress, InstallProgress, CallPlaces, InstallPlaces
<1>6. /\ sealing_key_blob \in Blob /\ sealing_key_blob.key = JoinKey[run]
      /\ svid_private_key \in Blob /\ svid_private_key.key = JoinKey[run]
      /\ registered = JoinKey[run]
      /\ svid_resp \in Cert /\ svid_resp.key = JoinKey[run]
      /\ cert_chain = svid_resp /\ svid_version = svid_resp.version /\ generation = 1
  BY <1>1 DEF IdentityInv, JoinProgress, InstallProgress, InstallPlaces
<1>7. Opens(sealing_key_blob) /\ Opens(svid_private_key)
  BY <1>6, BlobOpens DEF IdentityInv, StoredKeysOpen
<1>8. Opens(sealing_key_blob)' /\ Opens(svid_private_key)'
  BY <1>1, <1>7 DEF Opens, SoftwareOpens, TpmOpens, keyVars
<1>9. cert_chain # NoCert
  BY <1>6 DEF Cert, NoCert, Versions, None
<1>10. InstalledUsable' /\ SealingKeyRegistered'
  BY <1>1, <1>6, <1>8, <1>9
     DEF InstalledUsable, SealingKeyRegistered, keyVars, controlVars
<1> QED
  BY <1>2, <1>3, <1>4, <1>5, <1>10 DEF IdentityInv

\* The join returns.
LEMMA GetTrustBundleInv ==
    ASSUME IdentityInv, GetTrustBundle
    PROVE  IdentityInv'
<1>1. /\ pc = "bundle" /\ pc' = "reload"
      /\ redirect_hops' = 0 /\ svid_resp' = NoCert /\ at_leader' = FALSE
      /\ UNCHANGED <<mode, keyVars, svidVars, run, fallback, svid_state, calm,
                     registered, issued, losses>>
  BY DEF GetTrustBundle
<1>2. IdentityTypeOK'
  <2>1. redirect_hops' \in 0..(MaxRedirectHops + 1)
    BY <1>1, IdentityAssumption
  <2> QED
    BY <1>1, <2>1 DEF IdentityInv, IdentityTypeOK, keyVars, svidVars
<1>3. IssuedInRuns' /\ MarkedAfterJoin' /\ ServesVersion'
  BY <1>1 DEF IdentityInv, IssuedInRuns, BeforeAnswer, MarkedAfterJoin, SealPlaces,
              CallPlaces, InstallPlaces, ServesVersion, svidVars
<1>4. StoredKeysOpen' /\ InstalledUsable' /\ SealingKeyRegistered'
  BY <1>1, StoreUntouched
<1>5. JoinProgress' /\ InstallProgress'
  BY <1>1 DEF JoinProgress, InstallProgress, CallPlaces, InstallPlaces
<1> QED
  BY <1>2, <1>3, <1>4, <1>5 DEF IdentityInv

\* The SVID that the join has installed is read back.
LEMMA ReloadInv ==
    ASSUME IdentityInv, Reload
    PROVE  IdentityInv'
<1>1. /\ pc = "reload" /\ ~LoadFails /\ svid_state' = Loaded /\ pc' = "channel"
      /\ UNCHANGED <<mode, keyVars, svidVars, run, fallback, redirect_hops,
                     svid_resp, controlVars>>
  BY DEF Reload
<1>2. installed
  BY <1>1 DEF IdentityInv, MarkedAfterJoin
<1>3. Loaded \in Svid /\ Loaded.version \in Versions
  BY <1>1, <1>2 DEF IdentityInv, IdentityTypeOK, Loaded, LoadFails, Svid
<1>4. IdentityTypeOK'
  BY <1>1, <1>3 DEF IdentityInv, IdentityTypeOK, keyVars, svidVars, controlVars
<1>5. IssuedInRuns' /\ MarkedAfterJoin'
  BY <1>1, <1>2 DEF IdentityInv, IssuedInRuns, BeforeAnswer, MarkedAfterJoin,
                    SealPlaces, CallPlaces, InstallPlaces, svidVars, controlVars
<1>6. ServesVersion'
  BY <1>1, <1>3 DEF ServesVersion
<1>7. StoredKeysOpen' /\ InstalledUsable' /\ SealingKeyRegistered'
  BY <1>1, StoreUntouched DEF controlVars
<1>8. JoinProgress' /\ InstallProgress'
  BY <1>1 DEF JoinProgress, InstallProgress, CallPlaces, InstallPlaces
<1> QED
  BY <1>4, <1>5, <1>6, <1>7, <1>8 DEF IdentityInv

\* The first channel is open.
LEMMA OpenChannelInv ==
    ASSUME IdentityInv, OpenChannel
    PROVE  IdentityInv'
<1>1. /\ pc = "channel" /\ pc' = "up"
      /\ UNCHANGED <<mode, keyVars, svidVars, run, fallback, memVars, controlVars>>
  BY DEF OpenChannel
<1>2. IdentityTypeOK'
  BY <1>1 DEF IdentityInv, IdentityTypeOK, keyVars, svidVars, memVars, controlVars
<1>3. IssuedInRuns' /\ MarkedAfterJoin' /\ ServesVersion'
  BY <1>1 DEF IdentityInv, IssuedInRuns, BeforeAnswer, MarkedAfterJoin, SealPlaces,
              CallPlaces, InstallPlaces, ServesVersion, svidVars, memVars, controlVars
<1>4. StoredKeysOpen' /\ InstalledUsable' /\ SealingKeyRegistered'
  BY <1>1, StoreUntouched DEF controlVars
<1>5. JoinProgress' /\ InstallProgress'
  BY <1>1 DEF JoinProgress, InstallProgress, CallPlaces, InstallPlaces
<1> QED
  BY <1>2, <1>3, <1>4, <1>5 DEF IdentityInv

\* The process ends, at any place and for any reason: what it had in memory is
\* gone, what was promised by the mark is in the database.
LEMMA EndInv ==
    ASSUME IdentityInv, End
    PROVE  IdentityInv'
<1>1. /\ pc' = "down" /\ fallback' = FALSE /\ at_leader' = FALSE
      /\ redirect_hops' = 0 /\ svid_resp' = NoCert /\ svid_state' = NoSvid
      /\ UNCHANGED <<mode, keyVars, svidVars, run, calm, registered, issued, losses>>
  BY DEF End
<1>2. NoSvid \in Svid
  BY DEF NoSvid, Svid
<1>3. IdentityTypeOK'
  <2>1. redirect_hops' \in 0..(MaxRedirectHops + 1)
    BY <1>1, IdentityAssumption
  <2> QED
    BY <1>1, <1>2, <2>1 DEF IdentityInv, IdentityTypeOK, keyVars, svidVars
<1>4. IssuedInRuns'
  <2>1. issued \in Nat /\ run \in Nat /\ losses \in Nat /\ issued <= run + losses
    BY IdentityAssumption DEF IdentityInv, IdentityTypeOK, Runs, IssuedInRuns
  <2> QED
    BY <1>1, <2>1 DEF IssuedInRuns, BeforeAnswer
<1>5. MarkedAfterJoin' /\ ServesVersion'
  BY <1>1 DEF MarkedAfterJoin, SealPlaces, CallPlaces, InstallPlaces, ServesVersion
<1>6. StoredKeysOpen' /\ InstalledUsable' /\ SealingKeyRegistered'
  BY <1>1, StoreUntouched
<1>7. JoinProgress' /\ InstallProgress'
  BY <1>1 DEF JoinProgress, InstallProgress, CallPlaces, InstallPlaces
<1> QED
  BY <1>3, <1>4, <1>5, <1>6, <1>7 DEF IdentityInv

\* It is started again: one more run that may get a certificate.
LEMMA RestartInv ==
    ASSUME IdentityInv, Restart
    PROVE  IdentityInv'
<1>1. /\ pc = "down" /\ run < MaxRuns /\ run' = run + 1 /\ pc' = "load"
      /\ UNCHANGED <<mode, keyVars, svidVars, fallback, memVars, controlVars>>
  BY DEF Restart
<1>2. run' \in Runs
  BY <1>1, IdentityAssumption DEF IdentityInv, IdentityTypeOK, Runs
<1>3. IdentityTypeOK'
  BY <1>1, <1>2 DEF IdentityInv, IdentityTypeOK, keyVars, svidVars, memVars,
                    controlVars
<1>4. IssuedInRuns'
  <2>1. issued \in Nat /\ run \in Nat /\ losses \in Nat /\ issued <= run + losses
    BY <1>1, IdentityAssumption
       DEF IdentityInv, IdentityTypeOK, Runs, IssuedInRuns, BeforeAnswer
  <2>2. issued' + 1 <= run' + losses'
    BY <1>1, <2>1 DEF controlVars
  <2>3. pc' \in BeforeAnswer
    BY <1>1 DEF BeforeAnswer
  <2> QED
    BY <2>2, <2>3 DEF IssuedInRuns
<1>5. MarkedAfterJoin' /\ ServesVersion'
  BY <1>1 DEF MarkedAfterJoin, SealPlaces, CallPlaces, InstallPlaces, ServesVersion
<1>6. StoredKeysOpen' /\ InstalledUsable' /\ SealingKeyRegistered'
  BY <1>1, StoreUntouched DEF controlVars
<1>7. JoinProgress' /\ InstallProgress'
  BY <1>1 DEF JoinProgress, InstallProgress, CallPlaces, InstallPlaces
<1> QED
  BY <1>3, <1>4, <1>5, <1>6, <1>7 DEF IdentityInv

\* The leader moves or the faults end, or nothing happens to the identity.
LEMMA EnvironmentInv ==
    ASSUME IdentityInv, LeaderMoves \/ FaultsEnd \/ UNCHANGED identityVars
    PROVE  IdentityInv'
<1>1. /\ UNCHANGED <<mode, keyVars, svidVars, run, pc, fallback, memVars,
                     registered, issued, losses>>
      /\ at_leader' \in BOOLEAN /\ calm' \in BOOLEAN
  BY DEF LeaderMoves, FaultsEnd, identityVars, controlVars, IdentityInv, IdentityTypeOK
<1>2. IdentityTypeOK'
  BY <1>1 DEF IdentityInv, IdentityTypeOK, keyVars, svidVars, memVars
<1>3. IssuedInRuns' /\ MarkedAfterJoin' /\ ServesVersion'
  BY <1>1 DEF IdentityInv, IssuedInRuns, MarkedAfterJoin, ServesVersion, svidVars,
              memVars
<1>4. StoredKeysOpen' /\ InstalledUsable' /\ SealingKeyRegistered'
  BY <1>1, StoreUntouched
<1>5. JoinProgress' /\ InstallProgress'
  BY <1>1 DEF IdentityInv, JoinProgress, InstallProgress, keyVars, svidVars, memVars
<1> QED
  BY <1>2, <1>3, <1>4, <1>5 DEF IdentityInv

\* Every step of the identity keeps its invariant, whether or not secrets are
\* delivered beside it.
LEMMA IdentityNextInv ==
    ASSUME IdentityInv, [IdentityNext]_identityVars
    PROVE  IdentityInv'
<1>1. ASSUME ProcessStep PROVE IdentityInv'
  BY <1>1, TpmSealFailsInv, CreateMasterKeyInv, LoadInv, GenerateSealingKeyInv,
     JoinSealingKeyInv, GenerateSvidKeyInv, CallAnsweredInv, AnswerLostInv,
     CallRedirectedInv, InstallCertInv, InstallVersionInv, InstallGenerationInv,
     InstallFlagInv, GetTrustBundleInv, ReloadInv, OpenChannelInv, EndInv
     DEF ProcessStep, Exit
<1> QED
  BY <1>1, RestartInv, EnvironmentInv, EndInv DEF IdentityNext, Die

\* A fresh node has nothing stored.
LEMMA IdentityInitInv ==
    ASSUME IdentityInit
    PROVE  IdentityInv
<1>1. /\ mode \in {"secure", "insecure"}
      /\ sealing_key_blob = NoBlob /\ svid_private_key = NoBlob
      /\ software_master_key = None
      /\ cert_chain = NoCert /\ svid_version = None /\ generation = 0
      /\ installed = FALSE
      /\ run = 1 /\ pc = "load" /\ fallback = FALSE
      /\ redirect_hops = 0 /\ svid_resp = NoCert /\ svid_state = NoSvid
      /\ at_leader = FALSE /\ calm = FALSE
      /\ registered = NoKey /\ issued = 0 /\ losses = 0
  BY DEF IdentityInit
<1>2. IdentityTypeOK
  <2>1. NoSvid \in Svid
    BY DEF NoSvid, Svid
  <2>2. run \in Runs /\ redirect_hops \in 0..(MaxRedirectHops + 1)
    BY <1>1, IdentityAssumption DEF Runs
  <2>3. issued \in 0..(MaxRuns + MaxLosses) /\ losses \in 0..MaxLosses
    BY <1>1, IdentityAssumption
  <2>4. generation \in 0..1
    BY <1>1
  <2>5. /\ installed \in BOOLEAN /\ fallback \in BOOLEAN
        /\ at_leader \in BOOLEAN /\ calm \in BOOLEAN
    BY <1>1
  <2>6. /\ pc \in SealPlaces \cup JoinedPlaces \cup {"load", "reload", "channel", "up", "down"}
        /\ sealing_key_blob \in Blob \cup {NoBlob}
        /\ svid_private_key \in Blob \cup {NoBlob}
        /\ software_master_key \in Runs \cup {None}
        /\ cert_chain \in Cert \cup {NoCert} /\ svid_resp \in Cert \cup {NoCert}
        /\ svid_version \in Versions \cup {None}
        /\ registered \in Keys \cup {NoKey}
    BY <1>1
  <2> QED
    BY <1>1, <2>1, <2>2, <2>3, <2>4, <2>5, <2>6 DEF IdentityTypeOK
<1>3. IssuedInRuns /\ MarkedAfterJoin /\ ServesVersion
  BY <1>1 DEF IssuedInRuns, BeforeAnswer, MarkedAfterJoin, SealPlaces, CallPlaces,
              InstallPlaces, ServesVersion
<1>4. StoredKeysOpen /\ InstalledUsable /\ SealingKeyRegistered
  BY <1>1 DEF StoredKeysOpen, StoredKeyOpens, InstalledUsable, SealingKeyRegistered
<1>5. JoinProgress /\ InstallProgress
  BY <1>1 DEF JoinProgress, InstallProgress, CallPlaces, InstallPlaces
<1> QED
  BY <1>2, <1>3, <1>4, <1>5 DEF IdentityInv

---------------------------------------------------------------------------
(* One lemma per action of the handler. *)

\* The handler is done with an event, or never had one.
LEMMA DoneInv ==
    ASSUME DeliveryInv, Done, hpc # "cache",
           UNCHANGED <<sequences, files, secrets, delivered>>
    PROVE  DeliveryInv'
<1>1. DeliveryTypeOK'
  BY DEF DeliveryInv, DeliveryTypeOK, Done
<1>2. HandlerProgress'
  BY DEF HandlerProgress, Done
<1>3. RecordedBeforeDelivered'
  BY DEF DeliveryInv, RecordedBeforeDelivered, Done
<1>4. CacheOnDisk'
  BY DEF DeliveryInv, CacheOnDisk, Done
<1> QED
  BY <1>1, <1>2, <1>3, <1>4 DEF DeliveryInv

\* An event is taken for a version that control may have issued.
LEMMA NotifiedInv ==
    ASSUME DeliveryInv, NEW t \in Targets, NEW v \in Versions, Notified(t, v)
    PROVE  DeliveryInv'
<1>1. /\ event' \in Event /\ hpc' = "fetch" /\ hpc = "idle"
      /\ UNCHANGED <<sequences, files, secrets, sealed, delivered>>
  BY DEF Notified, Event
<1>2. DeliveryTypeOK'
  BY <1>1 DEF DeliveryInv, DeliveryTypeOK
<1>3. HandlerProgress' /\ RecordedBeforeDelivered'
  BY <1>1 DEF DeliveryInv, HandlerProgress, RecordedBeforeDelivered
<1>4. CacheOnDisk'
  BY <1>1 DEF DeliveryInv, CacheOnDisk
<1> QED
  BY <1>2, <1>3, <1>4 DEF DeliveryInv

\* An answer arrives: a new secret, a repeated one, or one nobody asked for.
LEMMA FetchSecretInv ==
    ASSUME DeliveryInv, NEW x \in Secret, FetchSecret(x)
    PROVE  DeliveryInv'
<1>1. /\ hpc = "fetch" /\ hpc' = "check" /\ sealed' = x
      /\ UNCHANGED <<sequences, files, secrets, event, delivered>>
  BY DEF FetchSecret
<1>2. DeliveryTypeOK'
  BY <1>1 DEF DeliveryInv, DeliveryTypeOK
<1>3. HandlerProgress' /\ RecordedBeforeDelivered'
  BY <1>1 DEF DeliveryInv, HandlerProgress, RecordedBeforeDelivered
<1>4. CacheOnDisk'
  BY <1>1 DEF DeliveryInv, CacheOnDisk
<1> QED
  BY <1>2, <1>3, <1>4 DEF DeliveryInv

\* check_and_record accepts only what is newer than everything recorded, hence
\* than everything delivered.
LEMMA CheckAndRecordInv ==
    ASSUME DeliveryInv, CheckAndRecord
    PROVE  DeliveryInv'
<1>1. hpc = "check" /\ UNCHANGED <<files, secrets, delivered>>
  BY DEF CheckAndRecord
<1>2. CASE Done /\ UNCHANGED sequences
  BY <1>1, <1>2, DoneInv
<1>3. CASE /\ sealed.sequence > sequences[sealed.target][sealed.version]
           /\ sequences' = [sequences EXCEPT ![sealed.target][sealed.version] =
                                sealed.sequence]
           /\ hpc' = "unseal"
           /\ UNCHANGED <<event, sealed>>
  <2>1. /\ event \in Event /\ sealed \in Secret
        /\ sealed.target \in Ids /\ sealed.version \in Versions
        /\ sealed.sequence \in 0..MaxSequence
    BY <1>1 DEF DeliveryInv, HandlerProgress, Secret
  <2>2. /\ sequences \in [Ids -> [Versions -> 0..MaxSequence]]
        /\ delivered \subseteq Secret
    BY DEF DeliveryInv, DeliveryTypeOK
  <2>3. /\ sequences' \in [Ids -> [Versions -> 0..MaxSequence]]
        /\ sequences'[sealed.target][sealed.version] = sealed.sequence
        /\ \A t \in Ids, v \in Versions :
              t # sealed.target \/ v # sealed.version =>
                  sequences'[t][v] = sequences[t][v]
    BY <1>3, <2>1, <2>2
  <2>4. DeliveryTypeOK'
    BY <1>1, <1>3, <2>3 DEF DeliveryInv, DeliveryTypeOK
  <2>5. HandlerProgress'
    BY <1>1, <1>3, <2>1, <2>3 DEF HandlerProgress
  <2>6. RecordedBeforeDelivered'
    <3> SUFFICES ASSUME NEW d \in delivered
                 PROVE  /\ d.sequence <= sequences'[d.target][d.version]
                        /\ d.target = sealed.target /\ d.version = sealed.version
                              => d.sequence < sealed.sequence
      BY <1>1, <1>3 DEF RecordedBeforeDelivered
    <3>1. /\ d.target \in Ids /\ d.version \in Versions
          /\ d.sequence \in 0..MaxSequence
      BY <2>2 DEF Secret
    <3>2. d.sequence <= sequences[d.target][d.version]
      BY DEF DeliveryInv, RecordedBeforeDelivered
    <3>3. /\ sequences[d.target][d.version] \in 0..MaxSequence
          /\ sequences[sealed.target][sealed.version] \in 0..MaxSequence
      BY <2>1, <2>2, <3>1
    <3>4. CASE d.target = sealed.target /\ d.version = sealed.version
      <4>1. d.sequence < sealed.sequence
        BY <1>3, <2>1, <3>1, <3>2, <3>3, <3>4, DeliveryAssumption
      <4> QED
        BY <2>1, <2>3, <3>1, <3>4, <4>1, DeliveryAssumption
    <3>5. CASE ~(d.target = sealed.target /\ d.version = sealed.version)
      BY <2>3, <3>1, <3>2, <3>5
    <3> QED
      BY <3>4, <3>5
  <2>7. CacheOnDisk'
    BY <1>1, <1>3 DEF DeliveryInv, CacheOnDisk
  <2> QED
    BY <2>4, <2>5, <2>6, <2>7 DEF DeliveryInv
<1> QED
  BY <1>2, <1>3 DEF CheckAndRecord

\* The file is opened, which empties it.
LEMMA UnsealInv ==
    ASSUME DeliveryInv, Unseal
    PROVE  DeliveryInv'
<1>1. /\ hpc = "unseal" /\ hpc' = "write"
      /\ files' = [files EXCEPT ![event.target] = Truncated]
      /\ UNCHANGED <<sequences, secrets, event, sealed, delivered>>
  BY DEF Unseal
<1>2. DeliveryTypeOK'
  BY <1>1 DEF DeliveryInv, DeliveryTypeOK
<1>3. HandlerProgress' /\ RecordedBeforeDelivered'
  BY <1>1 DEF DeliveryInv, HandlerProgress, RecordedBeforeDelivered
<1>4. CacheOnDisk'
  BY <1>1 DEF DeliveryInv, DeliveryTypeOK, CacheOnDisk
<1> QED
  BY <1>2, <1>3, <1>4 DEF DeliveryInv

\* The accepted secret is written, and is from now on among the delivered.
LEMMA WriteInv ==
    ASSUME DeliveryInv, Write
    PROVE  DeliveryInv'
<1>1. /\ hpc = "write" /\ hpc' = "cache"
      /\ files' = [files EXCEPT ![event.target] = sealed]
      /\ delivered' = delivered \cup {sealed}
      /\ UNCHANGED <<sequences, secrets, event, sealed>>
  BY DEF Write
<1>2. /\ event \in Event /\ event.target \in Targets
      /\ sealed \in Secret
      /\ sealed.sequence = sequences[sealed.target][sealed.version]
      /\ sealed.sequence \in 0..MaxSequence
  BY <1>1 DEF DeliveryInv, HandlerProgress, Event, Secret
<1>3. /\ files' \in [Targets -> Secret \cup {NoSecret, Truncated}]
      /\ files'[event.target] = sealed
      /\ \A t \in Targets : t # event.target => files'[t] = files[t]
  BY <1>1, <1>2 DEF DeliveryInv, DeliveryTypeOK
<1>4. DeliveryTypeOK'
  BY <1>1, <1>2, <1>3 DEF DeliveryInv, DeliveryTypeOK
<1>5. HandlerProgress'
  BY <1>1, <1>2, <1>3 DEF HandlerProgress
<1>6. RecordedBeforeDelivered'
  <2>1. sealed.sequence <= sequences[sealed.target][sealed.version]
    BY <1>2, DeliveryAssumption
  <2> QED
    BY <1>1, <2>1 DEF DeliveryInv, RecordedBeforeDelivered
<1>7. CacheOnDisk'
  BY <1>1, <1>3 DEF DeliveryInv, CacheOnDisk
<1> QED
  BY <1>4, <1>5, <1>6, <1>7 DEF DeliveryInv

\* The cache follows the file.
LEMMA CacheInv ==
    ASSUME DeliveryInv, Cache
    PROVE  DeliveryInv'
<1>1. /\ hpc = "cache" /\ hpc' = "idle" /\ event' = NoEvent /\ sealed' = NoSecret
      /\ secrets' = [secrets EXCEPT ![event.target] = sealed]
      /\ UNCHANGED <<sequences, files, delivered>>
  BY DEF Cache, Done
<1>2. /\ event.target \in Targets /\ sealed \in Secret
      /\ files[event.target] = sealed
  BY <1>1 DEF DeliveryInv, HandlerProgress, Event
<1>3. /\ secrets' \in [Targets -> Secret \cup {NoSecret}]
      /\ secrets'[event.target] = sealed
      /\ \A t \in Targets : t # event.target => secrets'[t] = secrets[t]
  BY <1>1, <1>2 DEF DeliveryInv, DeliveryTypeOK
<1>4. DeliveryTypeOK'
  BY <1>1, <1>3 DEF DeliveryInv, DeliveryTypeOK
<1>5. HandlerProgress' /\ RecordedBeforeDelivered'
  BY <1>1 DEF DeliveryInv, HandlerProgress, RecordedBeforeDelivered
<1>6. CacheOnDisk'
  BY <1>1, <1>2, <1>3 DEF DeliveryInv, CacheOnDisk
<1> QED
  BY <1>4, <1>5, <1>6 DEF DeliveryInv

\* The process ends: nothing is cached and no event is in work.
LEMMA ProcessEndsInv ==
    ASSUME DeliveryInv, ProcessEnds
    PROVE  DeliveryInv'
<1>1. /\ hpc' = "idle" /\ event' = NoEvent /\ sealed' = NoSecret
      /\ secrets' = [t \in Targets |-> NoSecret]
      /\ UNCHANGED <<sequences, files, delivered>>
  BY DEF ProcessEnds, Done
<1>2. DeliveryTypeOK'
  BY <1>1 DEF DeliveryInv, DeliveryTypeOK
<1>3. HandlerProgress' /\ RecordedBeforeDelivered'
  BY <1>1 DEF DeliveryInv, HandlerProgress, RecordedBeforeDelivered
<1>4. CacheOnDisk'
  BY <1>1 DEF CacheOnDisk
<1> QED
  BY <1>2, <1>3, <1>4 DEF DeliveryInv

---------------------------------------------------------------------------
(* The invariant of the whole, and what follows from it. *)

\* The delivery disturbs the identity only by ending its process: every step of
\* the whole is a step of the identity or leaves it alone.
LEMMA StepOfIdentity ==
    [Next]_vars => [IdentityNext]_identityVars
BY DEF Next, vars, IdentityNext, ProcessEnds, SecretRotation, SvidRotation, Notified,
       Deliver, FetchSecret, FetchFails, CheckAndRecord, Unseal, DeliveryFails, Write,
       Cache

\* Every step keeps the invariant.
LEMMA NextInv == IInv /\ [Next]_vars => IInv'
<1> SUFFICES ASSUME IInv, [Next]_vars PROVE IInv'
  OBVIOUS
<1>1. IdentityInv'
  BY StepOfIdentity, IdentityNextInv DEF IInv
<1>2. ASSUME UNCHANGED deliveryVars PROVE DeliveryInv'
  BY <1>2 DEF IInv, DeliveryInv, DeliveryTypeOK, HandlerProgress,
              RecordedBeforeDelivered, CacheOnDisk, deliveryVars
<1>3. ASSUME ProcessEnds PROVE DeliveryInv'
  BY <1>3, ProcessEndsInv DEF IInv
<1>4. ASSUME NEW t \in Targets, SecretRotation(t) PROVE DeliveryInv'
  <2>1. svid_state.version \in Versions
    BY <1>4 DEF SecretRotation, Notified, IInv, IdentityInv, ServesVersion
  <2> QED
    BY <1>4, <2>1, NotifiedInv DEF SecretRotation, IInv
<1>5. ASSUME NEW t \in Targets, SvidRotation(t) PROVE DeliveryInv'
  BY <1>5, NotifiedInv, DeliveryAssumption DEF SvidRotation, IInv
<1>6. ASSUME Deliver PROVE DeliveryInv'
  <2>1. ASSUME FetchFails \/ DeliveryFails PROVE DeliveryInv'
    BY <2>1, DoneInv DEF IInv, FetchFails, DeliveryFails
  <2> QED
    BY <1>6, <2>1, FetchSecretInv, CheckAndRecordInv, UnsealInv, WriteInv, CacheInv
       DEF Deliver, IInv
<1> QED
  BY <1>1, <1>2, <1>3, <1>4, <1>5, <1>6 DEF Next, vars, IInv

\* A fresh node has delivered nothing.
LEMMA InitInv == Init => IInv
<1> SUFFICES ASSUME Init PROVE IInv
  OBVIOUS
<1>1. IdentityInv
  BY IdentityInitInv DEF Init
<1>2. /\ event = NoEvent /\ sealed = NoSecret /\ hpc = "idle" /\ delivered = {}
      /\ files = [t \in Targets |-> NoSecret]
      /\ secrets = [t \in Targets |-> NoSecret]
  BY DEF Init
<1>3. DeliveryTypeOK
  <2>1. sequences \in [Ids -> [Versions -> 0..MaxSequence]]
    BY DeliveryAssumption DEF Init
  <2> QED
    BY <1>2, <2>1 DEF DeliveryTypeOK
<1>4. HandlerProgress /\ RecordedBeforeDelivered /\ CacheOnDisk
  BY <1>2 DEF HandlerProgress, RecordedBeforeDelivered, CacheOnDisk
<1> QED
  BY <1>1, <1>3, <1>4 DEF IInv, DeliveryInv

\* The strengthened invariant holds of every behaviour.
THEOREM InvariantHolds == Spec => []IInv
BY InitInv, NextInv, PTL DEF Spec

\* Types; among them that control never issues more certificates than there are
\* runs and lost answers, and that the join stops after MAX_REDIRECT_HOPS.
THEOREM TypeCorrect == Spec => []TypeOK
<1>1. IInv => TypeOK
  BY DEF IInv, IdentityInv, DeliveryInv, DeliveryTypeOK, TypeOK
<1> QED
  BY <1>1, InvariantHolds, PTL

\* Wherever the process dies between two inserts of the join, however often it
\* is started again: svid::load finds a mark only beside a certificate, a version
\* and a generation of one issuance, and beside the private key certified.
THEOREM InstalledIsUsable == Spec => []InstalledUsable
<1>1. IInv => InstalledUsable
  BY DEF IInv, IdentityInv
<1> QED
  BY <1>1, InvariantHolds, PTL

\* The sealing key control has of an installed node is the one load_sealed
\* returns, although each join generates two and may be repeated.
THEOREM SealingKeyIsRegistered == Spec => []SealingKeyRegistered
<1>1. IInv => SealingKeyRegistered
  BY DEF IInv, IdentityInv
<1> QED
  BY <1>1, InvariantHolds, PTL

\* The cache of secrets is never ahead of /run/fleetos/secrets.
THEOREM CacheIsOnDisk == Spec => []CacheOnDisk
<1>1. IInv => CacheOnDisk
  BY DEF IInv, DeliveryInv
<1> QED
  BY <1>1, InvariantHolds, PTL

\* check_and_record lets nothing be written twice or out of order, across any
\* number of restarts and of repeated or mixed up answers.
THEOREM NothingReplayed == Spec => NoReplay
<1>1. ASSUME IInv, [Next]_vars, NEW t \in Targets,
             files'[t] # files[t], files'[t] \in Secret,
             NEW d \in delivered,
             d.target = files'[t].target, d.version = files'[t].version
      PROVE  d.sequence < files'[t].sequence
  <2>1. Write
    <3>1. Truncated \notin Secret
      BY DEF Truncated, Secret, Versions, None
    <3>2. files \in [Targets -> Secret \cup {NoSecret, Truncated}]
      BY <1>1 DEF IInv, DeliveryInv, DeliveryTypeOK
    <3>3. ~Unseal
      BY <1>1, <3>1, <3>2 DEF Unseal
    <3>4. files' # files
      BY <1>1
    <3> QED
      BY <1>1, <3>3, <3>4
         DEF Next, vars, deliveryVars, ProcessEnds, SecretRotation, SvidRotation,
             Notified, Deliver, FetchSecret, FetchFails, CheckAndRecord,
             DeliveryFails, Cache
  <2>2. files'[t] = sealed /\ hpc = "write"
    BY <1>1, <2>1 DEF Write, IInv, DeliveryInv, DeliveryTypeOK, HandlerProgress
  <2> QED
    BY <1>1, <2>2 DEF IInv, DeliveryInv, RecordedBeforeDelivered
<1>2. IInv /\ [Next]_vars =>
          [\A t \in Targets : files'[t] # files[t] /\ files'[t] \in Secret =>
              \A d \in delivered :
                  d.target = files'[t].target /\ d.version = files'[t].version
                      => d.sequence < files'[t].sequence]_vars
  BY <1>1
<1> QED
  BY <1>2, InvariantHolds, PTL DEF Spec, NoReplay

\* A process that serves can open its sealing key and unseal what control seals
\* for this node: an answer that is not malformed is never lost for the key's sake.
THEOREM ServingCanUnseal ==
    Spec => [](pc = "up" => Opens(sealing_key_blob) /\ sealing_key_blob.key = registered)
<1>1. IInv => (pc = "up" => Opens(sealing_key_blob) /\ sealing_key_blob.key = registered)
  BY DEF IInv, IdentityInv, MarkedAfterJoin, SealingKeyRegistered
<1> QED
  BY <1>1, InvariantHolds, PTL

\* The composition: seen from the identity alone, the agent that delivers secrets
\* is the agent of NodeIdentity, so what holds of that specification holds of it.
THEOREM ImplementsIdentity == Spec => IdentitySpec
<1>1. Init => IdentityInit
  BY DEF Init
<1> QED
  BY <1>1, StepOfIdentity, PTL DEF Spec, IdentitySpec

=============================================================================
