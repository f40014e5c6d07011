----------------------------- MODULE NodeIdentity -----------------------------
(***************************************************************************)
(* The node's identity from the first start to the first mTLS channel:     *)
(* main.rs phases 2 to 5, the join (join/), the keystore                   *)
(* (identity/keystore.rs) and the SVID record (identity/svid.rs).          *)
(*                                                                         *)
(* The process may end at any step, by an error main returns or by a       *)
(* crash, and is started again.  What a returned insert wrote survives;    *)
(* everything else is lost.  Every insert is a step of its own.            *)
(*                                                                         *)
(* Keys are named by the run of the process that generated them.  The join *)
(* replaces the sealing key that main has generated in the same run.       *)
(***************************************************************************)
EXTENDS Integers

CONSTANTS
    MaxRedirectHops,    \* MAX_REDIRECT_HOPS
    MaxRuns,            \* bound: starts of the process
    MaxLosses           \* bound: answers of control that are lost

ASSUME IdentityAssumption ==
    /\ MaxRedirectHops \in Nat
    /\ MaxRuns \in Nat \ {0}
    /\ MaxLosses \in Nat

Runs == 1..MaxRuns
Versions == 1..(MaxRuns + MaxLosses)

VARIABLES
    mode,                   \* config.join.mode
    \* the fjall database
    sealing_key_blob, svid_private_key, software_master_key,
    cert_chain, svid_version, generation, installed,
    \* the process
    run, pc,
    fallback,               \* TPM sealing has failed in this store_sealed
    redirect_hops,
    svid_resp,              \* the answer with the certificate
    svid_state,             \* the snapshot in memory
    \* control
    at_leader,              \* the node the join is connected to is the leader
    calm,                   \* no more faults, the leader stays
    registered,             \* the public sealing key control has of this node
    issued,                 \* certificates issued to this node
    losses

keyVars == <<sealing_key_blob, svid_private_key, software_master_key>>
svidVars == <<cert_chain, svid_version, generation, installed>>
memVars == <<redirect_hops, svid_resp, svid_state>>
controlVars == <<at_leader, calm, registered, issued, losses>>
identityVars == <<mode, keyVars, svidVars, run, pc, fallback, memVars, controlVars>>

None == 0

MainKey == [n \in Runs |-> [run |-> n, by |-> "main"]]
JoinKey == [n \in Runs |-> [run |-> n, by |-> "join"]]
Keys == [run : Runs, by : {"main", "join"}]
NoKey == [run |-> 0, by |-> "none"]

\* A sealed private key: bound to the TPM, directly or through an envelope, or
\* encrypted for the software master key of some run.
Blob == [key : Keys, method : {"tpm", "envelope", "software"}, master : Runs \cup {None}]
NoBlob == [key |-> NoKey, method |-> "none", master |-> None]

Cert == [key : Keys, version : Versions]
NoCert == [key |-> NoKey, version |-> None]

Svid == [cert : Cert \cup {NoCert}, version : Versions \cup {None}, generation : 0..1]
NoSvid == [cert |-> NoCert, version |-> None, generation |-> 0]

IdentityInit ==
    /\ mode \in {"secure", "insecure"}
    /\ sealing_key_blob = NoBlob /\ svid_private_key = NoBlob
    /\ software_master_key = None
    /\ cert_chain = NoCert /\ svid_version = None /\ generation = 0
    /\ installed = FALSE
    /\ run = 1 /\ pc = "load" /\ fallback = FALSE
    /\ redirect_hops = 0 /\ svid_resp = NoCert /\ svid_state = NoSvid
    /\ at_leader = FALSE /\ calm = FALSE
    /\ registered = NoKey /\ issued = 0 /\ losses = 0

---------------------------------------------------------------------------
(* store_sealed and load_sealed. *)

SealPlaces == {"main_sealing", "join_sealing", "svid_key"}

\* No TPM endpoint, or sealing with it has failed.
Software == mode = "insecure" \/ fallback

TpmSealFails ==
    /\ pc \in SealPlaces /\ ~Software /\ ~calm
    /\ fallback' = TRUE
    /\ UNCHANGED <<mode, keyVars, svidVars, run, pc, memVars, controlVars>>

\* get_or_create_software_master_key, where it creates: an insert before the
\* one of the blob.
CreateMasterKey ==
    /\ pc \in SealPlaces /\ Software /\ software_master_key = None
    /\ software_master_key' = run
    /\ UNCHANGED <<mode, sealing_key_blob, svid_private_key, svidVars, run, pc,
                   fallback, memVars, controlVars>>

SoftwareSeal(key) == [key |-> key, method |-> "software", master |-> software_master_key]

\* directly, or with an envelope if the payload is long.
TpmSeal(key, method) == [key |-> key, method |-> method, master |-> None]

SealedBlob(key, method) == IF Software THEN SoftwareSeal(key) ELSE TpmSeal(key, method)

StoreSealed(place, next) ==
    /\ pc = place
    /\ Software => software_master_key # None
    /\ fallback' = FALSE
    /\ pc' = next
    /\ UNCHANGED <<mode, software_master_key, svidVars, run, memVars, calm,
                   registered, issued, losses>>


SoftwareOpens(blob) == blob.master = software_master_key

\* The seal is bound to PCRs 0, 7 and 9: every run is taken to be of the same
\* boot chain.  An unsealing that is refused all the same ends the process (Die).
TpmOpens == mode = "secure"

Opens(blob) ==
    /\ blob # NoBlob
    /\ IF blob.method = "software" THEN SoftwareOpens(blob) ELSE TpmOpens

---------------------------------------------------------------------------
(* main: load the SVID, or join. *)

\* svid::load: the record, or the default as long as it is not marked.
Loaded ==
    IF installed
    THEN [cert |-> cert_chain, version |-> svid_version, generation |-> generation]
    ELSE NoSvid

LoadFails ==
    installed /\ (cert_chain = NoCert \/ svid_version = None \/ generation = 0)

Load ==
    /\ pc = "load" /\ ~LoadFails
    /\ svid_state' = Loaded
    /\ pc' = IF Loaded.cert = NoCert THEN "main_sealing" ELSE "channel"
    /\ UNCHANGED <<mode, keyVars, svidVars, run, fallback, redirect_hops,
                   svid_resp, controlVars>>

GenerateSealingKey ==
    /\ StoreSealed("main_sealing", "join_sealing")
    /\ sealing_key_blob' = SealedBlob(MainKey[run], "tpm")
    /\ UNCHANGED <<svid_private_key, at_leader>>

---------------------------------------------------------------------------
(* perform_secure_join, perform_insecure_join. *)

\* The sealing key of the join; then the connection to the configured address.
BugJoinSealingKey ==
    /\ StoreSealed("join_sealing", "challenge")
    /\ at_leader' \in BOOLEAN
    /\ UNCHANGED <<sealing_key_blob, svid_private_key>>

JoinSealingKey ==
    /\ StoreSealed("join_sealing", "challenge")
    /\ sealing_key_blob' = SealedBlob(JoinKey[run], "tpm")
    /\ at_leader' \in BOOLEAN
    /\ UNCHANGED svid_private_key

CallPlaces == {"challenge", "quote", "csr"}

\* The join is connected.
JoinedPlaces ==
    CallPlaces \cup {"svid_key", "install_cert", "install_version",
                     "install_generation", "install_flag", "bundle"}

\* The new private key replaces the stored one before its certificate exists.
GenerateSvidKey ==
    /\ StoreSealed("svid_key", "csr")
    /\ svid_private_key' = SealedBlob(JoinKey[run], "envelope")
    /\ UNCHANGED <<sealing_key_blob, at_leader>>

\* What control does with a call: the sealing key comes with the proof in a
\* secure join, with the quote in an insecure one.
Registers == pc = "quote" \/ (pc = "csr" /\ mode = "secure")

Processed ==
    /\ registered' = IF Registers THEN JoinKey[run] ELSE registered
    /\ issued' = IF pc = "csr" THEN issued + 1 ELSE issued

\* RequestActivation / RequestNonce, SubmitQuote, SubmitActivationProof /
\* SubmitCsr: the answer arrives.
CallAnswered ==
    /\ pc \in CallPlaces /\ at_leader
    /\ Processed
    /\ svid_resp' = IF pc = "csr"
                    THEN [key |-> JoinKey[run], version |-> issued + 1] ELSE svid_resp
    /\ pc' = CASE pc = "challenge" /\ mode = "insecure" -> "quote"
               [] pc = "challenge" /\ mode = "secure" -> "svid_key"
               [] pc = "quote" -> "svid_key"
               [] pc = "csr" -> "install_cert"
    /\ UNCHANGED <<mode, keyVars, svidVars, run, fallback, redirect_hops,
                   svid_state, at_leader, calm, losses>>

BugHopsExceeded == redirect_hops > MaxRedirectHops + 1

HopsExceeded == redirect_hops > MaxRedirectHops

\* UNAVAILABLE instead of an answer, although control has done its part: the
\* same call again, for as long as it takes.  (Where control has not, the call
\* is repeated and nothing has changed; any other error ends the process.)
AnswerLost ==
    /\ pc \in CallPlaces /\ at_leader /\ ~calm /\ ~HopsExceeded /\ losses < MaxLosses
    /\ Processed
    /\ losses' = losses + 1
    /\ UNCHANGED <<mode, keyVars, svidVars, run, pc, fallback, memVars, at_leader, calm>>

\* A follower answers with the leader's address; the hops of all calls of one
\* join are counted together.
CallRedirected ==
    /\ pc \in CallPlaces /\ ~at_leader /\ ~HopsExceeded
    /\ redirect_hops' = redirect_hops + 1
    /\ at_leader' \in IF calm THEN {TRUE} ELSE BOOLEAN
    /\ UNCHANGED <<mode, keyVars, svidVars, run, pc, fallback, svid_resp, svid_state,
                   calm, registered, issued, losses>>

\* svid::store: four inserts, the mark last.
BugInstallCert ==
    /\ pc = "install_cert"
    /\ cert_chain' = svid_resp
    /\ installed' = TRUE
    /\ pc' = "install_version"
    /\ UNCHANGED <<mode, keyVars, svid_version, generation, run, fallback, memVars,
                   controlVars>>

InstallCert ==
    /\ pc = "install_cert"
    /\ cert_chain' = svid_resp
    /\ pc' = "install_version"
    /\ UNCHANGED <<mode, keyVars, svid_version, generation, installed, run,
                   fallback, memVars, controlVars>>

InstallVersion ==
    /\ pc = "install_version"
    /\ svid_version' = svid_resp.version
    /\ pc' = "install_generation"
    /\ UNCHANGED <<mode, keyVars, cert_chain, generation, installed, run, fallback,
                   memVars, controlVars>>

InstallGeneration ==
    /\ pc = "install_generation"
    /\ generation' = Loaded.generation + 1
    /\ pc' = "install_flag"
    /\ UNCHANGED <<mode, keyVars, cert_chain, svid_version, installed, run,
                   fallback, memVars, controlVars>>

InstallFlag ==
    /\ pc = "install_flag"
    /\ installed' = TRUE
    /\ pc' = "bundle"
    /\ UNCHANGED <<mode, keyVars, cert_chain, svid_version, generation, run,
                   fallback, memVars, controlVars>>

\* GetTrustBundle is not retried: a follower's redirect ends the process.  The
\* join returns.
GetTrustBundle ==
    /\ pc = "bundle" /\ at_leader
    /\ pc' = "reload"
    /\ redirect_hops' = 0 /\ svid_resp' = NoCert /\ at_leader' = FALSE
    /\ UNCHANGED <<mode, keyVars, svidVars, run, fallback, svid_state, calm,
                   registered, issued, losses>>

Reload ==
    /\ pc = "reload" /\ ~LoadFails
    /\ svid_state' = Loaded
    /\ pc' = "channel"
    /\ UNCHANGED <<mode, keyVars, svidVars, run, fallback, redirect_hops,
                   svid_resp, controlVars>>

\* get_channel with the stored key and the certificate in memory; the rest of
\* the start-up follows.
OpenChannel ==
    /\ pc = "channel" /\ Opens(svid_private_key)
    /\ pc' = "up"
    /\ UNCHANGED <<mode, keyVars, svidVars, run, fallback, memVars, controlVars>>

---------------------------------------------------------------------------
(* The process ends and is started again. *)

\* An error ends the process even without a fault: a record that cannot be
\* loaded or opened, a redirect too many, a redirect of GetTrustBundle.
MustExit ==
    \/ pc \in {"load", "reload"} /\ LoadFails
    \/ pc = "channel" /\ ~Opens(svid_private_key)
    \/ pc \in CallPlaces /\ ~at_leader /\ HopsExceeded
    \/ pc = "bundle" /\ ~at_leader

\* With a fault it ends anywhere, by another error or by a crash.  Its memory is
\* gone, the database stays.
End ==
    /\ pc' = "down"
    /\ fallback' = FALSE /\ at_leader' = FALSE
    /\ redirect_hops' = 0 /\ svid_resp' = NoCert /\ svid_state' = NoSvid
    /\ UNCHANGED <<mode, keyVars, svidVars, run, calm, registered, issued, losses>>

Exit == MustExit /\ End

Die == pc # "down" /\ ~calm /\ End

Restart ==
    /\ pc = "down" /\ run < MaxRuns
    /\ run' = run + 1
    /\ pc' = "load"
    /\ UNCHANGED <<mode, keyVars, svidVars, fallback, memVars, controlVars>>

\* External: the leader moves; the faults end, one more run being possible.
LeaderMoves ==
    /\ pc \in JoinedPlaces /\ ~calm
    /\ at_leader' = ~at_leader
    /\ UNCHANGED <<mode, keyVars, svidVars, run, pc, fallback, memVars, calm,
                   registered, issued, losses>>

FaultsEnd ==
    /\ ~calm /\ run < MaxRuns
    /\ calm' = TRUE
    /\ UNCHANGED <<mode, keyVars, svidVars, run, pc, fallback, memVars, at_leader,
                   registered, issued, losses>>

ProcessStep ==
    \/ TpmSealFails \/ CreateMasterKey
    \/ Load \/ GenerateSealingKey \/ JoinSealingKey \/ GenerateSvidKey
    \/ CallAnswered \/ AnswerLost \/ CallRedirected
    \/ InstallCert \/ InstallVersion \/ InstallGeneration \/ InstallFlag
    \/ GetTrustBundle \/ Reload \/ OpenChannel \/ Exit

IdentityNext == ProcessStep \/ Restart \/ LeaderMoves \/ FaultsEnd \/ Die

IdentitySpec == IdentityInit /\ [][IdentityNext]_identityVars

---------------------------------------------------------------------------
(* Properties. *)

IdentityTypeOK ==
    /\ mode \in {"secure", "insecure"}
    /\ sealing_key_blob \in Blob \cup {NoBlob}
    /\ svid_private_key \in Blob \cup {NoBlob}
    /\ software_master_key \in Runs \cup {None}
    /\ cert_chain \in Cert \cup {NoCert}
    /\ svid_version \in Versions \cup {None}
    /\ generation \in 0..1
    /\ installed \in BOOLEAN
    /\ run \in Runs
    /\ pc \in SealPlaces \cup JoinedPlaces \cup {"load", "reload", "channel", "up", "down"}
    /\ fallback \in BOOLEAN
    /\ redirect_hops \in 0..(MaxRedirectHops + 1)
    /\ svid_resp \in Cert \cup {NoCert}
    /\ svid_state \in Svid
    /\ at_leader \in BOOLEAN /\ calm \in BOOLEAN
    /\ registered \in Keys \cup {NoKey}
    /\ issued \in 0..(MaxRuns + MaxLosses)
    /\ losses \in 0..MaxLosses

\* An SVID that is marked installed is usable for good, whatever was
\* interrupted before: the certificate, version and generation belong to one
\* issuance, and the stored private key can be opened and is the one certified.
InstalledUsable ==
    installed =>
        /\ cert_chain # NoCert
        /\ svid_version = cert_chain.version
        /\ generation = 1
        /\ Opens(svid_private_key)
        /\ svid_private_key.key = cert_chain.key

\* Once an SVID is installed, the sealing key on disk can be opened and is the
\* one control seals the node's secrets for, although every join generates two
\* and control may have seen several.
SealingKeyRegistered ==
    installed =>
        /\ Opens(sealing_key_blob)
        /\ sealing_key_blob.key = registered


=============================================================================
