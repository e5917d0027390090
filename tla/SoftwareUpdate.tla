---------------------------- MODULE SoftwareUpdate ----------------------------
(***************************************************************************)
(* pw_software_update: BundledUpdateService and UpdateBundleAccessor.       *)
(*                                                                         *)
(* Three threads meet: the RPC thread runs one handler after the other, the *)
(* work queue thread runs DoVerify and DoApply, and the transfer thread     *)
(* reports a finished transfer, possibly late.  mutex_ is held through      *)
(* DoVerify and through DoApply; SetTransferred looks at the state, and on  *)
(* an error finishes the update, without it.                                *)
(*                                                                         *)
(* Bundles are records of what verification looks at; the backend's hooks   *)
(* succeed or fail at will.                                                 *)
(***************************************************************************)
EXTENDS Naturals, Sequences, FiniteSets

CONSTANTS
    Bundles,            \* the bundles that may be staged
    FactoryRoot,        \* the root metadata a device is provisioned with
    MaxTargetPayload,   \* PW_SOFTWARE_UPDATE_MAX_TARGET_PAYLOAD_SIZE
    SelfVerification,   \* self_verification_
    None,               \* no root, manifest, bundle or result
    MaxRpcs             \* bound: RPCs of the client

\* Versions are numbers, and a bundle has finitely many payloads.
ASSUME BundleAssumption ==
    /\ FactoryRoot.version \in Nat
    /\ None \notin Bundles
    /\ \A b \in Bundles :
          /\ b.root # None => b.root.version \in Nat
          /\ b.targets # None => b.targets.version \in Nat
          /\ IsFiniteSet(DOMAIN b.payloads)

VARIABLES
    su,         \* the service: its status, bundle_open_, work_enqueued_, and
                \* the accessor's reader and bundle_verified_
    suRpc,      \* SetTransferred's unlocked look at the state
    suWork,     \* the item in the work queue: "none", "verify" or "apply"
    suPc,       \* where the work item is
    suTodo,     \* target files DoApply has still to apply
    suNotify,   \* a finished transfer not yet reported
    suStaged,   \* the bundle in the blob store
    suDevice,   \* persistent: root metadata and manifest
    suPassed,   \* the bundle that passed OpenAndVerify last
    suApplied,  \* the bundle whose payloads the work item applies
    suAsked,    \* Apply() was accepted since this update began
    suRpcs      \* RPCs made

suVars == <<su, suRpc, suWork, suPc, suTodo, suNotify, suStaged, suDevice,
            suPassed, suApplied, suAsked, suRpcs>>

FreshStatus ==
    [state |-> "INACTIVE", transferId |-> FALSE, result |-> None,
     note |-> FALSE, progress |-> 0, handler |-> FALSE, bundleOpen |-> FALSE,
     readerOpen |-> FALSE, verified |-> FALSE, enqueued |-> FALSE,
     crashed |-> FALSE]

SuInit ==
    /\ su = FreshStatus
    /\ suRpc = "idle"
    /\ suWork = "none"
    /\ suPc = "idle"
    /\ suTodo = {}
    /\ suNotify = FALSE
    /\ suStaged = None
    /\ suDevice = [root |-> FactoryRoot, manifest |-> None]
    /\ suPassed = None
    /\ suApplied = None
    /\ suAsked = FALSE
    /\ suRpcs = 0

(***************************************************************************)
(* The accessor: verification of a staged bundle.                           *)
(***************************************************************************)

(* VerifyMetadataSignatures: `threshold` of the signatures are good and by  *)
(* allowed keys.  A threshold of zero is never met, and no signature at all *)
(* is told apart.                                                           *)
VerifyMetadataSignatures(signatures, keys, threshold) ==
    IF threshold > 0 /\ Cardinality({i \in DOMAIN signatures :
           signatures[i].key \in keys /\ signatures[i].good}) >= threshold
    THEN "OK"
    ELSE IF signatures = <<>> THEN "NOT_FOUND" ELSE "UNAUTHENTICATED"

VerifyRootMetadataSignatures(trusted, bundle) ==
    VerifyMetadataSignatures(bundle.rootSignatures, trusted.rootKeys,
                             trusted.rootThreshold) = "OK"

(* UpgradeRoot: a bundle without root metadata has nothing to upgrade. *)
UpgradeRoot(bundle, trusted) ==
    bundle.root # None =>
        /\ VerifyRootMetadataSignatures(trusted, bundle)
        /\ VerifyRootMetadataSignatures(bundle.root, bundle)
        /\ trusted.version <= bundle.root.version

\* Mutant of VerifyTargetsMetadata: no anti-rollback check.
VerifyTargetsMetadataAnyVersion(bundle, trusted, manifest) ==
    /\ bundle.targets # None
    /\ VerifyMetadataSignatures(bundle.targets.signatures, trusted.targetsKeys,
                                trusted.targetsThreshold) = "OK"

(* VerifyTargetsMetadata: signatures, then anti-rollback against the        *)
(* manifest on the device; self-verification is lenient.                    *)
VerifyTargetsMetadata(bundle, trusted, manifest) ==
    IF trusted = None THEN SelfVerification
    ELSE /\ bundle.targets # None
         /\ LET status == VerifyMetadataSignatures(bundle.targets.signatures,
                              trusted.targetsKeys, trusted.targetsThreshold)
            IN  \/ SelfVerification /\ status \in {"OK", "NOT_FOUND"}
                \/ /\ status = "OK"
                   /\ manifest = None \/ manifest.version <= bundle.targets.version

(* VerifyTargetPayload: in the bundle it is measured, out of it the         *)
(* device's manifest must know it.                                          *)
VerifyTargetPayload(bundle, file, manifest) ==
    IF file.name \in DOMAIN bundle.payloads
    THEN bundle.payloads[file.name] = [length |-> file.length, hash |-> file.hash]
    ELSE manifest # None /\ file \in manifest.files

VerifyTargetsPayloads(bundle, manifest) ==
    /\ bundle.targets # None
    /\ \A file \in bundle.targets.files :
          /\ file.length <= MaxTargetPayload
          /\ VerifyTargetPayload(bundle, file, manifest)

(* DoVerify of the accessor.  The root is persisted as soon as it is        *)
(* verified, before the targets are looked at.                              *)
TrustedRoot(bundle) == IF SelfVerification THEN bundle.root ELSE suDevice.root

BundleVerifies(bundle) ==
    /\ UpgradeRoot(bundle, TrustedRoot(bundle))
    /\ VerifyTargetsMetadata(bundle, TrustedRoot(bundle), suDevice.manifest)
    /\ VerifyTargetsPayloads(bundle, suDevice.manifest)

RootToPersist(bundle) ==
    IF ~SelfVerification /\ bundle.root # None
         /\ UpgradeRoot(bundle, TrustedRoot(bundle))
    THEN bundle.root ELSE suDevice.root

(***************************************************************************)
(* The service's helpers.                                                   *)
(***************************************************************************)

(* Finish: the transfer is turned down and an open bundle closed. *)
Finish(s, result) ==
    [s EXCEPT !.progress = IF result = "SUCCESS" THEN 0 ELSE @,
              !.handler = @ /\ ~s.transferId, !.transferId = FALSE,
              !.readerOpen = @ /\ ~s.bundleOpen,
              !.verified = @ /\ ~s.bundleOpen,
              !.bundleOpen = FALSE,
              !.state = "FINISHED", !.result = result]

(* SET_ERROR: nothing for an update that is finished already. *)
SetError(s, result) ==
    IF s.state = "FINISHED" THEN s
    ELSE [Finish(s, result) EXCEPT !.note = TRUE]

\* mutex_ is free: the work item is not inside DoVerify or DoApply.
MutexFree == suPc \in {"idle", "verify", "apply", "end"}

(* The client makes its next RPC. *)
Rpc ==
    /\ ~su.crashed
    /\ suRpc = "idle"
    /\ suRpcs < MaxRpcs
    /\ suRpcs' = suRpcs + 1

RestOfRpc == UNCHANGED <<suPc, suTodo, suNotify, suStaged, suDevice, suPassed,
                         suApplied>>

(***************************************************************************)
(* The RPCs.                                                                *)
(***************************************************************************)

(* Start(): the backend's BeforeUpdateStart fails, the transfer handler      *)
(* cannot be enabled, or neither.                                           *)
StartOutcomes == {"OK", "UNKNOWN_ERROR", "TRANSFER_FAILED"}

StartUpdate(outcome) ==
    /\ Rpc
    /\ MutexFree
    /\ su' = IF su.state # "INACTIVE" THEN SetError(su, "UNKNOWN_ERROR")
             ELSE IF su.transferId \/ su.result # None \/ su.progress # 0 \/ su.note
             THEN [su EXCEPT !.crashed = TRUE]
             ELSE IF outcome # "OK" THEN SetError(su, outcome)
             ELSE [su EXCEPT !.handler = TRUE, !.transferId = TRUE,
                             !.state = "TRANSFERRING"]
    /\ suAsked' = (suAsked /\ su.state # "INACTIVE")
    /\ UNCHANGED <<suRpc, suWork>>
    /\ RestOfRpc

(* SetTransferred, up to where it waits for the mutex. *)
SetTransferred ==
    /\ Rpc
    /\ IF su.state \in {"TRANSFERRING", "INACTIVE"}
       THEN suRpc' = "set_transferred" /\ UNCHANGED su
       ELSE su' = SetError(su, "UNKNOWN_ERROR") /\ UNCHANGED suRpc
    /\ suAsked' = (suAsked /\ su.state # "INACTIVE")
    /\ UNCHANGED suWork
    /\ RestOfRpc

(* NotifyTransferSucceeded, whatever the state. *)
Transferred(s) ==
    [s EXCEPT !.handler = @ /\ ~s.transferId, !.transferId = FALSE,
              !.state = "TRANSFERRED"]

SetTransferredNotifies ==
    /\ ~su.crashed
    /\ suRpc = "set_transferred"
    /\ MutexFree
    /\ su' = Transferred(su)
    /\ suRpc' = "idle"
    /\ UNCHANGED <<suWork, suAsked, suRpcs>>
    /\ RestOfRpc

NotifyTransferSucceeded ==
    /\ ~su.crashed
    /\ suNotify
    /\ MutexFree
    /\ su' = Transferred(su)
    /\ suNotify' = FALSE
    /\ UNCHANGED <<suRpc, suWork, suPc, suTodo, suStaged, suDevice, suPassed,
                   suApplied, suAsked, suRpcs>>

(* Verify() and Apply() put an item into the work queue, unless one is      *)
(* there; a full queue is an error.                                         *)
VerifyRpc(ok) ==
    /\ Rpc
    /\ MutexFree
    /\ \E push \in {su.state \in {"TRANSFERRING", "TRANSFERRED"} /\ ~su.enqueued} :
        /\ su' = CASE su.state = "VERIFIED" -> su
                   [] su.state \notin {"VERIFIED", "TRANSFERRING", "TRANSFERRED"}
                        -> SetError(su, "VERIFY_FAILED")
                   [] push /\ ok -> [su EXCEPT !.enqueued = TRUE]
                   [] push /\ ~ok -> SetError(su, "VERIFY_FAILED")
                   [] OTHER -> su
        /\ suWork' = IF push /\ ok THEN "verify" ELSE suWork
    /\ UNCHANGED <<suRpc, suAsked>>
    /\ RestOfRpc

ApplyRpc(ok) ==
    /\ Rpc
    /\ MutexFree
    /\ \E push \in {su.state \in {"TRANSFERRED", "VERIFIED"} /\ ~su.enqueued} :
        /\ su' = CASE su.state = "APPLYING" -> su
                   [] su.state \notin {"APPLYING", "TRANSFERRED", "VERIFIED"}
                        -> SetError(su, "APPLY_FAILED")
                   [] push /\ ok -> [su EXCEPT !.enqueued = TRUE]
                   [] push /\ ~ok -> SetError(su, "APPLY_FAILED")
                   [] OTHER -> su
        /\ suWork' = IF push /\ ok THEN "apply" ELSE suWork
        /\ suAsked' = (suAsked \/ (push /\ ok))
    /\ UNCHANGED suRpc
    /\ RestOfRpc

Abort ==
    /\ Rpc
    /\ MutexFree
    /\ su' = CASE su.state = "APPLYING" -> su
               [] su.state \in {"INACTIVE", "FINISHED"} -> SetError(su, "UNKNOWN_ERROR")
               [] OTHER -> SetError([su EXCEPT !.state = "ABORTING"], "ABORTED")
    /\ UNCHANGED <<suRpc, suWork, suAsked>>
    /\ RestOfRpc

\* Mutant of Reset: the status is cleared but an open bundle is forgotten.
ResetForgetsBundle ==
    /\ Rpc
    /\ MutexFree
    /\ su' = CASE su.state = "INACTIVE" -> su
               [] su.state # "INACTIVE" /\ su.state # "FINISHED"
                    -> SetError(su, "UNKNOWN_ERROR")
               [] OTHER -> [FreshStatus EXCEPT !.handler = su.handler,
                              !.enqueued = su.enqueued,
                              !.readerOpen = su.readerOpen,
                              !.verified = su.verified]
    /\ UNCHANGED <<suRpc, suWork, suAsked>>
    /\ RestOfRpc

(* Reset: the status is cleared and a bundle that is still open is closed. *)
Reset ==
    /\ Rpc
    /\ MutexFree
    /\ su' = CASE su.state = "INACTIVE" -> su
               [] su.state # "INACTIVE" /\ su.state # "FINISHED"
                    -> SetError(su, "UNKNOWN_ERROR")
               [] OTHER -> [FreshStatus EXCEPT !.handler = su.handler,
                              !.enqueued = su.enqueued,
                              !.readerOpen = su.readerOpen /\ ~su.bundleOpen,
                              !.verified = su.verified /\ ~su.bundleOpen]
    /\ UNCHANGED <<suRpc, suWork, suAsked>>
    /\ RestOfRpc

(***************************************************************************)
(* The transfer, and the work item.                                         *)
(***************************************************************************)

(* A bundle has been received through the transfer handler, which cannot    *)
(* write the blob store while a reader is open.                             *)
StageBundle(bundle) ==
    /\ su.handler
    /\ ~su.readerOpen
    /\ ~suNotify
    /\ suStaged' = bundle
    /\ suNotify' = TRUE
    /\ UNCHANGED <<su, suRpc, suWork, suPc, suTodo, suDevice, suPassed, suApplied,
                   suAsked, suRpcs>>

RestOfWork == UNCHANGED <<suRpc, suNotify, suStaged, suAsked, suRpcs>>

AfterVerify == IF suWork = "verify" THEN "end" ELSE "apply"

(* The item begins: it takes the mutex to check work_enqueued_. *)
BeginWork ==
    /\ ~su.crashed
    /\ suPc = "idle"
    /\ suWork # "none"
    /\ su' = [su EXCEPT !.crashed = ~su.enqueued]
    /\ suPc' = "verify"
    /\ UNCHANGED <<suWork, suTodo, suDevice, suPassed, suApplied>>
    /\ RestOfWork

(* DoVerify takes the mutex and moves to VERIFYING; ok is what the hook     *)
(* BeforeBundleVerify returns.                                              *)
BeginVerify(ok) ==
    /\ ~su.crashed
    /\ suPc = "verify"
    /\ \E go \in {su.state = "TRANSFERRED"} :
        /\ su' = IF su.state = "VERIFIED" THEN su
                 ELSE IF ~go THEN SetError(su, "VERIFY_FAILED")
                 ELSE IF ok THEN [su EXCEPT !.state = "VERIFYING"]
                 ELSE SetError([su EXCEPT !.state = "VERIFYING"], "VERIFY_FAILED")
        /\ suPc' = IF go /\ ok THEN "open" ELSE AfterVerify
    /\ UNCHANGED <<suWork, suTodo, suDevice, suPassed, suApplied>>
    /\ RestOfWork

(* OpenAndVerify; a reader that is open already crashes, a failure closes   *)
(* it again.  `persisted` is whether the backend stores a new root.         *)
OpenAndVerify(persisted) ==
    /\ ~su.crashed
    /\ suPc = "open"
    /\ \E root \in {IF suStaged = None \/ su.readerOpen THEN suDevice.root
                    ELSE RootToPersist(suStaged)} :
       \E passes \in {/\ suStaged # None
                      /\ BundleVerifies(suStaged)
                      /\ persisted \/ SelfVerification \/ suStaged.root = None} :
        /\ suDevice' = [suDevice EXCEPT !.root = IF persisted THEN root ELSE @]
        /\ IF su.readerOpen
           THEN /\ su' = [su EXCEPT !.crashed = TRUE]
                /\ UNCHANGED <<suPc, suPassed>>
           ELSE IF passes
           THEN /\ su' = [su EXCEPT !.readerOpen = TRUE, !.verified = TRUE]
                /\ suPc' = "check_manifest"
                /\ suPassed' = suStaged
           ELSE /\ su' = SetError([su EXCEPT !.verified = FALSE], "VERIFY_FAILED")
                /\ suPc' = AfterVerify
                /\ UNCHANGED suPassed
    /\ UNCHANGED <<suWork, suTodo, suApplied>>
    /\ RestOfWork

(* bundle_open_ is set, the backend checks the manifest. *)
CheckManifest(ok) ==
    /\ ~su.crashed
    /\ suPc = "check_manifest"
    /\ LET open == [su EXCEPT !.bundleOpen = TRUE]
       IN  su' = IF ok THEN open ELSE SetError(open, "VERIFY_FAILED")
    /\ suPc' = IF ok THEN "verified" ELSE AfterVerify
    /\ UNCHANGED <<suWork, suTodo, suDevice, suPassed, suApplied>>
    /\ RestOfWork

EndVerify(ok) ==
    /\ ~su.crashed
    /\ suPc = "verified"
    /\ su' = IF ok THEN [su EXCEPT !.state = "VERIFIED"]
             ELSE SetError(su, "VERIFY_FAILED")
    /\ suPc' = AfterVerify
    /\ UNCHANGED <<suWork, suTodo, suDevice, suPassed, suApplied>>
    /\ RestOfWork

(* DoApply takes the mutex, moves to APPLYING and lists the target files;   *)
(* without a verified bundle the list is not to be had, which crashes.      *)
BeginApply(ok) ==
    /\ ~su.crashed
    /\ suPc = "apply"
    /\ IF su.state # "VERIFIED" \/ ~ok
       THEN /\ su' = SetError(su, "APPLY_FAILED")
            /\ suPc' = "end"
       ELSE /\ su' = [su EXCEPT !.state = "APPLYING"]
            /\ suPc' = "list_files"
    /\ UNCHANGED <<suWork, suTodo, suDevice, suPassed, suApplied>>
    /\ RestOfWork

(* The target files of the manifest whose contents are in the bundle; the   *)
(* others are ignored.                                                      *)
FilesToApply(bundle) ==
    {file.name : file \in bundle.targets.files} \cap DOMAIN bundle.payloads

ListFiles ==
    /\ ~su.crashed
    /\ suPc = "list_files"
    /\ su' = [su EXCEPT !.crashed = ~su.verified]
    /\ suTodo' = IF su.verified THEN FilesToApply(suStaged) ELSE {}
    /\ suPc' = "apply_files"
    /\ UNCHANGED <<suWork, suDevice, suPassed, suApplied>>
    /\ RestOfWork

(* One target file; its payload is only to be had from a verified bundle.   *)
ApplyTargetFile(ok) ==
    /\ ~su.crashed
    /\ suPc = "apply_files"
    /\ \E file \in suTodo :
        /\ suTodo' = suTodo \ {file}
        /\ IF su.verified /\ ok
           THEN /\ su' = [su EXCEPT !.progress =
                            Cardinality(FilesToApply(suStaged) \ suTodo')]
                /\ suApplied' = suStaged
                /\ UNCHANGED suPc
           ELSE /\ su' = SetError(su, "APPLY_FAILED")
                /\ suPc' = "end"
                /\ UNCHANGED suApplied
    /\ UNCHANGED <<suWork, suDevice, suPassed>>
    /\ RestOfWork

(* PersistManifest, which the backend calls on the verified bundle. *)
PersistManifest ==
    [suDevice EXCEPT !.manifest = [version |-> suStaged.targets.version,
                                   files |-> suStaged.targets.files]]

(* ApplyReboot: the backend, which persists the manifest of a verified      *)
(* bundle, fails or returns (a reboot from here is Reboot's).                       *)
ApplyReboot(ok) ==
    /\ ~su.crashed
    /\ suPc = "apply_files"
    /\ suTodo = {}
    /\ su' = IF ok THEN Finish(su, "SUCCESS") ELSE SetError(su, "APPLY_FAILED")
    /\ suDevice' = IF ok /\ su.verified THEN PersistManifest ELSE suDevice
    /\ suPc' = "end"
    /\ UNCHANGED <<suWork, suTodo, suPassed, suApplied>>
    /\ RestOfWork

EndWork ==
    /\ ~su.crashed
    /\ suPc = "end"
    /\ su' = [su EXCEPT !.enqueued = FALSE]
    /\ suWork' = "none"
    /\ suPc' = "idle"
    /\ suTodo' = {}
    /\ suApplied' = None
    /\ UNCHANGED <<suDevice, suPassed>>
    /\ RestOfWork

(* The device reboots, at the end of an apply or at any other time: what is *)
(* persistent stays.                                                        *)
Reboot ==
    /\ suPc # "idle" \/ su.state # "INACTIVE"
    /\ su' = FreshStatus
    /\ suRpc' = "idle"
    /\ suWork' = "none"
    /\ suPc' = "idle"
    /\ suTodo' = {}
    /\ suNotify' = FALSE
    /\ suPassed' = None
    /\ suApplied' = None
    /\ suAsked' = FALSE
    /\ UNCHANGED <<suStaged, suDevice, suRpcs>>

SuNext ==
    \/ SetTransferred \/ SetTransferredNotifies \/ Abort \/ Reset
    \/ NotifyTransferSucceeded
    \/ \E bundle \in Bundles : StageBundle(bundle)
    \/ \E outcome \in StartOutcomes : StartUpdate(outcome)
    \/ \E ok \in BOOLEAN :
          \/ VerifyRpc(ok) \/ ApplyRpc(ok)
          \/ BeginVerify(ok) \/ OpenAndVerify(ok) \/ CheckManifest(ok)
          \/ EndVerify(ok) \/ BeginApply(ok) \/ ApplyTargetFile(ok)
          \/ ApplyReboot(ok)
    \/ BeginWork \/ ListFiles \/ EndWork \/ Reboot

(* Whatever clients and late notifications do to the state, a payload is    *)
(* only ever applied from the very bundle that passed verification, and the *)
(* versions the device trusts never go back.                                *)
OnlyVerifiedBundlesApplied ==
    /\ [](suApplied # None => suApplied = suPassed)
    /\ [][/\ suDevice.root.version <= suDevice'.root.version
          /\ suDevice.manifest # None =>
                suDevice.manifest.version <= suDevice'.manifest.version]_suVars

(* However an update ended, the next one starts from a clean slate: the     *)
(* checks of Start() hold, the transfer handler is off, and the blob store  *)
(* is not held open by a reader, which would block the next transfer.       *)
InactiveIsClean ==
    su.state = "INACTIVE" /\ MutexFree =>
        /\ ~su.transferId /\ ~su.handler
        /\ su.result = None /\ ~su.note /\ su.progress = 0
        /\ ~su.bundleOpen /\ ~su.readerOpen /\ ~su.verified

(* The documented life cycle: an update that was transferred is applied     *)
(* because Apply() was called for it.                                       *)
AppliedOnRequest == suPc = "apply_files" /\ suApplied # None => suAsked
=============================================================================
