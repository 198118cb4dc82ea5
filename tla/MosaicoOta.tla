----------------------------- MODULE MosaicoOta -----------------------------
(***************************************************************************)
(* The signed dual-slot update (main/ota/mosaico_ota.cpp) with the task    *)
(* that drives it (NetworkQuota's owner loop and updateFirmware in         *)
(* main/host/network_quota.cpp), the screen and serial tasks that call it, *)
(* the boot health gate, power cuts and the bootloader.                    *)
(*                                                                         *)
(* Every public function runs under storageLeaseMutex and `lock`, so it is *)
(* one action; what interleaves is everything the other tasks do between   *)
(* two calls of the owner.  A call that loses the try_lock of              *)
(* storageLeaseMutex returns at once (TurnedAway).  Telemetry (USB, gauge) *)
(* is read afresh by every check: the parameter power is its verdict.      *)
(* usbBypass implies automaticMode and differs from it in that verdict     *)
(* only, so automaticMode stands for both.  Equal SHA-256, equal image.    *)
(***************************************************************************)
EXTENDS Naturals

CONSTANTS Images,      \* the images the release key has signed
          Shipped,     \* the images slot 0 may be flashed with by cable
          NoImage,     \* no hash; as a chunk: erased or damaged flash
          Chunks,      \* chunks of an image
          Preferences  \* what setAutomaticInstall is ever given

ASSUME MosaicoOtaAssumption == /\ NoImage \notin Images \cup Shipped
                               /\ Chunks \in Nat \ {0}
                               /\ Preferences \subseteq BOOLEAN

Slots    == {0, 1}
Other(s) == 1 - s              \* esp_ota_get_next_update_partition
Hashes   == Images \cup Shipped \cup {NoImage}

(* The flags of namespace MosaicoOta that are up.                          *)
Queued == {"checkQueued", "checking", "installQueued", "rebootQueued"}
Flags  == Queued \cup
          {"active", "approvedRequest", "pending", "writing", "imageReady",
           "selected", "installSince", "automaticMode",
           "maintenanceMode", "fullFallbackUsed", "autoInstall",
           "imageVerified", "healthInitialized", "bootPending"}
Stages == {"Idle", "Checking", "Available", "WaitingPower", "Downloading",
           "Verifying", "ReadyInstall", "Installing", "ReadyReboot",
           "BootChecking", "Complete", "Failed"}

VARIABLES ota,         \* the RAM of namespace MosaicoOta
          pc,          \* where the network owner stands
          manifest,    \* updateFirmware's savedManifest, during a delta
          flash,       \* the chunks of each app slot
          imgState,    \* otadata: the state of each slot
          bootSlot,    \* otadata: the slot the next boot takes
          running,     \* the slot this boot runs from
          attempt,     \* NVS: hash of the last image whose install was tried
          autoinstall  \* NVS: install without asking

otadata    == <<imgState, bootSlot>>
nvs        == <<attempt, autoinstall>>
persistent == <<flash, otadata, running, nvs>>
vars       == <<ota, pc, manifest, persistent>>

-----------------------------------------------------------------------------
(* What the handlers read.                                                 *)
Erased == [c \in 1 .. Chunks |-> NoImage]
Whole(i) == [c \in 1 .. Chunks |-> i]
Holds(f, s, i) == i # NoImage /\ f[s] = Whole(i)
Bootable(f, s) == \E i \in Images \cup Shipped : Holds(f, s, i)

Busy(r) == r.flags \cap (Queued \cup {"active", "approvedRequest", "bootPending"}) # {}
CurrentReady == imgState[running] = "valid"

Staged(r) == r.flags \cap {"imageReady", "selected"} # {}

(* The grant of a maintenance transaction turns stale when USB unmounts.   *)
Granted(r) == /\ r.grant = "live" /\ CurrentReady
              /\ bootSlot = IF "selected" \in r.flags THEN Other(running) ELSE running
PowerSafe(r, power) == power /\ ("maintenanceMode" \in r.flags => Granted(r))

(* Nobody approves on the screen.                                          *)
Unattended(r) ==
  r.flags \cap {"automaticMode", "maintenanceMode"} # {}

-----------------------------------------------------------------------------
(* The helpers the handlers share, as functions of the RAM state.          *)
Publish(r, stage) ==
  [r EXCEPT !.stage = stage,
            !.flags = IF stage \in {"Failed", "WaitingPower"}
                      THEN @ \ {"approvedRequest"} ELSE @]

(* A slip: a failure also forgets the selected image.                      *)
FailLockedForgets(r) ==
  Publish([r EXCEPT !.grant = "none",
                    !.flags = @ \ (Queued \cup {"active", "pending", "approvedRequest",
                                                "maintenanceMode", "writing", "imageReady",
                                                "imageVerified", "selected"})],
          "Failed")

(* The hash of a grant that has no transaction left is never read again.   *)
FailLocked(r) ==
  LET stopped == [r EXCEPT !.grant = "none",
                           !.flags = @ \ (Queued \cup {"active", "pending",
                                                       "approvedRequest"})]
  IN IF "selected" \in r.flags
     THEN Publish(stopped, "ReadyReboot")
     ELSE Publish([stopped EXCEPT !.grantSha = NoImage,
                                  !.flags = @ \ {"maintenanceMode", "writing",
                                                 "imageReady", "imageVerified"}],
                  "Failed")

RevokeForNormalRequest(r) ==
  IF "maintenanceMode" \notin r.flags THEN [r EXCEPT !.grant = "none"]
  ELSE IF "selected" \in r.flags
       THEN Publish([r EXCEPT !.grant = "none"], "ReadyReboot")
       ELSE FailLocked(r)

ClearCandidateUi(r) ==
  [r EXCEPT !.sha256 = NoImage, !.flags = @ \ {"imageVerified"}]

RefreshRequestUiBinding(r, expected) ==
  IF expected = NoImage \/ expected # r.sha256 THEN ClearCandidateUi(r) ELSE r

(* requestLocked once it is admitted and nothing is under way.             *)
RequestLocked(r, automatic, power) ==
  LET pin   == IF "maintenanceMode" \in r.flags THEN r.grantSha ELSE r.approvedHash
      bound == RefreshRequestUiBinding(r, pin)
  IN IF ~CurrentReady \/ ~PowerSafe(bound, power)
     THEN FailLocked(bound)
     ELSE Publish([bound EXCEPT
                     !.received = 0,
                     !.flags = (@ \ {"automaticMode", "fullFallbackUsed"})
                               \cup {"pending", "active"}
                               \cup (IF automatic THEN {"automaticMode"} ELSE {})],
                  "Downloading")
Accepted(r) == "active" \in r.flags

(* approveUpdate of the offered hash, once admitted.                       *)
ApproveUpdateLocked(r, expected) ==
  LET revoked == RevokeForNormalRequest(r)
  IN IF /\ ~Busy(revoked)
        /\ expected = revoked.sha256 /\ expected # NoImage
        /\ "imageVerified" \notin revoked.flags
        /\ revoked.stage \in {"Available", "WaitingPower"}
     THEN [revoked EXCEPT !.approvedHash = expected,
                          !.flags = @ \cup {"approvedRequest"}]
     ELSE revoked

-----------------------------------------------------------------------------
OtaInit == [flags |-> {}, stage |-> "Idle", sha256 |-> NoImage,
            approvedHash |-> NoImage, expectedHash |-> NoImage, received |-> 0,
            grant |-> "none", grantSha |-> NoImage]

Init ==
  /\ ota = OtaInit /\ pc = "loop" /\ manifest = NoImage
  /\ \E i \in Shipped : flash = [s \in Slots |-> IF s = 0 THEN Whole(i) ELSE Erased]
  /\ imgState = [s \in Slots |-> IF s = 0 THEN "valid" ELSE "undefined"]
  /\ bootSlot = 0 /\ running = 0
  /\ attempt = NoImage /\ autoinstall = FALSE

(* The bootloader (external): a new image is tried once; one that did not  *)
(* pass its trial is given up for the other slot.  RAM starts afresh.      *)
Restart ==
  /\ \/ /\ imgState[bootSlot] = "new"
        /\ imgState' = [imgState EXCEPT ![bootSlot] = "pending"]
        /\ running' = bootSlot /\ UNCHANGED bootSlot
     \/ /\ imgState[bootSlot] = "pending"
        /\ imgState' = [imgState EXCEPT ![bootSlot] = "aborted"]
        /\ running' = Other(bootSlot) /\ bootSlot' = Other(bootSlot)
     \/ /\ imgState[bootSlot] \notin {"new", "pending"}
        /\ running' = bootSlot /\ UNCHANGED otadata
  /\ ota' = OtaInit /\ pc' = "loop" /\ manifest' = NoImage
  /\ UNCHANGED <<flash, nvs>>


-----------------------------------------------------------------------------
(* The screen and the serial console.  storageLeaseMutex is the owner's    *)
(* while processLocalRequests installs.                                    *)
Admitted == pc \notin {"install", "select", "reboot"}

Caller(r) == Admitted /\ ota' = r /\ UNCHANGED <<pc, manifest, persistent>>

Request(power) ==
  LET revoked == RevokeForNormalRequest(ota)
      offered == revoked.sha256 # NoImage /\ revoked.stage \in {"Available", "WaitingPower"}
      pinned  == IF offered THEN [revoked EXCEPT !.approvedHash = revoked.sha256]
                 ELSE ClearCandidateUi([revoked EXCEPT !.approvedHash = NoImage])
  IN Caller(IF Busy(revoked) \/ Staged(revoked) THEN revoked
            ELSE IF ~power THEN pinned
            ELSE RequestLocked(pinned, TRUE, power))

RequestMaintenanceUpdate(expected, power) ==
  LET granted == [RefreshRequestUiBinding(ota, expected) EXCEPT
                    !.grant = "live", !.grantSha = expected, !.approvedHash = NoImage,
                    !.flags = (@ \ {"automaticMode"}) \cup {"maintenanceMode"}]
  IN Caller(IF Busy(ota) \/ Staged(ota) \/ ~CurrentReady \/ running # bootSlot
            THEN [ota EXCEPT !.grant = "none"]
            ELSE RequestLocked(granted, FALSE, power))

RequestMaintenanceReboot(expected, power) ==
  LET granted == [ota EXCEPT !.grant = "live", !.grantSha = expected]
  IN Caller(IF \/ ~({"maintenanceMode", "selected", "imageReady"} \subseteq ota.flags)
               \/ Busy(ota) \/ bootSlot # Other(running) \/ ~CurrentReady
               \/ expected # ota.expectedHash
            THEN [ota EXCEPT !.grant = "none"]
            ELSE IF ~PowerSafe(granted, power) THEN FailLocked(granted)
            ELSE [granted EXCEPT !.flags = @ \cup {"rebootQueued"}])

ApproveUpdate(expected) == Caller(ApproveUpdateLocked(ota, expected))

(* A slip: a verified image can be deferred.                               *)
DeferAnything ==
  LET revoked == RevokeForNormalRequest(ota)
  IN Caller(IF Busy(revoked) \/ "selected" \in revoked.flags
            THEN revoked ELSE [revoked EXCEPT !.stage = "Idle"])

DeferUpdate ==
  LET revoked == RevokeForNormalRequest(ota)
  IN Caller(IF Busy(revoked) \/ revoked.flags \cap {"imageVerified", "selected"} # {}
            THEN revoked ELSE [revoked EXCEPT !.stage = "Idle"])

(* The NVS write may fail.                                                 *)
SetAutomaticInstall(enabled, stored) ==
  LET revoked == RevokeForNormalRequest(ota)
  IN /\ Admitted
     /\ ota' = IF ~stored THEN revoked
               ELSE [revoked EXCEPT !.flags = IF enabled THEN @ \cup {"autoInstall"}
                                                         ELSE @ \ {"autoInstall"}]
     /\ autoinstall' = IF stored THEN enabled ELSE autoinstall
     /\ UNCHANGED <<pc, manifest, flash, otadata, running, attempt>>

(* A slip: a check may be queued while other work is under way.            *)
RequestCheckWhileBusy ==
  LET revoked == RevokeForNormalRequest(ota)
  IN Caller(IF \/ "selected" \in revoked.flags
               \/ revoked.stage \in {"ReadyInstall", "ReadyReboot"}
               \/ revoked.stage = "WaitingPower" /\ "imageReady" \in revoked.flags
            THEN revoked
            ELSE [ClearCandidateUi(revoked) EXCEPT !.flags = @ \cup {"checkQueued"}])

RequestCheck ==
  LET revoked == RevokeForNormalRequest(ota)
  IN Caller(IF \/ Busy(revoked) \/ "selected" \in revoked.flags
               \/ revoked.stage \in {"ReadyInstall", "ReadyReboot"}
               \/ revoked.stage = "WaitingPower" /\ "imageReady" \in revoked.flags
            THEN revoked
            ELSE [ClearCandidateUi(revoked) EXCEPT !.flags = @ \cup {"checkQueued"}])

ApproveInstall(expected) ==
  LET revoked == RevokeForNormalRequest(ota)
  IN Caller(IF /\ ~Busy(revoked)
               /\ expected = revoked.sha256 /\ expected # NoImage
               /\ {"imageVerified", "imageReady"} \subseteq revoked.flags
               /\ "selected" \notin revoked.flags
               /\ revoked.stage \in {"ReadyInstall", "WaitingPower"}
            THEN [revoked EXCEPT !.flags = @ \cup {"installQueued"}]
            ELSE revoked)

RequestReboot ==
  LET revoked == RevokeForNormalRequest(ota)
  IN Caller(IF Busy(revoked) \/ revoked.stage # "ReadyReboot" \/ "selected" \notin revoked.flags
            THEN revoked
            ELSE [revoked EXCEPT !.flags = @ \cup {"rebootQueued"}])

(* The SDK gives up the running image only for another bootable one.       *)
RollbackTest ==
  /\ Admitted /\ ~Busy(ota) /\ ~Staged(ota)
  /\ Bootable(flash, Other(running)) /\ imgState[Other(running)] = "valid"
  /\ imgState' = [imgState EXCEPT ![running] = "aborted"]
  /\ bootSlot' = Other(running) /\ running' = Other(running)
  /\ ota' = OtaInit /\ pc' = "loop" /\ manifest' = NoImage
  /\ UNCHANGED <<flash, nvs>>

-----------------------------------------------------------------------------
(* The network owner.  Step(from, to, r): a call that changes nothing but  *)
(* RAM; the copy of the manifest goes with the delta.                      *)
Step(from, to, r) ==
  /\ pc = from /\ pc' = to /\ ota' = r
  /\ manifest' = IF to \in {"delta", "fallback", "restart"} THEN manifest ELSE NoImage
  /\ UNCHANGED persistent

(* The call lost the try_lock and did nothing; the owner gives up what it  *)
(* was doing and leaves the transaction as it is.                          *)
TurnedAway ==
  \/ \E from \in {"manifest", "restart", "fallback", "full", "finish"} :
       Step(from, "loop", ota)
  \/ Step("delta", "fallback", ota)
  \/ Step("check", "finishOk", ota)

TakeCheckRequest ==
  /\ "checkQueued" \in ota.flags
  /\ Step("loop", "check",
          Publish([ota EXCEPT !.flags = (@ \ {"checkQueued"}) \cup {"checking"}], "Checking"))

(* The network is not ready or the manifest does not arrive.               *)
CheckOffline == Step("check", "finishFail", ota)

(* What is not worth offering.                                             *)
Known(m) == m = attempt \/ Holds(flash, running, m)

(* m is the hash of a correctly signed manifest, NoImage of any other.     *)
(* readable: the running image's hash and the journal can be read.         *)
(* queued: the approval nested in it is admitted.                          *)
DiscoverManifest(m, readable, queued) ==
  LET revoked == RevokeForNormalRequest(ota)
      offer   == Publish([revoked EXCEPT !.received = 0, !.sha256 = m,
                            !.flags = @ \ {"imageVerified"}], "Available")
      offered == [offer EXCEPT !.flags = @ \ {"checking"}]
  IN Step("check", "finishOk",
          IF revoked.flags \cap {"active", "approvedRequest"} # {} \/ Staged(revoked)
          THEN revoked
          ELSE IF m = NoImage THEN Publish(revoked, "Failed")
          ELSE IF ~CurrentReady THEN revoked
          ELSE IF ~readable THEN Publish(revoked, "Failed")
          ELSE IF Known(m) THEN Publish(revoked, "Idle")
          ELSE IF "autoInstall" \in ota.flags /\ queued
               THEN ApproveUpdateLocked(offered, m)
               ELSE offered)

(* finishCheck holds no lock: others run between its two statements.       *)
FinishCheck(ok) ==
  Step(IF ok THEN "finishOk" ELSE "finishFail", IF ok THEN "publishOk" ELSE "publishFail",
       [ota EXCEPT !.flags = @ \ {"checking"}])

PublishCheck(ok) ==
  Step(IF ok THEN "publishOk" ELSE "publishFail", "loop",
       IF ~ok THEN Publish(ota, "Failed")
       ELSE IF ota.stage = "Checking" THEN Publish(ota, "Idle") ELSE ota)

(* quiet: NandBackend is not busy, so that requestLocked is admitted.      *)
TakeRequest(power, quiet) ==
  LET idle     == "active" \notin ota.flags /\ "approvedRequest" \in ota.flags
      taken    == [ota EXCEPT !.flags = @ \ {"approvedRequest"}]
      asked    == IF ~CurrentReady THEN Publish(taken, "Failed")
                  ELSE IF ~power THEN Publish(taken, "WaitingPower")
                  ELSE IF ~quiet \/ Staged(taken) THEN taken
                  ELSE RequestLocked(taken, "autoInstall" \in taken.flags, power)
      request  == IF idle THEN asked ELSE ota
      started  == {"pending", "active"} \subseteq request.flags
  IN /\ ota.flags \cap {"active", "approvedRequest", "pending"} # {}
     /\ IF idle /\ ~Accepted(asked) THEN Step("loop", "loop", asked)
        ELSE IF started /\ "maintenanceMode" \in request.flags /\ ~PowerSafe(request, power)
             THEN Step("loop", "loop", FailLocked(request))
        ELSE Step("loop", IF started THEN "manifest" ELSE "loop",
                  [request EXCEPT !.flags = @ \ {"pending"}])

(* The owner's own failures: transport, memory, formats and deadlines.     *)
UpdateFails ==
  \E from \in {"manifest", "full", "finish"} : Step(from, "loop", FailLocked(ota))

(* A slip: the deadline is only that of a request nobody took.             *)
UntakenTimeout ==
  Busy(ota) /\ "active" \notin ota.flags /\ Step("loop", "loop", FailLocked(ota))

(* Two minutes after the request, or while the radio cannot be used.       *)
RequestTimeout == Busy(ota) /\ Step("loop", "loop", FailLocked(ota))

(* A slip: a request that still waits does not stop an older download.     *)
OutOfWriting(r) ==
  "active" \notin r.flags \/ r.flags \cap {"writing", "imageReady"} # {}
(* A slip: the approved hash is not compared.                              *)
WrongSignature(r, m, versionSigned) ==
  \/ m = NoImage
  \/ "maintenanceMode" \in r.flags /\ (~versionSigned \/ m # r.grantSha)
  \/ "fullFallbackUsed" \in r.flags /\ m # r.expectedHash

(* What beginManifest refuses before it touches the flash.                 *)
OutOfSequence(r) ==
  "active" \notin r.flags \/ r.flags \cap {"pending", "writing", "imageReady"} # {}
WrongManifest(r, m, versionSigned) ==
  \/ m = NoImage
  \/ "maintenanceMode" \in r.flags /\ (~versionSigned \/ m # r.grantSha)
  \/ r.approvedHash \notin {NoImage, m}
  \/ "fullFallbackUsed" \in r.flags /\ m # r.expectedHash

Begin(from, m, versionSigned, power, begun, to) ==
  LET bound == [ota EXCEPT !.expectedHash = m, !.sha256 = m,
                           !.flags = @ \ {"imageVerified"}]
  IN IF OutOfSequence(ota) \/ WrongManifest(ota, m, versionSigned)
     THEN Step(from, "loop", FailLocked(ota))
     ELSE IF ~CurrentReady \/ ~PowerSafe(bound, power)
     THEN Step(from, "loop", FailLocked(bound))
     ELSE /\ pc = from
          /\ flash' = [flash EXCEPT ![Other(running)] = Erased]
          /\ IF begun
             THEN /\ ota' = Publish([bound EXCEPT !.received = 0,
                                                  !.flags = @ \cup {"writing"}], "Downloading")
                  /\ pc' = to
                  /\ manifest' = IF to = "delta" THEN m ELSE NoImage
             ELSE ota' = FailLocked(bound) /\ pc' = "loop" /\ manifest' = NoImage
          /\ UNCHANGED <<otadata, running, nvs>>

(* A delta is tried only for a version-signed manifest.                    *)
BeginManifest(m, versionSigned, power, begun) ==
  \E to \in IF versionSigned THEN {"delta", "full"} ELSE {"full"} :
    Begin("manifest", m, versionSigned, power, begun, to)

(* No plan is offered, or no memory for it: nothing was written.           *)
NoDelta == ota.received = 0 /\ Step("delta", "full", ota)

(* The patch does not arrive, verify or decode in time, or what it decoded *)
(* to is not the signed image; otherwise the delta is done.                *)
DeltaFails == Step("delta", "fallback", ota)
DeltaCompletes == Holds(flash, Other(running), manifest) /\ Step("delta", "finish", ota)

ResetDownloadForFullFallback ==
  IF "active" \notin ota.flags \/ Staged(ota) \/ "fullFallbackUsed" \in ota.flags
  THEN Step("fallback", "loop", ota)
  ELSE Step("fallback", "restart",
            Publish([ota EXCEPT !.received = 0,
                       !.flags = (@ \ {"writing"}) \cup {"fullFallbackUsed"}], "Downloading"))

BeginFallback(power, begun) == Begin("restart", manifest, TRUE, power, begun, "full")

(* x is what the server sent or the patch decoded to: the chunk of some    *)
(* image, or anything else (NoImage).  The owner counts its own chunks: it *)
(* offers none beyond the last, and one that does not follow what was      *)
(* received belongs to a cancelled download, which writing has left.       *)
WriteChunk(x, power, written) ==
  LET accepted == {"active", "writing"} \subseteq ota.flags
      abandon  == IF pc = "delta" THEN "fallback" ELSE "loop"
      stage    == IF pc = "delta" THEN "Verifying" ELSE "Downloading"
      wrote    == [flash EXCEPT ![Other(running)][ota.received + 1] = x]
  IN /\ pc \in {"delta", "full"} /\ ota.received < Chunks
     /\ IF ~accepted \/ ~PowerSafe(ota, power)
        THEN Step(pc, abandon, FailLocked(ota))
        ELSE /\ flash' = IF written THEN wrote ELSE flash
             /\ ota' = IF written THEN Publish([ota EXCEPT !.received = @ + 1], stage)
                                  ELSE FailLocked(ota)
             /\ pc' = IF ~written THEN abandon
                      ELSE IF pc = "full" /\ ota.received + 1 = Chunks THEN "finish" ELSE pc
             /\ manifest' = IF pc' \in {"delta", "fallback"} THEN manifest ELSE NoImage
             /\ UNCHANGED <<otadata, running, nvs>>

(* Which verified download goes on to be installed (a slip: all).          *)
AlwaysProceeds(r) == "active" \in r.flags
Proceeds(r) == Unattended(r)

(* ended: the SDK accepts the image and its version is the signed one.     *)
FinishDownload(power, ended) ==
  LET complete == /\ {"active", "writing"} \subseteq ota.flags /\ ota.received = Chunks
                  /\ "maintenanceMode" \in ota.flags => PowerSafe(ota, power)
                  /\ Holds(flash, Other(running), ota.expectedHash)
      ready    == [ota EXCEPT
                     !.flags = (@ \ ({"writing", "installSince"} \cup
                                     (IF Proceeds(ota) THEN {} ELSE {"active"})))
                               \cup {"imageReady", "imageVerified"}]
  IN Step("finish", "loop",
          IF complete /\ ended THEN Publish(ready, "ReadyInstall") ELSE FailLocked(ota))

-----------------------------------------------------------------------------
(* processLocalRequests: reboot and installation, with storageLeaseMutex   *)
(* held all the way.                                                       *)
InstallPowerSafe(r, power) == CurrentReady /\ PowerSafe(r, power)

RebootRefused(r) ==
  Publish([r EXCEPT !.flags = @ \ {"active"},
                    !.grant = IF "maintenanceMode" \in r.flags THEN "none" ELSE @],
          "ReadyReboot")

ProcessReboot(power) ==
  LET taken == [ota EXCEPT !.flags = @ \ {"rebootQueued"}]
  IN /\ pc = "loop" /\ {"rebootQueued", "selected"} \subseteq ota.flags
     /\ IF PowerSafe(taken, power) THEN Restart
        ELSE Step("loop", "loop", RebootRefused(taken))

InstallWork(r) ==
  /\ {"active", "imageReady"} \subseteq r.flags /\ "selected" \notin r.flags
  /\ r.stage \in {"ReadyInstall", "WaitingPower", "Installing"}

ProcessInstall ==
  LET taken == [ota EXCEPT !.flags = @ \ {"rebootQueued", "installQueued"}]
      work  == IF "installQueued" \in ota.flags
               THEN [taken EXCEPT !.flags = (@ \ {"automaticMode", "installSince"})
                                            \cup {"active"}]
               ELSE taken
  IN /\ ~({"rebootQueued", "selected"} \subseteq ota.flags)
     /\ ota.flags \cap {"rebootQueued", "installQueued"} # {} \/ InstallWork(ota)
     /\ Step("loop", IF InstallWork(work) THEN "install" ELSE "loop", work)

(* A check of installVerified fails.                                       *)
InstallRefused(r) ==
  IF "maintenanceMode" \in r.flags THEN FailLocked(r)
  ELSE Publish([r EXCEPT !.flags = @ \ {"active", "installSince"}], "WaitingPower")

(* The first pass of installVerified: then the settling time.              *)
StartInstall(power) ==
  /\ "installSince" \notin ota.flags
  /\ IF InstallPowerSafe(ota, power)
     THEN Step("install", "install",
               Publish([ota EXCEPT !.flags = @ \cup {"installSince"}], "Installing"))
     ELSE Step("install", "loop", InstallRefused(ota))

(* The last pass: fresh power, then recordAttempt, whose write may fail    *)
(* half done.                                                              *)
RecordAttempt(power, stored) ==
  /\ pc = "install" /\ "installSince" \in ota.flags
  /\ IF ~InstallPowerSafe(ota, power)
     THEN Step("install", "loop", InstallRefused(ota))
     ELSE /\ attempt' \in IF stored THEN {ota.expectedHash} ELSE {attempt, ota.expectedHash}
          /\ ota' = IF stored THEN ota ELSE FailLocked(ota)
          /\ pc' = IF stored THEN "select" ELSE "loop"
          /\ UNCHANGED <<manifest, flash, otadata, running, autoinstall>>

SelectTarget(power, set) ==
  LET chosen == Publish([ota EXCEPT !.flags = (@ \ {"active"}) \cup {"selected"}],
                        "ReadyReboot")
  IN IF ~set \/ ("maintenanceMode" \in ota.flags /\ ~PowerSafe(ota, power))
     THEN Step("select", "loop", FailLocked(ota))
     ELSE /\ pc = "select"
          /\ bootSlot' = Other(running)
          /\ imgState' = [imgState EXCEPT ![Other(running)] = "new"]
          /\ ota' = chosen
          /\ pc' = IF Unattended(ota) THEN "reboot" ELSE "loop"
          /\ UNCHANGED <<manifest, flash, running, nvs>>

InstallTimeout == Step("install", "loop", FailLocked(ota))

RebootSelected(power) ==
  IF PowerSafe(ota, power) THEN pc = "reboot" /\ Restart
  ELSE Step("reboot", "loop", RebootRefused(ota))

-----------------------------------------------------------------------------
(* The boot health gate, on the application's loop and its timer, both     *)
(* under healthLock.                                                       *)
HealthInit(readable) ==
  LET loaded  == [ota EXCEPT !.flags = @ \cup {"healthInitialized"} \cup
                                        (IF autoinstall THEN {"autoInstall"} ELSE {})]
      named   == IF attempt = NoImage THEN ClearCandidateUi(loaded)
                 ELSE [loaded EXCEPT !.sha256 = attempt, !.flags = @ \cup {"imageVerified"}]
  IN /\ "healthInitialized" \notin ota.flags
     /\ ota' = IF readable /\ imgState[running] = "pending"
               THEN Publish([named EXCEPT !.flags = @ \cup {"bootPending"}], "BootChecking")
               ELSE loaded
     /\ UNCHANGED <<pc, manifest, persistent>>

(* Twenty healthy seconds.                                                 *)
HealthPass ==
  /\ "bootPending" \in ota.flags
  /\ imgState' = [imgState EXCEPT ![running] = "valid"]
  /\ ota' = Publish([ota EXCEPT !.flags = @ \ {"bootPending"}], "Complete")
  /\ UNCHANGED <<pc, manifest, flash, bootSlot, running, nvs>>

(* Ninety seconds without, or no timer to measure them.  Rolling back and  *)
(* a plain restart of a pending image end the same way.                    *)
HealthTimeout == "bootPending" \in ota.flags /\ Restart

PowerCut == Restart

Unplug == /\ ota.grant = "live"
          /\ ota' = [ota EXCEPT !.grant = "stale"]
          /\ UNCHANGED <<pc, manifest, persistent>>

-----------------------------------------------------------------------------
Callers ==
  \/ \E power \in BOOLEAN : Request(power)
  \/ \E h \in Images, power \in BOOLEAN : RequestMaintenanceUpdate(h, power)
  \/ \E h \in Images, power \in BOOLEAN : RequestMaintenanceReboot(h, power)
  \/ \E h \in Images : ApproveUpdate(h)
  \/ DeferUpdate
  \/ \E enabled \in Preferences, stored \in BOOLEAN : SetAutomaticInstall(enabled, stored)
  \/ RequestCheck
  \/ \E h \in Images : ApproveInstall(h)
  \/ RequestReboot
  \/ RollbackTest

Owner ==
  \/ TurnedAway
  \/ TakeCheckRequest
  \/ CheckOffline
  \/ \E m \in Images \cup {NoImage}, readable, queued \in BOOLEAN : DiscoverManifest(m, readable, queued)
  \/ \E ok \in BOOLEAN : FinishCheck(ok)
  \/ \E ok \in BOOLEAN : PublishCheck(ok)
  \/ \E power, quiet \in BOOLEAN : TakeRequest(power, quiet)
  \/ UpdateFails
  \/ RequestTimeout
  \/ \E m \in Images \cup {NoImage}, versionSigned, power, begun \in BOOLEAN :
       BeginManifest(m, versionSigned, power, begun)
  \/ NoDelta
  \/ DeltaFails
  \/ DeltaCompletes
  \/ ResetDownloadForFullFallback
  \/ \E power, begun \in BOOLEAN : BeginFallback(power, begun)
  \/ \E x \in Hashes, power, written \in BOOLEAN : WriteChunk(x, power, written)
  \/ \E power, ended \in BOOLEAN : FinishDownload(power, ended)
  \/ \E power \in BOOLEAN : ProcessReboot(power)
  \/ ProcessInstall
  \/ \E power \in BOOLEAN : StartInstall(power)
  \/ \E power, stored \in BOOLEAN : RecordAttempt(power, stored)
  \/ \E power, set \in BOOLEAN : SelectTarget(power, set)
  \/ InstallTimeout
  \/ \E power \in BOOLEAN : RebootSelected(power)

Health == HealthPass \/ HealthTimeout

Next ==
  \/ Callers
  \/ Owner
  \/ \E readable \in BOOLEAN : HealthInit(readable)
  \/ Health
  \/ PowerCut
  \/ Unplug

Spec == Init /\ [][Next]_vars

-----------------------------------------------------------------------------
RamState == [flags : SUBSET Flags, stage : Stages, sha256 : Hashes,
             approvedHash : Hashes, expectedHash : Hashes, received : 0 .. Chunks,
             grant : {"none", "live", "stale"}, grantSha : Hashes]
OwnerAt == {"loop", "check", "finishOk", "finishFail", "publishOk", "publishFail",
            "manifest", "delta", "fallback", "restart", "full", "finish",
            "install", "select", "reboot"}

TypeOK ==
  /\ ota \in RamState /\ pc \in OwnerAt /\ manifest \in Hashes
  /\ flash \in [Slots -> [1 .. Chunks -> Hashes]]
  /\ imgState \in [Slots -> {"undefined", "new", "pending", "valid", "aborted"}]
  /\ bootSlot \in Slots /\ running \in Slots
  /\ attempt \in Hashes /\ autoinstall \in BOOLEAN

(* The next boot always starts a whole signed image, and while that image  *)
(* is on trial the slot to fall back to holds another (beginManifest,      *)
(* installVerified, healthPoll, healthTimeout, the bootloader).  The       *)
(* journal names it, before and after the restart that tries it            *)
(* (recordAttempt before esp_ota_set_boot_partition).                      *)
BootSafe ==
  /\ imgState[bootSlot] \in {"valid", "new", "pending"}
  /\ Bootable(flash, bootSlot)
  /\ imgState[bootSlot] # "valid" =>
       /\ imgState[Other(bootSlot)] = "valid"
       /\ Bootable(flash, Other(bootSlot))
  /\ imgState[bootSlot] \in {"new", "pending"} => Holds(flash, bootSlot, attempt)

(* What is written, and what is ready to install, is the image on the      *)
(* screen, the one approved there and the one a maintenance grant names,   *)
(* whatever the server offers meanwhile (beginManifest, writeChunk,        *)
(* finishDownload against every request and cancellation).                 *)
CandidateIsPinned ==
  ota.flags \cap {"writing", "imageReady"} # {} =>
    /\ ota.expectedHash = ota.sha256
    /\ ota.approvedHash \in {NoImage, ota.expectedHash}
    /\ "maintenanceMode" \in ota.flags => ota.grantSha = ota.expectedHash
    /\ "imageReady" \in ota.flags => Holds(flash, Other(running), ota.expectedHash)

(* Of the things that make the updater busy only one is under way, and a   *)
(* download is asked for, written, ready or selected, one at a time        *)
(* (the admission checks of all requests).                                 *)
OneTransaction ==
  /\ TypeOK
  /\ \A f, g \in ota.flags \cap (Queued \cup {"active", "approvedRequest"}) : f = g
  /\ \A f, g \in ota.flags \cap {"pending", "writing", "imageReady"} : f = g
  /\ ota.flags \cap {"pending", "writing"} # {} => "active" \in ota.flags
  /\ "selected" \in ota.flags <=> bootSlot # running
  /\ "selected" \in ota.flags => "imageReady" \in ota.flags

(* A verified image stays on a page from which it can be installed or      *)
(* started: otherwise every request refuses it and it is stuck             *)
(* (publish in all handlers; docs/mosaico-ota.md, staged action UI).       *)
ScreenShowsCandidate ==
  "imageReady" \in ota.flags =>
    IF "selected" \in ota.flags THEN ota.stage = "ReadyReboot"
    ELSE /\ ota.stage \in {"ReadyInstall", "WaitingPower", "Installing"}
         /\ "imageVerified" \in ota.flags

(* What is offered is neither the running image nor the one whose trial    *)
(* was the last, so a rejected release is not offered again                *)
(* (discoverManifest and the journal over a rollback).                     *)
OfferIsNews ==
  ota.stage = "Available" /\ ota.sha256 # NoImage =>
    ota.sha256 # attempt /\ ~Holds(flash, running, ota.sha256)

(* The page on the screen is one that its image can be acted on from.      *)
ScreenIsTrue == ScreenShowsCandidate /\ OfferIsNews

(* An owner still busy with a cancelled download writes nothing once       *)
(* another request has been accepted (beginManifest, writeChunk against    *)
(* revokeForNormalRequest and requestMaintenanceUpdate).                   *)
StaleOwnerWritesNothing ==
  [][flash' # flash => /\ "active" \in ota.flags
                       /\ ota.flags \cap {"pending", "imageReady"} = {}]_vars

(* Without a standing permission an installation begins only when          *)
(* approveInstall was accepted after the download (finishDownload,         *)
(* approveInstall, processLocalRequests).                                  *)
InstallNeedsConsent ==
  [][pc # "install" /\ pc' = "install" =>
       Unattended(ota) \/ "installQueued" \in ota.flags]_vars

(* The owner task never leaves its loop; the gate has its own timer.       *)
FairSpec == Spec /\ WF_vars(Owner) /\ WF_vars(Health)

(* The updater does not stay busy, whatever the owner had to abandon:      *)
(* requests, downloads and boot trials all come to an end                  *)
(* (the owner's request timeout, processLocalRequests, healthTimeout).     *)
BusyEnds == Busy(ota) ~> ~Busy(ota)
=============================================================================
