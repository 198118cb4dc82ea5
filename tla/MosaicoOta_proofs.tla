------------------------- MODULE MosaicoOta_proofs --------------------------
(***************************************************************************)
(* Proofs about the signed dual-slot update, for every set of images and   *)
(* every number of chunks.                                                 *)
(*                                                                         *)
(* Every handler is a function of the updater's RAM built from a few       *)
(* helpers, so the invariant is mostly one about such a record, Sound(r),  *)
(* and the helpers are shown to keep it; what remains relates the record   *)
(* to the place the owner stands at and to the two slots.                  *)
(***************************************************************************)
EXTENDS MosaicoOta, TLAPS

Work == Queued \cup {"active", "approvedRequest"}

(* One piece of work at a time, one stage of a candidate at a time.        *)
Single(r) ==
  /\ \A f, g \in r.flags \cap Work : f = g
  /\ \A f, g \in r.flags \cap {"pending", "writing", "imageReady"} : f = g
  /\ r.flags \cap {"pending", "writing"} # {} => "active" \in r.flags
  /\ "selected" \in r.flags => "imageReady" \in r.flags

(* Nothing is looked for while a candidate is ready, and what is to be     *)
(* installed is there.                                                     *)
Ends(r) ==
  /\ r.flags \cap {"approvedRequest", "checkQueued", "checking"} # {} => "imageReady" \notin r.flags
  /\ "installQueued" \in r.flags => "imageReady" \in r.flags /\ "selected" \notin r.flags

(* A ready candidate is shown where it can be acted on.                    *)
Screen(r) ==
  "imageReady" \in r.flags =>
    IF "selected" \in r.flags THEN r.stage = "ReadyReboot"
    ELSE r.stage \in {"ReadyInstall", "WaitingPower", "Installing"} /\ "imageVerified" \in r.flags

(* What is written or ready is what was shown, approved and granted.       *)
Pinned(r) ==
  r.flags \cap {"writing", "imageReady"} # {} =>
    /\ r.expectedHash = r.sha256
    /\ r.approvedHash \in {NoImage, r.expectedHash}
    /\ "maintenanceMode" \in r.flags => r.grantSha = r.expectedHash

(* What is offered is news.                                                *)
News(r) ==
  r.stage = "Available" /\ r.sha256 # NoImage =>
    r.sha256 # attempt /\ ~Holds(flash, running, r.sha256)

(* The record against the slots: a candidate needs a confirmed image to    *)
(* come back to, and the gate is only about one on trial.                  *)
Slotted(r) ==
  /\ r.flags \cap {"writing", "imageReady"} # {} => imgState[running] = "valid"
  /\ "selected" \in r.flags <=> bootSlot # running
  /\ "bootPending" \in r.flags => imgState[running] = "pending"
  /\ "imageReady" \in r.flags => Holds(flash, Other(running), r.expectedHash)

Sound(r) == /\ r \in RamState
            /\ Single(r) /\ Ends(r) /\ Screen(r) /\ Pinned(r) /\ News(r) /\ Slotted(r)

(* Nobody installs.                                                        *)
Calm(r) == /\ r.stage # "Installing"
           /\ {"active", "imageReady"} \subseteq r.flags => Unattended(r)

(* Where the owner stands.                                                 *)
Stands(p, r) ==
  /\ p \in {"install", "select"} =>
       {"active", "imageReady"} \subseteq r.flags /\ "selected" \notin r.flags
  /\ p = "select" => attempt = r.expectedHash
  /\ p = "reboot" => "selected" \in r.flags
  /\ p \in {"check", "finishOk", "finishFail", "publishOk", "publishFail"} =>
       "imageReady" \notin r.flags
  /\ p \notin {"install", "select"} => Calm(r)

Standing == Stands(pc, ota)

(* The slots.                                                              *)
SlotsOK == /\ BootSafe
           /\ Bootable(flash, running) /\ imgState[running] \in {"valid", "pending"}

IInv == TypeOK /\ Sound(ota) /\ Standing /\ SlotsOK

-----------------------------------------------------------------------------
(* What the helpers do to the RAM.                                         *)
LEMMA PublishIs ==
  ASSUME NEW r \in RamState, NEW stage \in Stages
  PROVE  LET q == Publish(r, stage)
         IN /\ q \in RamState /\ q.stage = stage
            /\ q.flags = IF stage \in {"Failed", "WaitingPower"}
                         THEN r.flags \ {"approvedRequest"} ELSE r.flags
            /\ q.sha256 = r.sha256 /\ q.approvedHash = r.approvedHash
            /\ q.expectedHash = r.expectedHash /\ q.grantSha = r.grantSha
            /\ q.grant = r.grant /\ q.received = r.received
<1> DEFINE flags == IF stage \in {"Failed", "WaitingPower"}
                    THEN r.flags \ {"approvedRequest"} ELSE r.flags
<1>1. Publish(r, stage) = [r EXCEPT !.stage = stage, !.flags = flags]
  BY DEF Publish
<1>2. flags \in SUBSET Flags
  BY DEF RamState
<1> HIDE DEF flags
<1>3. [r EXCEPT !.stage = stage, !.flags = flags] \in RamState
  BY <1>2 DEF RamState
<1>4. LET q == [r EXCEPT !.stage = stage, !.flags = flags]
      IN /\ q.stage = stage /\ q.flags = flags
         /\ q.sha256 = r.sha256 /\ q.approvedHash = r.approvedHash
         /\ q.expectedHash = r.expectedHash /\ q.grantSha = r.grantSha
         /\ q.grant = r.grant /\ q.received = r.received
  BY DEF RamState
<1> QED BY <1>1, <1>3, <1>4 DEF flags

SameHashes(q, r) == /\ q.sha256 = r.sha256 /\ q.approvedHash = r.approvedHash
                    /\ q.expectedHash = r.expectedHash /\ q.grantSha = r.grantSha

LEMMA ShownIs ==
  ASSUME NEW r \in RamState, NEW stage \in Stages, stage \notin {"Failed", "WaitingPower"}
  PROVE  LET q == Publish(r, stage)
         IN q \in RamState /\ q.stage = stage /\ q.flags = r.flags /\ SameHashes(q, r)
<1> DEFINE q == Publish(r, stage)
<1>1. /\ q \in RamState /\ q.stage = stage
      /\ q.flags = IF stage \in {"Failed", "WaitingPower"}
                   THEN r.flags \ {"approvedRequest"} ELSE r.flags
      /\ q.sha256 = r.sha256 /\ q.approvedHash = r.approvedHash
      /\ q.expectedHash = r.expectedHash /\ q.grantSha = r.grantSha
  BY PublishIs
<1> HIDE DEF q
<1>2. q.flags = r.flags
  BY <1>1
<1> QED BY <1>1, <1>2 DEF q, SameHashes

LEMMA FailedIs ==
  ASSUME NEW r \in RamState, NEW stage \in {"Failed", "WaitingPower"}
  PROVE  LET q == Publish(r, stage)
         IN /\ q \in RamState /\ q.stage = stage
            /\ q.flags = r.flags \ {"approvedRequest"} /\ SameHashes(q, r)
<1> DEFINE q == Publish(r, stage)
<1>1. /\ q \in RamState /\ q.stage = stage
      /\ q.flags = IF stage \in {"Failed", "WaitingPower"}
                   THEN r.flags \ {"approvedRequest"} ELSE r.flags
      /\ q.sha256 = r.sha256 /\ q.approvedHash = r.approvedHash
      /\ q.expectedHash = r.expectedHash /\ q.grantSha = r.grantSha
  BY PublishIs DEF Stages
<1> HIDE DEF q
<1>2. q.flags = r.flags \ {"approvedRequest"}
  BY <1>1
<1> QED BY <1>1, <1>2 DEF q, SameHashes

Given == Work \cup {"pending"}

LEMMA FailKept ==
  ASSUME NEW r \in RamState, "selected" \in r.flags
  PROVE  LET q == FailLocked(r)
         IN /\ q \in RamState /\ q.stage = "ReadyReboot" /\ q.flags = r.flags \ Given
            /\ q.sha256 = r.sha256 /\ q.approvedHash = r.approvedHash
            /\ q.expectedHash = r.expectedHash /\ q.grantSha = r.grantSha
<1> DEFINE flags == r.flags \ Given
           s == [r EXCEPT !.grant = "none", !.flags = flags]
<1>1. flags \in SUBSET Flags /\ flags = r.flags \ (Queued \cup {"active", "pending", "approvedRequest"})
  BY DEF RamState, Given, Work
<1>2. FailLocked(r) = Publish(s, "ReadyReboot")
  BY <1>1 DEF FailLocked
<1> HIDE DEF flags
<1>3. /\ s \in RamState /\ s.flags = flags
      /\ s.sha256 = r.sha256 /\ s.approvedHash = r.approvedHash
      /\ s.expectedHash = r.expectedHash /\ s.grantSha = r.grantSha
  BY <1>1 DEF RamState
<1> HIDE DEF s
<1>4. "ReadyReboot" \in Stages
  BY DEF Stages
<1>5. LET q == Publish(s, "ReadyReboot")
      IN /\ q \in RamState /\ q.stage = "ReadyReboot" /\ q.flags = s.flags
         /\ q.sha256 = s.sha256 /\ q.approvedHash = s.approvedHash
         /\ q.expectedHash = s.expectedHash /\ q.grantSha = s.grantSha
  BY ZenonT(60), <1>3, <1>4, PublishIs
<1> HIDE DEF s
<1>6. LET q == Publish(s, "ReadyReboot")
      IN /\ q \in RamState /\ q.stage = "ReadyReboot" /\ q.flags = flags
         /\ q.sha256 = r.sha256 /\ q.approvedHash = r.approvedHash
         /\ q.expectedHash = r.expectedHash /\ q.grantSha = r.grantSha
  BY <1>3, <1>5
<1> QED BY <1>2, <1>6, Zenon DEF flags

Lost == Given \cup {"maintenanceMode", "writing", "imageReady", "imageVerified"}

LEMMA FailLost ==
  ASSUME NEW r \in RamState, "selected" \notin r.flags
  PROVE  LET q == FailLocked(r)
         IN /\ q \in RamState /\ q.stage = "Failed" /\ q.flags = r.flags \ Lost
            /\ q.sha256 = r.sha256 /\ q.approvedHash = r.approvedHash
            /\ q.expectedHash = r.expectedHash
<1> DEFINE flags == r.flags \ Lost
           s == [r EXCEPT !.grant = "none", !.grantSha = NoImage, !.flags = flags]
           t == [r EXCEPT !.grant = "none",
                          !.flags = @ \ (Queued \cup {"active", "pending", "approvedRequest"})]
           u == [t EXCEPT !.grantSha = NoImage,
                          !.flags = @ \ {"maintenanceMode", "writing", "imageReady", "imageVerified"}]
<1>1. flags \in SUBSET Flags
  BY DEF RamState
<1>2. FailLocked(r) = Publish(u, "Failed")
  BY DEF FailLocked
<1>3. u = s
  <2>1. u.flags = flags
    BY DEF RamState, Given, Lost, Work
  <2>2. u = [r EXCEPT !.grant = "none", !.grantSha = NoImage, !.flags = u.flags]
    BY DEF RamState
  <2> QED BY <2>1, <2>2
<1> HIDE DEF flags, u, t
<1>4. NoImage \in Hashes
  BY DEF Hashes
<1>5. /\ s \in RamState /\ s.flags = flags
      /\ s.sha256 = r.sha256 /\ s.approvedHash = r.approvedHash
      /\ s.expectedHash = r.expectedHash
  BY <1>1, <1>4 DEF RamState
<1> HIDE DEF s
<1>6. "Failed" \in Stages
  BY DEF Stages
<1>7. flags \ {"approvedRequest"} = flags
  BY DEF flags, Lost, Given, Work
<1>8. LET q == Publish(s, "Failed")
      IN /\ q \in RamState /\ q.stage = "Failed" /\ q.flags = s.flags \ {"approvedRequest"}
         /\ q.sha256 = s.sha256 /\ q.approvedHash = s.approvedHash
         /\ q.expectedHash = s.expectedHash
  BY <1>5, <1>6, PublishIs
<1>9. LET q == Publish(s, "Failed")
      IN /\ q \in RamState /\ q.stage = "Failed" /\ q.flags = flags
         /\ q.sha256 = r.sha256 /\ q.approvedHash = r.approvedHash
         /\ q.expectedHash = r.expectedHash
  BY <1>5, <1>7, <1>8
<1>10. FailLocked(r) = Publish(s, "Failed")
  BY <1>2, <1>3
<1> QED BY <1>9, <1>10, Zenon DEF flags

-----------------------------------------------------------------------------
(* What the helpers keep.                                                  *)
LEMMA SoundFails ==
  ASSUME NEW r, Sound(r)
  PROVE  LET q == FailLocked(r)
         IN /\ Sound(q) /\ Calm(q)
            /\ q.flags \subseteq r.flags /\ q.flags \cap (Work \cup {"pending"}) = {}
<1> DEFINE q == FailLocked(r)
<1>0. r \in RamState
  BY DEF Sound
<1>1. CASE "selected" \in r.flags
  <2>1. /\ q \in RamState /\ q.stage = "ReadyReboot" /\ q.flags = r.flags \ Given
        /\ q.sha256 = r.sha256 /\ q.approvedHash = r.approvedHash
        /\ q.expectedHash = r.expectedHash /\ q.grantSha = r.grantSha
    BY <1>0, <1>1, FailKept
  <2> HIDE DEF q
  <2>2. "imageReady" \in r.flags /\ "writing" \notin r.flags
    BY <1>1 DEF Sound, Single
  <2>3. Single(q)
    BY <2>1, <2>2 DEF Sound, Single, Given, Work, Queued
  <2>4. Ends(q) /\ Screen(q)
    BY <1>1, <2>1, <2>2 DEF Sound, Ends, Screen, Given, Work, Queued
  <2>5. Pinned(q)
    BY <2>1, <2>2 DEF Sound, Pinned, Given, Work, Queued
  <2>6. News(q) /\ Slotted(q)
    BY <2>1, <2>2 DEF Sound, News, Slotted, Given, Work, Queued
  <2>7. Calm(q)
    BY <2>1 DEF Calm, Given, Work, Queued
  <2>8. q.flags \subseteq r.flags /\ q.flags \cap (Work \cup {"pending"}) = {}
    BY <2>1 DEF Given
  <2> QED BY <2>1, <2>3, <2>4, <2>5, <2>6, <2>7, <2>8 DEF Sound, q
<1>2. CASE "selected" \notin r.flags
  <2>1. /\ q \in RamState /\ q.stage = "Failed" /\ q.flags = r.flags \ Lost
        /\ q.sha256 = r.sha256 /\ q.approvedHash = r.approvedHash
        /\ q.expectedHash = r.expectedHash
    BY <1>0, <1>2, FailLost
  <2> HIDE DEF q
  <2>3. Single(q)
    BY <1>2, <2>1 DEF Sound, Single, Lost, Given, Work, Queued
  <2>4. Ends(q) /\ Screen(q)
    BY <2>1 DEF Sound, Ends, Screen, Lost, Given, Work, Queued
  <2>5. Pinned(q)
    BY <2>1 DEF Sound, Pinned, Lost, Given, Work, Queued
  <2>6. News(q) /\ Slotted(q)
    BY <1>2, <2>1 DEF Sound, News, Slotted, Lost, Given, Work, Queued
  <2>7. Calm(q)
    BY <2>1 DEF Calm, Lost, Given, Work, Queued
  <2>8. q.flags \subseteq r.flags /\ q.flags \cap (Work \cup {"pending"}) = {}
    BY <2>1 DEF Lost, Given
  <2> QED BY <2>1, <2>3, <2>4, <2>5, <2>6, <2>7, <2>8 DEF Sound, q
<1> QED BY <1>1, <1>2

LEMMA SoundSame ==
  ASSUME NEW r, Sound(r), NEW q \in RamState,
         q.flags = r.flags, q.stage = r.stage, SameHashes(q, r)
  PROVE  Sound(q) /\ (Calm(r) => Calm(q))
BY DEF Sound, Single, Ends, Screen, Pinned, News, Slotted, Calm, Unattended, SameHashes

(* A page of the screen that does not matter to a ready candidate, and     *)
(* flags that matter to nothing else going down.                           *)
LEMMA SoundShown ==
  ASSUME NEW r, Sound(r), NEW q \in RamState, SameHashes(q, r),
         q.flags \subseteq r.flags,
         r.flags \ q.flags \subseteq Work \cup {"installSince", "pending"},
         "active" \in q.flags \/ r.flags \cap {"pending", "writing"} = {},
         q.stage = r.stage \/ q.stage # "Available",
         "imageReady" \in r.flags =>
           IF "selected" \in r.flags THEN q.stage = "ReadyReboot"
           ELSE q.stage \in {"ReadyInstall", "WaitingPower", "Installing"}
  PROVE  Sound(q)
<1>1. \A f \in {"writing", "imageReady", "selected", "imageVerified",
                "maintenanceMode", "bootPending", "automaticMode"} :
        f \in q.flags <=> f \in r.flags
  BY DEF Work, Queued
<1>2. Single(q)
  BY <1>1 DEF Sound, Single
<1>3. Ends(q) /\ Screen(q)
  BY <1>1 DEF Sound, Ends, Screen
<1>4. Pinned(q)
  BY <1>1 DEF Sound, Pinned, SameHashes
<1>5. News(q) /\ Slotted(q)
  BY <1>1 DEF Sound, News, Slotted, SameHashes
<1> QED BY <1>2, <1>3, <1>4, <1>5 DEF Sound

LEMMA SoundRevoked ==
  ASSUME NEW r, Sound(r)
  PROVE  LET q == RevokeForNormalRequest(r)
         IN /\ Sound(q) /\ (Calm(r) => Calm(q)) /\ q.flags \subseteq r.flags
<1> DEFINE q == RevokeForNormalRequest(r)
           s == [r EXCEPT !.grant = "none"]
<1>0. /\ r \in RamState /\ s \in RamState /\ s.flags = r.flags /\ s.stage = r.stage
      /\ SameHashes(s, r)
  BY DEF Sound, RamState, SameHashes
<1>1. CASE "maintenanceMode" \notin r.flags
  BY <1>0, <1>1, SoundSame DEF RevokeForNormalRequest
<1>2. CASE "maintenanceMode" \in r.flags /\ "selected" \in r.flags
  <2>1. q = Publish(s, "ReadyReboot") /\ "ReadyReboot" \in Stages
    BY <1>2 DEF RevokeForNormalRequest, Stages
  <2> HIDE DEF q, s
  <2>2. q \in RamState /\ q.stage = "ReadyReboot" /\ q.flags = s.flags /\ SameHashes(q, s)
    BY <1>0, <2>1, ShownIs
  <2>3. q.flags = r.flags /\ SameHashes(q, r)
    BY <1>0, <2>2 DEF SameHashes
  <2>4. Sound(q)
    <3>1. r.flags \cap {"pending", "writing"} = {}
      BY <1>2 DEF Sound, Single
    <3> QED BY <1>2, <2>2, <2>3, <3>1, SoundShown
  <2>5. Calm(r) => Calm(q)
    BY <2>2, <2>3 DEF Calm, Unattended
  <2> QED BY <2>3, <2>4, <2>5 DEF q
<1>3. CASE "maintenanceMode" \in r.flags /\ "selected" \notin r.flags
  <2>1. q = FailLocked(r)
    BY <1>3 DEF RevokeForNormalRequest
  <2> QED BY <2>1, SoundFails
<1> QED BY <1>1, <1>2, <1>3

(* Without a candidate there is nothing to unbind the screen from.         *)
LEMMA SoundCleared ==
  ASSUME NEW r, Sound(r), r.flags \cap {"writing", "imageReady"} = {}
  PROVE  LET q == ClearCandidateUi(r)
         IN /\ Sound(q) /\ (Calm(r) => Calm(q)) /\ q.stage = r.stage
            /\ q.flags = r.flags \ {"imageVerified"} /\ q.approvedHash = r.approvedHash
            /\ q.sha256 = NoImage /\ q.grantSha = r.grantSha
<1> DEFINE q == ClearCandidateUi(r)
<1>0. r \in RamState /\ NoImage \in Hashes
  BY DEF Sound, Hashes
<1>1. /\ q \in RamState /\ q.stage = r.stage /\ q.flags = r.flags \ {"imageVerified"}
      /\ q.sha256 = NoImage /\ q.approvedHash = r.approvedHash
      /\ q.expectedHash = r.expectedHash /\ q.grantSha = r.grantSha
  BY <1>0 DEF ClearCandidateUi, RamState
<1> HIDE DEF q
<1>2. Single(q)
  BY <1>1 DEF Sound, Single, Work, Queued
<1>3. Ends(q) /\ Screen(q) /\ Pinned(q)
  BY <1>1 DEF Sound, Ends, Screen, Pinned
<1>4. News(q) /\ Slotted(q)
  BY <1>1 DEF Sound, News, Slotted
<1>5. Calm(r) => Calm(q)
  BY <1>1 DEF Calm, Unattended
<1> QED BY <1>1, <1>2, <1>3, <1>4, <1>5 DEF Sound, q

LEMMA SoundBound ==
  ASSUME NEW r, Sound(r), r.flags \cap {"writing", "imageReady"} = {}, NEW e
  PROVE  LET q == RefreshRequestUiBinding(r, e)
         IN /\ Sound(q) /\ (Calm(r) => Calm(q)) /\ q.stage = r.stage
            /\ q.flags \in {r.flags, r.flags \ {"imageVerified"}}
            /\ q.approvedHash = r.approvedHash /\ q.grantSha = r.grantSha
BY SoundCleared DEF RefreshRequestUiBinding

(* A request that is taken up asks for a download, or fails.               *)
LEMMA SoundRequested ==
  ASSUME NEW r, Sound(r), r.flags \cap Work = {}, "imageReady" \notin r.flags,
         NEW automatic \in BOOLEAN, NEW power
  PROVE  LET q == RequestLocked(r, automatic, power)
         IN /\ Sound(q) /\ Calm(q) /\ "imageReady" \notin q.flags
            /\ "active" \notin q.flags => q.flags \cap (Work \cup {"pending"}) = {}
<1> DEFINE pin   == IF "maintenanceMode" \in r.flags THEN r.grantSha ELSE r.approvedHash
           bound == RefreshRequestUiBinding(r, pin)
           flags == (bound.flags \ {"automaticMode", "fullFallbackUsed"})
                    \cup {"pending", "active"}
                    \cup (IF automatic THEN {"automaticMode"} ELSE {})
           s     == [bound EXCEPT !.received = 0, !.flags = flags]
           q     == RequestLocked(r, automatic, power)
<1>1. r.flags \cap {"writing", "imageReady", "pending", "selected"} = {}
  BY DEF Sound, Single, Work
<1>2. /\ Sound(bound) /\ bound.flags \in {r.flags, r.flags \ {"imageVerified"}}
  BY <1>1, SoundBound
<1>3. q = IF ~CurrentReady \/ ~PowerSafe(bound, power) THEN FailLocked(bound)
          ELSE Publish(s, "Downloading")
  BY DEF RequestLocked
<1> HIDE DEF q, bound
<1>4. CASE ~CurrentReady \/ ~PowerSafe(bound, power)
  <2>1. q = FailLocked(bound)
    BY <1>3, <1>4
  <2> QED BY <1>1, <1>2, <2>1, SoundFails DEF q
<1>5. CASE ~(~CurrentReady \/ ~PowerSafe(bound, power))
  <2>1. q = Publish(s, "Downloading")
    BY <1>3, <1>5
  <2>2. bound \in RamState /\ flags \in SUBSET Flags /\ "Downloading" \in Stages
    BY <1>2 DEF Sound, RamState, Flags, Stages
  <2> HIDE DEF flags
  <2>z. 0 \in 0 .. Chunks
    BY MosaicoOtaAssumption
  <2>3. s \in RamState /\ s.flags = flags /\ SameHashes(s, bound)
    BY <2>2, <2>z DEF RamState, SameHashes
  <2> HIDE DEF s
  <2>4. q \in RamState /\ q.flags = flags /\ q.stage = "Downloading" /\ SameHashes(q, bound)
    <3>1. LET p == Publish(s, "Downloading")
          IN p \in RamState /\ p.flags = s.flags /\ p.stage = "Downloading" /\ SameHashes(p, s)
      BY <2>2, <2>3, ShownIs
    <3> QED BY <2>1, <2>3, <3>1 DEF SameHashes
  <2>5. /\ \A f \in Work : f \in q.flags <=> f = "active"
        /\ "active" \in q.flags
    BY <1>2, <2>4 DEF flags, Work, Queued
  <2>6. \A f \in {"writing", "imageReady", "selected"} : f \notin q.flags
    BY <1>1, <1>2, <2>4 DEF flags
  <2>7. "bootPending" \in q.flags <=> "bootPending" \in bound.flags
    BY <2>4 DEF flags
  <2>8. "selected" \notin bound.flags
    BY <1>1, <1>2
  <2> HIDE DEF flags
  <2>9. Single(q)
    BY <2>5, <2>6 DEF Single
  <2>10. Ends(q) /\ Screen(q) /\ Pinned(q)
    BY <2>6, <2>5 DEF Ends, Screen, Pinned, Work, Queued
  <2>11. News(q) /\ Slotted(q)
    BY <1>2, <2>4, <2>6, <2>7, <2>8 DEF Sound, News, Slotted
  <2>12. Calm(q)
    BY <2>4, <2>6 DEF Calm
  <2> QED BY <2>4, <2>5, <2>6, <2>9, <2>10, <2>11, <2>12 DEF Sound, q
<1> QED BY <1>4, <1>5

LEMMA SoundApproved ==
  ASSUME NEW r, Sound(r), NEW e \in Hashes
  PROVE  LET q == ApproveUpdateLocked(r, e)
         IN /\ Sound(q) /\ (Calm(r) => Calm(q))
            /\ "imageReady" \in q.flags => "imageReady" \in r.flags
<1> DEFINE v == RevokeForNormalRequest(r)
           q == ApproveUpdateLocked(r, e)
           go == /\ ~Busy(v) /\ e = v.sha256 /\ e # NoImage
                 /\ "imageVerified" \notin v.flags
                 /\ v.stage \in {"Available", "WaitingPower"}
           s == [v EXCEPT !.approvedHash = e, !.flags = @ \cup {"approvedRequest"}]
<1>1. Sound(v) /\ (Calm(r) => Calm(v)) /\ v.flags \subseteq r.flags
  BY SoundRevoked
<1>2. q = IF go THEN s ELSE v
  BY DEF ApproveUpdateLocked
<1> HIDE DEF q, v
<1>3. CASE ~go
  BY <1>1, <1>2, <1>3 DEF q
<1>4. CASE go
  <2>1. v.flags \cap Work = {} /\ "imageVerified" \notin v.flags
        /\ v.stage \in {"Available", "WaitingPower"} /\ v \in RamState
    BY <1>1, <1>4 DEF Busy, Work, Sound
  <2>2. \A f \in {"pending", "writing", "imageReady", "selected"} : f \notin v.flags
    BY <1>1, <2>1 DEF Sound, Single, Screen, Work
  <2>3. /\ s \in RamState /\ s.flags = v.flags \cup {"approvedRequest"} /\ s.stage = v.stage
        /\ s.sha256 = v.sha256 /\ s.expectedHash = v.expectedHash /\ s.grantSha = v.grantSha
    BY <2>1 DEF RamState, Flags
  <2> HIDE DEF s
  <2>4. Single(s)
    BY <2>1, <2>2, <2>3 DEF Single, Work, Queued
  <2>5. Ends(s) /\ Screen(s) /\ Pinned(s)
    BY <1>1, <2>2, <2>3 DEF Sound, Ends, Screen, Pinned
  <2>6. News(s) /\ Slotted(s)
    BY <1>1, <2>2, <2>3 DEF Sound, News, Slotted
  <2>7. Calm(r) => Calm(s)
    BY <1>1, <2>2, <2>3 DEF Calm
  <2> QED BY <1>2, <1>4, <2>2, <2>3, <2>4, <2>5, <2>6, <2>7 DEF Sound, q
<1> QED BY <1>3, <1>4

-----------------------------------------------------------------------------
(* What the requests of the screen and the console put in the RAM.         *)
Quiet(r) == r.flags \cap {"writing", "imageReady", "pending", "selected"} = {}

LEMMA IdleOf ==
  ASSUME NEW r, Sound(r), ~Busy(r)
  PROVE  /\ r.flags \cap Work = {} /\ r.flags \cap {"pending", "writing", "bootPending"} = {}
         /\ ~Staged(r) => Quiet(r)
BY DEF Sound, Single, Busy, Work, Staged, Quiet

LEMMA SoundRepinned ==
  ASSUME NEW r, Sound(r), Quiet(r), NEW h \in Hashes
  PROVE  LET q == [r EXCEPT !.approvedHash = h]
         IN Sound(q) /\ (Calm(r) => Calm(q)) /\ q.flags = r.flags /\ q.stage = r.stage
<1> DEFINE q == [r EXCEPT !.approvedHash = h]
<1>1. /\ q \in RamState /\ q.flags = r.flags /\ q.stage = r.stage /\ q.sha256 = r.sha256
      /\ q.expectedHash = r.expectedHash /\ q.grantSha = r.grantSha
  BY DEF Sound, RamState
<1> HIDE DEF q
<1>2. Single(q) /\ Ends(q) /\ Screen(q)
  BY <1>1 DEF Sound, Single, Ends, Screen
<1>3. Pinned(q) /\ News(q) /\ Slotted(q)
  BY <1>1 DEF Sound, Pinned, News, Slotted, Quiet
<1>4. Calm(r) => Calm(q)
  BY <1>1 DEF Calm, Unattended
<1> QED BY <1>1, <1>2, <1>3, <1>4 DEF Sound, q

(* One more piece of work, where there is none.                            *)
LEMMA SoundQueued ==
  ASSUME NEW r, Sound(r), r.flags \cap Work = {}, r.flags \cap {"pending", "writing"} = {},
         NEW f \in {"checkQueued", "installQueued", "rebootQueued"},
         f = "checkQueued" => "imageReady" \notin r.flags,
         f = "installQueued" => "imageReady" \in r.flags /\ "selected" \notin r.flags
  PROVE  LET q == [r EXCEPT !.flags = @ \cup {f}]
         IN Sound(q) /\ (Calm(r) => Calm(q)) /\ q.flags = r.flags \cup {f}
<1> DEFINE q == [r EXCEPT !.flags = @ \cup {f}]
<1>1. /\ q \in RamState /\ q.flags = r.flags \cup {f} /\ q.stage = r.stage
      /\ SameHashes(q, r)
  BY DEF Sound, RamState, SameHashes, Flags, Queued
<1> HIDE DEF q
<1>2. \A g \in q.flags \cap Work : g = f
  BY <1>1
<1>3. \A g \in {"pending", "writing", "imageReady", "selected", "imageVerified", "active",
                "maintenanceMode", "automaticMode", "bootPending"} :
        g \in q.flags <=> g \in r.flags
  BY <1>1
<1>4. Single(q)
  BY <1>1, <1>2, <1>3 DEF Sound, Single
<1>5. Ends(q)
  BY <1>1, <1>3 DEF Sound, Ends, Work, Queued
<1>6. Screen(q) /\ Pinned(q)
  BY <1>1, <1>3 DEF Sound, Screen, Pinned, SameHashes
<1>7. News(q) /\ Slotted(q)
  BY <1>1, <1>3 DEF Sound, News, Slotted, SameHashes
<1>8. Calm(r) => Calm(q)
  BY <1>1, <1>3 DEF Calm, Unattended
<1> QED BY <1>1, <1>4, <1>5, <1>6, <1>7, <1>8 DEF Sound, q

(* What every request of another task leaves behind.                       *)
Asked(q) == Sound(q) /\ Calm(q) /\ ("imageReady" \in q.flags => "imageReady" \in ota.flags)

LEMMA RevokedAsked ==
  ASSUME Sound(ota), Calm(ota)
  PROVE  Asked(RevokeForNormalRequest(ota)) /\ Asked(ota)
BY SoundRevoked DEF Asked

LEMMA RequestAsks ==
  ASSUME Sound(ota), Calm(ota), NEW power \in BOOLEAN, Request(power)
  PROVE  Asked(ota')
<1> DEFINE r == RevokeForNormalRequest(ota)
           offered == r.sha256 # NoImage /\ r.stage \in {"Available", "WaitingPower"}
           pinned == IF offered THEN [r EXCEPT !.approvedHash = r.sha256]
                     ELSE ClearCandidateUi([r EXCEPT !.approvedHash = NoImage])
<1>1. Asked(r)
  BY RevokedAsked
<1>2. ota' = IF Busy(r) \/ Staged(r) THEN r
             ELSE IF ~power THEN pinned ELSE RequestLocked(pinned, TRUE, power)
  BY DEF Request, Caller
<1> HIDE DEF r
<1>3. CASE Busy(r) \/ Staged(r)
  BY <1>1, <1>2, <1>3
<1>4. CASE ~(Busy(r) \/ Staged(r))
  <2>1. Sound(r) /\ Calm(r) /\ r.flags \cap Work = {} /\ Quiet(r)
    BY <1>1, <1>4, IdleOf DEF Asked
  <2>2. r.sha256 \in Hashes /\ NoImage \in Hashes
    BY <2>1 DEF Sound, RamState, Hashes
  <2>3. Sound(pinned) /\ Calm(pinned) /\ pinned.flags \subseteq r.flags
    <3>1. CASE offered
      BY <2>1, <2>2, <3>1, SoundRepinned
    <3>2. CASE ~offered
      <4> DEFINE s == [r EXCEPT !.approvedHash = NoImage]
      <4>1. Sound(s) /\ Calm(s) /\ s.flags = r.flags
        BY <2>1, <2>2, SoundRepinned
      <4>2. pinned = ClearCandidateUi(s)
        BY <3>2
      <4> HIDE DEF s, pinned
      <4> QED BY <2>1, <4>1, <4>2, SoundCleared DEF Quiet
    <3> QED BY <3>1, <3>2
  <2>4. ota' = pinned \/ ota' = RequestLocked(pinned, TRUE, power)
    BY <1>2, <1>4
  <2> HIDE DEF pinned
  <2>5. pinned.flags \cap Work = {} /\ "imageReady" \notin pinned.flags
    BY <2>1, <2>3 DEF Quiet
  <2> QED BY <2>3, <2>4, <2>5, SoundRequested DEF Asked
<1> QED BY <1>3, <1>4

LEMMA MaintenanceUpdateAsks ==
  ASSUME Sound(ota), Calm(ota), NEW expected \in Images, NEW power \in BOOLEAN,
         RequestMaintenanceUpdate(expected, power)
  PROVE  Asked(ota')
<1> DEFINE bound == RefreshRequestUiBinding(ota, expected)
           granted == [bound EXCEPT
                    !.grant = "live", !.grantSha = expected, !.approvedHash = NoImage,
                    !.flags = (@ \ {"automaticMode"}) \cup {"maintenanceMode"}]
           refused == [ota EXCEPT !.grant = "none"]
<1>1. ota' = IF Busy(ota) \/ Staged(ota) \/ ~CurrentReady \/ running # bootSlot
             THEN refused ELSE RequestLocked(granted, FALSE, power)
  BY DEF RequestMaintenanceUpdate, Caller
<1>2. CASE Busy(ota) \/ Staged(ota) \/ ~CurrentReady \/ running # bootSlot
  <2>1. ota' = refused
    BY <1>1, <1>2
  <2>2. /\ refused \in RamState /\ refused.flags = ota.flags /\ refused.stage = ota.stage
        /\ SameHashes(refused, ota)
    BY DEF Sound, RamState, SameHashes
  <2> HIDE DEF refused
  <2> QED BY <2>1, <2>2, SoundSame DEF Asked
<1>3. CASE ~(Busy(ota) \/ Staged(ota) \/ ~CurrentReady \/ running # bootSlot)
  <2>1. ota.flags \cap Work = {} /\ Quiet(ota)
    BY <1>3, IdleOf
  <2>2. Sound(bound) /\ Calm(bound) /\ bound.flags \subseteq ota.flags
    BY <2>1, SoundBound DEF Quiet
  <2> HIDE DEF bound
  <2>3. expected \in Hashes /\ NoImage \in Hashes
    BY DEF Hashes
  <2>4. /\ granted \in RamState /\ granted.stage = bound.stage
        /\ granted.flags = (bound.flags \ {"automaticMode"}) \cup {"maintenanceMode"}
        /\ granted.sha256 = bound.sha256
    BY <2>2, <2>3 DEF Sound, RamState, Flags
  <2> HIDE DEF granted
  <2>5. granted.flags \cap Work = {} /\ Quiet(granted)
    BY <2>1, <2>2, <2>4 DEF Quiet, Work, Queued
  <2>6. Single(granted) /\ Ends(granted) /\ Screen(granted) /\ Pinned(granted)
    BY <2>5 DEF Single, Ends, Screen, Pinned, Quiet, Work, Queued
  <2>7. News(granted) /\ Slotted(granted)
    BY <2>1, <2>2, <2>4, <2>5 DEF Sound, News, Slotted, Quiet
  <2>8. Sound(granted)
    BY <2>4, <2>6, <2>7 DEF Sound
  <2>9. ota' = RequestLocked(granted, FALSE, power) /\ "imageReady" \notin granted.flags
    BY <1>1, <1>3, <2>5 DEF Quiet
  <2> QED BY <2>5, <2>8, <2>9, SoundRequested DEF Asked
<1> QED BY <1>2, <1>3

LEMMA MaintenanceRebootAsks ==
  ASSUME Sound(ota), Calm(ota), NEW expected \in Images, NEW power \in BOOLEAN,
         RequestMaintenanceReboot(expected, power)
  PROVE  Asked(ota')
<1> DEFINE refuse == \/ ~({"maintenanceMode", "selected", "imageReady"} \subseteq ota.flags)
                     \/ Busy(ota) \/ bootSlot # Other(running) \/ ~CurrentReady
                     \/ expected # ota.expectedHash
           granted == [ota EXCEPT !.grant = "live", !.grantSha = expected]
           refused == [ota EXCEPT !.grant = "none"]
<1>1. ota' = IF refuse THEN refused
             ELSE IF ~PowerSafe(granted, power) THEN FailLocked(granted)
             ELSE [granted EXCEPT !.flags = @ \cup {"rebootQueued"}]
  BY DEF RequestMaintenanceReboot, Caller
<1>2. CASE refuse
  <2>1. ota' = refused
    BY <1>1, <1>2
  <2>2. /\ refused \in RamState /\ refused.flags = ota.flags /\ refused.stage = ota.stage
        /\ SameHashes(refused, ota)
    BY DEF Sound, RamState, SameHashes
  <2> HIDE DEF refused
  <2> QED BY <2>1, <2>2, SoundSame DEF Asked
<1>3. CASE ~refuse
  <2>1. expected = ota.expectedHash /\ ~Busy(ota) /\ "imageReady" \in ota.flags
        /\ "maintenanceMode" \in ota.flags
    BY <1>3
  <2>2. granted \in RamState /\ granted.flags = ota.flags /\ granted.stage = ota.stage
        /\ SameHashes(granted, ota)
    BY <2>1 DEF Sound, Pinned, RamState, SameHashes
  <2> HIDE DEF granted
  <2>3. Sound(granted) /\ Calm(granted)
    BY <2>2, SoundSame
  <2>4. granted.flags \cap Work = {} /\ granted.flags \cap {"pending", "writing"} = {}
    BY <2>1, <2>2, IdleOf
  <2>5. \/ ota' = FailLocked(granted)
        \/ ota' = [granted EXCEPT !.flags = @ \cup {"rebootQueued"}]
    BY <1>1, <1>3
  <2>6. CASE ota' = FailLocked(granted)
    BY <2>2, <2>3, <2>6, SoundFails DEF Asked
  <2>7. CASE ota' = [granted EXCEPT !.flags = @ \cup {"rebootQueued"}]
    BY <2>1, <2>3, <2>4, <2>7, SoundQueued DEF Asked
  <2> QED BY <2>5, <2>6, <2>7
<1> QED BY <1>2, <1>3

LEMMA ApproveUpdateAsks ==
  ASSUME Sound(ota), Calm(ota), NEW expected \in Images, ApproveUpdate(expected)
  PROVE  Asked(ota')
<1>1. expected \in Hashes /\ ota' = ApproveUpdateLocked(ota, expected)
  BY DEF ApproveUpdate, Caller, Hashes
<1> QED BY <1>1, SoundApproved DEF Asked

LEMMA DeferAsks ==
  ASSUME Sound(ota), Calm(ota), DeferUpdate
  PROVE  Asked(ota')
<1> DEFINE r == RevokeForNormalRequest(ota)
           q == [r EXCEPT !.stage = "Idle"]
           keep == Busy(r) \/ r.flags \cap {"imageVerified", "selected"} # {}
<1>1. Asked(r) /\ ota' = IF keep THEN r ELSE q
  BY RevokedAsked DEF DeferUpdate, Caller
<1> HIDE DEF r
<1>2. CASE keep
  BY <1>1, <1>2
<1>3. CASE ~keep
  <2>1. ~Busy(r) /\ Sound(r) /\ "imageVerified" \notin r.flags /\ "selected" \notin r.flags
    BY <1>1, <1>3 DEF Asked
  <2>2. r.flags \cap {"pending", "writing"} = {} /\ "imageReady" \notin r.flags
    BY <2>1, IdleOf DEF Sound, Screen
  <2>3. q \in RamState /\ q.flags = r.flags /\ q.stage = "Idle" /\ SameHashes(q, r)
    BY <2>1 DEF Sound, RamState, SameHashes, Stages
  <2>5. ota' = q
    BY <1>1, <1>3
  <2> HIDE DEF q
  <2>6. Sound(q)
    BY <2>1, <2>2, <2>3, SoundShown
  <2>7. Calm(q)
    BY <2>2, <2>3 DEF Calm
  <2> QED BY <2>2, <2>3, <2>5, <2>6, <2>7 DEF Asked
<1> QED BY <1>2, <1>3

LEMMA AutomaticAsks ==
  ASSUME Sound(ota), Calm(ota), NEW enabled \in BOOLEAN, NEW stored \in BOOLEAN,
         SetAutomaticInstall(enabled, stored)
  PROVE  Asked(ota')
<1> DEFINE r == RevokeForNormalRequest(ota)
           flags == IF enabled THEN r.flags \cup {"autoInstall"} ELSE r.flags \ {"autoInstall"}
           q == [r EXCEPT !.flags = IF enabled THEN @ \cup {"autoInstall"}
                                               ELSE @ \ {"autoInstall"}]
<1>1. Asked(r) /\ ota' = IF ~stored THEN r ELSE q
  BY RevokedAsked DEF SetAutomaticInstall
<1> HIDE DEF r
<1>2. Sound(r) /\ Calm(r)
  BY <1>1 DEF Asked
<1>3. q \in RamState /\ q.stage = r.stage /\ SameHashes(q, r)
      /\ \A f \in Flags \ {"autoInstall"} : f \in q.flags <=> f \in r.flags
  BY <1>2 DEF Sound, RamState, SameHashes, Flags
<1>4. q.flags \cap Work = r.flags \cap Work
  BY <1>2, <1>3 DEF Sound, RamState, Flags, Work, Queued
<1> HIDE DEF q
<1>5. \A f \in {"pending", "writing", "imageReady", "selected", "imageVerified", "active",
                "maintenanceMode", "automaticMode", "bootPending", "installQueued",
                "approvedRequest", "checkQueued", "checking"} :
        f \in q.flags <=> f \in r.flags
  BY <1>3 DEF Flags, Queued
<1>6. Single(q)
  BY <1>2, <1>4, <1>5 DEF Sound, Single
<1>7. Ends(q) /\ Screen(q)
  BY <1>2, <1>3, <1>5 DEF Sound, Ends, Screen
<1>8. Pinned(q)
  BY <1>2, <1>3, <1>5 DEF Sound, Pinned, SameHashes
<1>9. News(q) /\ Slotted(q)
  BY <1>2, <1>3, <1>5 DEF Sound, News, Slotted, SameHashes
<1>10. Calm(q)
  BY <1>2, <1>3, <1>5 DEF Calm, Unattended
<1>11. Asked(q)
  BY <1>1, <1>3, <1>5, <1>6, <1>7, <1>8, <1>9, <1>10 DEF Asked, Sound
<1> QED BY <1>1, <1>11

LEMMA CheckAsks ==
  ASSUME Sound(ota), Calm(ota), RequestCheck
  PROVE  Asked(ota')
<1> DEFINE r == RevokeForNormalRequest(ota)
           c == ClearCandidateUi(r)
           q == [c EXCEPT !.flags = @ \cup {"checkQueued"}]
           keep == \/ Busy(r) \/ "selected" \in r.flags
                   \/ r.stage \in {"ReadyInstall", "ReadyReboot"}
                   \/ r.stage = "WaitingPower" /\ "imageReady" \in r.flags
<1>1. Asked(r) /\ ota' = IF keep THEN r ELSE q
  BY RevokedAsked DEF RequestCheck, Caller
<1> HIDE DEF r
<1>2. CASE keep
  BY <1>1, <1>2
<1>3. CASE ~keep
  <2>1. Sound(r) /\ Calm(r) /\ ~Busy(r) /\ ota' = q
    BY <1>1, <1>3 DEF Asked
  <2>2. r.flags \cap Work = {} /\ r.flags \cap {"pending", "writing"} = {}
    BY <2>1, IdleOf
  <2>3. "imageReady" \notin r.flags
    BY <1>3, <2>1 DEF Sound, Screen, Calm
  <2>4. Sound(c) /\ Calm(c) /\ c.flags \subseteq r.flags
    BY <2>1, <2>2, <2>3, SoundCleared
  <2> HIDE DEF c
  <2>5. c.flags \cap Work = {} /\ c.flags \cap {"pending", "writing"} = {}
        /\ "imageReady" \notin c.flags
    BY <2>2, <2>3, <2>4
  <2> QED BY <2>1, <2>4, <2>5, SoundQueued DEF Asked
<1> QED BY <1>2, <1>3

LEMMA ApproveInstallAsks ==
  ASSUME Sound(ota), Calm(ota), NEW expected \in Images, ApproveInstall(expected)
  PROVE  Asked(ota')
<1> DEFINE r == RevokeForNormalRequest(ota)
           q == [r EXCEPT !.flags = @ \cup {"installQueued"}]
           go == /\ ~Busy(r)
                 /\ expected = r.sha256 /\ expected # NoImage
                 /\ {"imageVerified", "imageReady"} \subseteq r.flags
                 /\ "selected" \notin r.flags
                 /\ r.stage \in {"ReadyInstall", "WaitingPower"}
<1>1. Asked(r) /\ ota' = IF go THEN q ELSE r
  BY RevokedAsked DEF ApproveInstall, Caller
<1> HIDE DEF r
<1>2. CASE ~go
  BY <1>1, <1>2
<1>3. CASE go
  <2>1. Sound(r) /\ Calm(r) /\ ~Busy(r) /\ ota' = q /\ "imageReady" \in r.flags
        /\ "selected" \notin r.flags
    BY <1>1, <1>3 DEF Asked
  <2>2. r.flags \cap Work = {} /\ r.flags \cap {"pending", "writing"} = {}
    BY <2>1, IdleOf
  <2> QED BY ZenonT(60), <1>1, <2>1, <2>2, SoundQueued DEF Asked
<1> QED BY <1>2, <1>3

LEMMA RebootAsks ==
  ASSUME Sound(ota), Calm(ota), RequestReboot
  PROVE  Asked(ota')
<1> DEFINE r == RevokeForNormalRequest(ota)
           q == [r EXCEPT !.flags = @ \cup {"rebootQueued"}]
           keep == Busy(r) \/ r.stage # "ReadyReboot" \/ "selected" \notin r.flags
<1>1. Asked(r) /\ ota' = IF keep THEN r ELSE q
  BY RevokedAsked DEF RequestReboot, Caller
<1> HIDE DEF r
<1>2. CASE keep
  BY <1>1, <1>2
<1>3. CASE ~keep
  <2>1. Sound(r) /\ Calm(r) /\ ~Busy(r) /\ ota' = q
    BY <1>1, <1>3 DEF Asked
  <2>2. r.flags \cap Work = {} /\ r.flags \cap {"pending", "writing"} = {}
    BY <2>1, IdleOf
  <2>3. Sound(q) /\ Calm(q) /\ q.flags = r.flags \cup {"rebootQueued"}
    BY <2>1, <2>2, SoundQueued
  <2> QED BY <1>1, <2>1, <2>3 DEF Asked
<1> QED BY <1>2, <1>3

-----------------------------------------------------------------------------
(* The steps.  One that changes the RAM only keeps the invariant when the  *)
(* record it leaves is sound for the place it leaves the owner at.         *)
LEMMA RamStep ==
  ASSUME IInv, UNCHANGED persistent, pc' \in OwnerAt, manifest' \in Hashes,
         Sound(ota'), Stands(pc', ota')
  PROVE  IInv'
<1>1. /\ flash' = flash /\ imgState' = imgState /\ bootSlot' = bootSlot
      /\ running' = running /\ attempt' = attempt /\ autoinstall' = autoinstall
  BY DEF persistent, otadata, nvs
<1>2. TypeOK'
  BY <1>1 DEF IInv, TypeOK, Sound
<1>3. Sound(ota)'
  BY <1>1 DEF Sound, Single, Ends, Screen, Pinned, News, Slotted, Holds
<1>4. Standing'
  BY <1>1 DEF Standing, Stands
<1>5. SlotsOK'
  BY <1>1 DEF IInv, SlotsOK, BootSafe, Bootable, Holds
<1> QED BY <1>2, <1>3, <1>4, <1>5 DEF IInv

(* The same when autoinstall is written too.                               *)
LEMMA AskedStep ==
  ASSUME IInv, flash' = flash, imgState' = imgState, bootSlot' = bootSlot,
         running' = running, attempt' = attempt, autoinstall' \in BOOLEAN,
         pc' = pc, manifest' = manifest, Admitted, Asked(ota')
  PROVE  IInv'
<1>2. TypeOK'
  BY DEF IInv, TypeOK, Sound, Asked
<1>3. Sound(ota)'
  BY DEF Asked, Sound, Single, Ends, Screen, Pinned, News, Slotted, Holds
<1>4. Stands(pc', ota')
  BY DEF Asked, Admitted, IInv, Standing, Stands
<1>5. Standing'
  BY <1>4 DEF Standing, Stands
<1>6. SlotsOK'
  BY DEF IInv, SlotsOK, BootSafe, Bootable, Holds
<1> QED BY <1>2, <1>3, <1>5, <1>6 DEF IInv

LEMMA AdmittedCalm == ASSUME IInv, Admitted PROVE Sound(ota) /\ Calm(ota)
BY DEF IInv, Admitted, Standing, Stands

(* RAM starts afresh in the slot the next boot takes.                      *)
LEMMA AfreshStep ==
  ASSUME IInv, ota' = OtaInit, pc' = "loop", manifest' = NoImage, running' = bootSlot',
         flash' = flash, attempt' = attempt, autoinstall' = autoinstall,
         imgState' \in [Slots -> {"undefined", "new", "pending", "valid", "aborted"}],
         bootSlot' \in Slots, imgState'[running'] \in {"valid", "pending"},
         BootSafe'
  PROVE  IInv'
<1>1. OtaInit \in RamState
  <2>1. 0 \in 0 .. Chunks
    BY MosaicoOtaAssumption
  <2> QED BY <2>1 DEF OtaInit, RamState, Hashes, Stages
<1>2. TypeOK'
  BY <1>1 DEF IInv, TypeOK, Hashes, OwnerAt
<1>3. OtaInit.flags = {} /\ OtaInit.stage = "Idle"
  BY DEF OtaInit
<1>4. Sound(ota)'
  BY <1>1, <1>3 DEF Sound, Single, Ends, Screen, Pinned, News, Slotted
<1>5. Standing'
  BY <1>3 DEF Standing, Stands, Calm
<1>6. SlotsOK'
  BY DEF SlotsOK, BootSafe
<1> QED BY <1>2, <1>4, <1>5, <1>6 DEF IInv

LEMMA OtherSlot == \A s \in Slots : Other(s) \in Slots /\ Other(s) # s /\ Other(Other(s)) = s
BY DEF Slots, Other

LEMMA RestartStep == ASSUME IInv, Restart PROVE IInv'
<1>1. /\ ota' = OtaInit /\ pc' = "loop" /\ manifest' = NoImage
      /\ flash' = flash /\ attempt' = attempt /\ autoinstall' = autoinstall
  BY DEF Restart, nvs
<1>2. /\ imgState \in [Slots -> {"undefined", "new", "pending", "valid", "aborted"}]
      /\ bootSlot \in Slots /\ BootSafe
  BY DEF IInv, TypeOK, SlotsOK
<1> DEFINE b == bootSlot
           o == Other(bootSlot)
<1>3. o \in Slots /\ o # b /\ Other(o) = b
  BY <1>2, OtherSlot
<1>4. CASE imgState[b] = "new"
  <2>1. imgState' = [imgState EXCEPT ![b] = "pending"] /\ running' = b /\ bootSlot' = b
    BY <1>4 DEF Restart, otadata
  <2>2. imgState'[b] = "pending" /\ imgState'[o] = imgState[o]
    BY <1>2, <1>3, <2>1
  <2>3. BootSafe'
    BY <1>1, <1>2, <1>3, <1>4, <2>1, <2>2 DEF BootSafe, Bootable, Holds
  <2> QED BY <1>1, <1>2, <2>1, <2>2, <2>3, AfreshStep
<1>5. CASE imgState[b] = "pending"
  <2>1. imgState' = [imgState EXCEPT ![b] = "aborted"] /\ running' = o /\ bootSlot' = o
    BY <1>5 DEF Restart, otadata
  <2>2. imgState[o] = "valid" /\ imgState'[o] = "valid" /\ Bootable(flash, o)
    BY <1>2, <1>3, <1>5, <2>1 DEF BootSafe
  <2>3. BootSafe'
    BY <1>1, <2>1, <2>2 DEF BootSafe, Bootable, Holds
  <2> QED BY <1>1, <1>2, <1>3, <2>1, <2>2, <2>3, AfreshStep
<1>6. CASE imgState[b] \notin {"new", "pending"}
  <2>1. imgState' = imgState /\ running' = b /\ bootSlot' = b
    BY <1>6 DEF Restart, otadata
  <2>2. imgState[b] = "valid"
    BY <1>2, <1>6 DEF BootSafe
  <2>3. BootSafe'
    BY <1>1, <1>2, <2>1 DEF BootSafe, Bootable, Holds
  <2> QED BY <1>1, <1>2, <2>1, <2>2, <2>3, AfreshStep
<1> QED BY <1>4, <1>5, <1>6

LEMMA RollbackStep == ASSUME IInv, RollbackTest PROVE IInv'
<1> DEFINE o == Other(running)
<1>1. /\ ota' = OtaInit /\ pc' = "loop" /\ manifest' = NoImage
      /\ flash' = flash /\ attempt' = attempt /\ autoinstall' = autoinstall
      /\ bootSlot' = o /\ running' = o /\ Bootable(flash, o) /\ imgState[o] = "valid"
      /\ imgState' = [imgState EXCEPT ![running] = "aborted"]
  BY DEF RollbackTest, nvs
<1>2. /\ imgState \in [Slots -> {"undefined", "new", "pending", "valid", "aborted"}]
      /\ running \in Slots /\ o \in Slots /\ o # running
  BY OtherSlot DEF IInv, TypeOK
<1>3. imgState'[o] = "valid"
  BY <1>1, <1>2
<1>4. BootSafe'
  BY <1>1, <1>3 DEF BootSafe, Bootable, Holds
<1> QED BY <1>1, <1>2, <1>3, <1>4, AfreshStep

LEMMA CallersStep == ASSUME IInv, Callers PROVE IInv'
<1> USE DEF persistent, otadata, nvs
<1>1. ASSUME NEW power \in BOOLEAN, Request(power) PROVE IInv'
  BY <1>1, AdmittedCalm, RequestAsks, AskedStep DEF Request, Caller, IInv, TypeOK
<1>2. ASSUME NEW h \in Images, NEW power \in BOOLEAN, RequestMaintenanceUpdate(h, power)
      PROVE  IInv'
  BY <1>2, AdmittedCalm, MaintenanceUpdateAsks, AskedStep
     DEF RequestMaintenanceUpdate, Caller, IInv, TypeOK
<1>3. ASSUME NEW h \in Images, NEW power \in BOOLEAN, RequestMaintenanceReboot(h, power)
      PROVE  IInv'
  BY <1>3, AdmittedCalm, MaintenanceRebootAsks, AskedStep
     DEF RequestMaintenanceReboot, Caller, IInv, TypeOK
<1>4. ASSUME NEW h \in Images, ApproveUpdate(h) PROVE IInv'
  BY <1>4, AdmittedCalm, ApproveUpdateAsks, AskedStep DEF ApproveUpdate, Caller, IInv, TypeOK
<1>5. CASE DeferUpdate
  BY <1>5, AdmittedCalm, DeferAsks, AskedStep DEF DeferUpdate, Caller, IInv, TypeOK
<1>6. ASSUME NEW enabled \in Preferences, NEW stored \in BOOLEAN,
             SetAutomaticInstall(enabled, stored)
      PROVE  IInv'
  <2>1. enabled \in BOOLEAN /\ autoinstall' \in BOOLEAN
    BY <1>6, MosaicoOtaAssumption DEF SetAutomaticInstall, IInv, TypeOK
  <2>2. Asked(ota')
    BY <1>6, <2>1, AdmittedCalm, AutomaticAsks DEF SetAutomaticInstall
  <2> QED BY <1>6, <2>1, <2>2, AskedStep DEF SetAutomaticInstall
<1>7. CASE RequestCheck
  BY <1>7, AdmittedCalm, CheckAsks, AskedStep DEF RequestCheck, Caller, IInv, TypeOK
<1>8. ASSUME NEW h \in Images, ApproveInstall(h) PROVE IInv'
  BY <1>8, AdmittedCalm, ApproveInstallAsks, AskedStep DEF ApproveInstall, Caller, IInv, TypeOK
<1>9. CASE RequestReboot
  BY <1>9, AdmittedCalm, RebootAsks, AskedStep DEF RequestReboot, Caller, IInv, TypeOK
<1>10. CASE RollbackTest
  BY <1>10, RollbackStep
<1> QED BY <1>1, <1>2, <1>3, <1>4, <1>5, <1>6, <1>7, <1>8, <1>9, <1>10 DEF Callers

-----------------------------------------------------------------------------
(* The owner's steps.                                                      *)
LEMMA OwnerStep ==
  ASSUME IInv, NEW from, NEW to \in OwnerAt, NEW r, Step(from, to, r),
         Sound(r), Stands(to, r)
  PROVE  IInv'
<1>1. pc' = to /\ ota' = r /\ UNCHANGED persistent
  BY DEF Step
<1>2. manifest' \in Hashes
  BY DEF Step, IInv, TypeOK, Hashes
<1> QED BY <1>1, <1>2, RamStep

LEMMA OwnerFails ==
  ASSUME IInv, NEW from, Step(from, "loop", FailLocked(ota))
  PROVE  IInv'
<1>1. Sound(FailLocked(ota)) /\ Calm(FailLocked(ota))
  BY SoundFails DEF IInv
<1>2. Stands("loop", FailLocked(ota)) /\ "loop" \in OwnerAt
  BY <1>1 DEF Stands, OwnerAt
<1> QED BY <1>1, <1>2, OwnerStep

LEMMA TurnedAwayStep == ASSUME IInv, TurnedAway PROVE IInv'
<1>1. ASSUME NEW from \in {"manifest", "restart", "fallback", "full", "finish"},
             Step(from, "loop", ota)
      PROVE  IInv'
  <2>1. Stands("loop", ota) /\ "loop" \in OwnerAt
    BY <1>1 DEF IInv, Standing, Stands, Step, OwnerAt
  <2> QED BY <1>1, <2>1, OwnerStep DEF IInv
<1>2. CASE Step("delta", "fallback", ota)
  <2>1. Stands("fallback", ota) /\ "fallback" \in OwnerAt
    BY <1>2 DEF IInv, Standing, Stands, Step, OwnerAt
  <2> QED BY <1>2, <2>1, OwnerStep DEF IInv
<1>3. CASE Step("check", "finishOk", ota)
  <2>1. Stands("finishOk", ota) /\ "finishOk" \in OwnerAt
    BY <1>3 DEF IInv, Standing, Stands, Step, OwnerAt
  <2> QED BY <1>3, <2>1, OwnerStep DEF IInv
<1> QED BY <1>1, <1>2, <1>3 DEF TurnedAway

LEMMA TakeCheckStep == ASSUME IInv, TakeCheckRequest PROVE IInv'
<1> DEFINE s == [ota EXCEPT !.flags = (@ \ {"checkQueued"}) \cup {"checking"}]
           q == Publish(s, "Checking")
<1>1. Sound(ota) /\ Step("loop", "check", q) /\ "checkQueued" \in ota.flags
  BY DEF IInv, TakeCheckRequest
<1>2. s \in RamState /\ s.flags = (ota.flags \ {"checkQueued"}) \cup {"checking"}
      /\ SameHashes(s, ota)
  BY <1>1 DEF Sound, RamState, SameHashes, Flags, Queued
<1> HIDE DEF s
<1>3. q \in RamState /\ q.flags = s.flags /\ q.stage = "Checking" /\ SameHashes(q, s)
  BY <1>2, ShownIs DEF Stages
<1>4. q.flags = (ota.flags \ {"checkQueued"}) \cup {"checking"} /\ SameHashes(q, ota)
  BY <1>2, <1>3 DEF SameHashes
<1> HIDE DEF q
<1>5. "imageReady" \notin ota.flags /\ "selected" \notin ota.flags
      /\ \A f \in ota.flags \cap Work : f = "checkQueued"
  BY <1>1 DEF Sound, Single, Ends, Work, Queued
<1>6. ota.flags \cap {"pending", "writing"} = {}
  BY <1>1, <1>5 DEF Sound, Single, Work
<1>7. Single(q)
  <2>1. \A f \in q.flags \cap Work : f = "checking"
    BY <1>4, <1>5
  <2>2. q.flags \cap {"pending", "writing", "imageReady", "selected"} = {}
    BY <1>4, <1>5, <1>6
  <2> QED BY <2>1, <2>2 DEF Single
<1>8. Ends(q) /\ Screen(q) /\ Pinned(q)
  BY <1>4, <1>5, <1>6 DEF Ends, Screen, Pinned, Work, Queued
<1>9. News(q) /\ Slotted(q)
  BY <1>1, <1>3, <1>4, <1>5, <1>6 DEF Sound, News, Slotted
<1>10. Sound(q) /\ Stands("check", q)
  BY <1>3, <1>4, <1>5, <1>7, <1>8, <1>9 DEF Sound, Stands, Calm
<1> QED BY <1>1, <1>10, OwnerStep DEF OwnerAt

LEMMA CheckOfflineStep == ASSUME IInv, CheckOffline PROVE IInv'
<1>1. Stands("finishFail", ota) /\ "finishFail" \in OwnerAt
  BY DEF CheckOffline, IInv, Standing, Stands, Step, OwnerAt
<1> QED BY <1>1, OwnerStep DEF CheckOffline, IInv

LEMMA FinishCheckStep ==
  ASSUME IInv, NEW ok \in BOOLEAN, FinishCheck(ok)
  PROVE  IInv'
<1> DEFINE q == [ota EXCEPT !.flags = @ \ {"checking"}]
           from == IF ok THEN "finishOk" ELSE "finishFail"
           to == IF ok THEN "publishOk" ELSE "publishFail"
<1>1. Sound(ota) /\ Step(from, to, q) /\ pc = from
  BY DEF IInv, FinishCheck, Step
<1>2. "imageReady" \notin ota.flags /\ Calm(ota)
  BY <1>1 DEF IInv, Standing, Stands
<1>3. q \in RamState /\ q.flags = ota.flags \ {"checking"} /\ SameHashes(q, ota)
      /\ q.stage = ota.stage
  BY <1>1 DEF Sound, RamState, SameHashes
<1> HIDE DEF q
<1>4. "active" \in q.flags \/ ota.flags \cap {"pending", "writing"} = {}
  BY <1>1, <1>3 DEF Sound, Single
<1>5. Sound(q)
  BY <1>1, <1>2, <1>3, <1>4, SoundShown DEF Work, Queued
<1>6. Stands(to, q) /\ to \in OwnerAt
  BY <1>2, <1>3 DEF Stands, OwnerAt, Calm
<1> QED BY <1>1, <1>5, <1>6, OwnerStep

(* With no candidate ready any page may be shown but an offer.             *)
LEMMA SoundPage ==
  ASSUME NEW r, Sound(r), "imageReady" \notin r.flags, NEW stage \in Stages,
         stage \notin {"Available", "Installing"}
  PROVE  LET q == Publish(r, stage)
         IN Sound(q) /\ Calm(q) /\ q.flags \subseteq r.flags /\ q.stage = stage
            /\ r.flags \ q.flags \subseteq {"approvedRequest"}
<1> DEFINE q == Publish(r, stage)
<1>1. q \in RamState /\ q.stage = stage /\ SameHashes(q, r)
      /\ q.flags \in {r.flags, r.flags \ {"approvedRequest"}}
  <2>1. CASE stage \in {"Failed", "WaitingPower"}
    BY <2>1, FailedIs DEF Sound
  <2>2. CASE stage \notin {"Failed", "WaitingPower"}
    BY <2>2, ShownIs DEF Sound
  <2> QED BY <2>1, <2>2
<1> HIDE DEF q
<1>2. "active" \in q.flags \/ r.flags \cap {"pending", "writing"} = {}
  BY <1>1 DEF Sound, Single
<1>3. q.flags \subseteq r.flags /\ r.flags \ q.flags \subseteq {"approvedRequest"}
  BY <1>1
<1>4. Sound(q)
  BY <1>1, <1>2, <1>3, SoundShown DEF Work
<1>5. Calm(q)
  BY <1>1, <1>3 DEF Calm
<1> QED BY <1>1, <1>3, <1>4, <1>5 DEF q

LEMMA PublishCheckStep ==
  ASSUME IInv, NEW ok \in BOOLEAN, PublishCheck(ok)
  PROVE  IInv'
<1> DEFINE from == IF ok THEN "publishOk" ELSE "publishFail"
           q == IF ~ok THEN Publish(ota, "Failed")
                ELSE IF ota.stage = "Checking" THEN Publish(ota, "Idle") ELSE ota
<1>1. Sound(ota) /\ Step(from, "loop", q) /\ pc = from
  BY DEF IInv, PublishCheck, Step
<1>2. "imageReady" \notin ota.flags /\ Calm(ota)
  BY <1>1 DEF IInv, Standing, Stands
<1>3. Sound(q) /\ Calm(q)
  BY <1>1, <1>2, SoundPage DEF Stages
<1>4. Stands("loop", q) /\ "loop" \in OwnerAt
  BY <1>3 DEF Stands, OwnerAt
<1> QED BY <1>1, <1>3, <1>4, OwnerStep

(* A signed manifest becomes an offer only when it is news.                *)
LEMMA DiscoverStep ==
  ASSUME IInv, NEW m \in Images \cup {NoImage}, NEW readable \in BOOLEAN,
         NEW queued \in BOOLEAN, DiscoverManifest(m, readable, queued)
  PROVE  IInv'
<1> DEFINE r == RevokeForNormalRequest(ota)
           s == [r EXCEPT !.received = 0, !.sha256 = m, !.flags = @ \ {"imageVerified"}]
           offer == Publish(s, "Available")
           offered == [offer EXCEPT !.flags = @ \ {"checking"}]
           q == IF r.flags \cap {"active", "approvedRequest"} # {} \/ Staged(r) THEN r
                ELSE IF m = NoImage THEN Publish(r, "Failed")
                ELSE IF ~CurrentReady THEN r
                ELSE IF ~readable THEN Publish(r, "Failed")
                ELSE IF Known(m) THEN Publish(r, "Idle")
                ELSE IF "autoInstall" \in ota.flags /\ queued
                     THEN ApproveUpdateLocked(offered, m)
                     ELSE offered
<1>1. Step("check", "finishOk", q) /\ pc = "check" /\ Sound(ota)
  BY DEF DiscoverManifest, Step, IInv
<1>2. "imageReady" \notin ota.flags /\ Calm(ota)
  BY <1>1 DEF IInv, Standing, Stands
<1>3. Sound(r) /\ Calm(r) /\ "imageReady" \notin r.flags
  BY <1>1, <1>2, SoundRevoked
<1> HIDE DEF r
<1>4. Sound(Publish(r, "Failed")) /\ Calm(Publish(r, "Failed"))
      /\ Publish(r, "Failed").flags \subseteq r.flags
  BY <1>3, SoundPage DEF Stages
<1>5. Sound(Publish(r, "Idle")) /\ Calm(Publish(r, "Idle"))
      /\ Publish(r, "Idle").flags \subseteq r.flags
  BY <1>3, SoundPage DEF Stages
<1>6. ASSUME r.flags \cap {"active", "approvedRequest"} = {}, ~Staged(r), m # NoImage, ~Known(m)
      PROVE  Sound(offered) /\ Calm(offered) /\ "imageReady" \notin offered.flags
  <2>1. r.flags \cap {"pending", "writing", "imageReady", "selected"} = {}
    BY <1>3, <1>6 DEF Sound, Single, Staged
  <2>2. m \in Hashes /\ 0 \in 0 .. Chunks
    BY MosaicoOtaAssumption DEF Hashes
  <2>3. s \in RamState /\ s.flags = r.flags \ {"imageVerified"} /\ s.sha256 = m
    BY <1>3, <2>2 DEF Sound, RamState
  <2> HIDE DEF s
  <2>4. offer \in RamState /\ offer.flags = s.flags /\ offer.stage = "Available"
        /\ SameHashes(offer, s)
    BY <2>3, ShownIs DEF Stages
  <2> HIDE DEF offer
  <2>5. offered \in RamState /\ offered.flags = r.flags \ {"imageVerified", "checking"}
        /\ offered.stage = "Available" /\ offered.sha256 = m
    BY <2>3, <2>4 DEF RamState, SameHashes
  <2> HIDE DEF offered
  <2>6. Single(offered)
    BY <1>3, <2>1, <2>5 DEF Sound, Single, Work, Queued
  <2>7. Ends(offered) /\ Screen(offered) /\ Pinned(offered)
    BY <1>3, <2>1, <2>5 DEF Sound, Ends, Screen, Pinned
  <2>8. News(offered)
    BY <1>6, <2>5 DEF News, Known
  <2>9. Slotted(offered)
    BY <1>3, <2>1, <2>5 DEF Sound, Slotted
  <2>10. Calm(offered)
    BY <2>1, <2>5 DEF Calm
  <2> QED BY <2>1, <2>5, <2>6, <2>7, <2>8, <2>9, <2>10 DEF Sound
<1>7. ASSUME Sound(offered), Calm(offered), "imageReady" \notin offered.flags
      PROVE  LET p == ApproveUpdateLocked(offered, m)
             IN Sound(p) /\ Calm(p) /\ "imageReady" \notin p.flags
  <2>1. m \in Hashes
    BY DEF Hashes
  <2> HIDE DEF offered
  <2> QED BY <1>7, <2>1, SoundApproved
<1> HIDE DEF offered
<1>8. Sound(q) /\ Calm(q) /\ "imageReady" \notin q.flags
  <2>1. q \in {r, Publish(r, "Failed"), Publish(r, "Idle")}
        \/ /\ r.flags \cap {"active", "approvedRequest"} = {} /\ ~Staged(r)
           /\ m # NoImage /\ ~Known(m) /\ q \in {offered, ApproveUpdateLocked(offered, m)}
    OBVIOUS
  <2> HIDE DEF q
  <2> QED BY <2>1, <1>3, <1>4, <1>5, <1>6, <1>7
<1>9. Stands("finishOk", q) /\ "finishOk" \in OwnerAt
  BY <1>8 DEF Stands, OwnerAt
<1> QED BY <1>1, <1>8, <1>9, OwnerStep

(* A request is taken up once, and whatever becomes of it the owner holds  *)
(* at most the one it was for.                                             *)
LEMMA TakeRequestStep ==
  ASSUME IInv, NEW power \in BOOLEAN, NEW quiet \in BOOLEAN, TakeRequest(power, quiet)
  PROVE  IInv'
<1> DEFINE idle == "active" \notin ota.flags /\ "approvedRequest" \in ota.flags
           taken == [ota EXCEPT !.flags = @ \ {"approvedRequest"}]
           asked == IF ~CurrentReady THEN Publish(taken, "Failed")
                    ELSE IF ~power THEN Publish(taken, "WaitingPower")
                    ELSE IF ~quiet \/ Staged(taken) THEN taken
                    ELSE RequestLocked(taken, "autoInstall" \in taken.flags, power)
           request == IF idle THEN asked ELSE ota
           q == [request EXCEPT !.flags = @ \ {"pending"}]
<1>1. Sound(ota) /\ pc = "loop" /\ Calm(ota)
  BY DEF IInv, TakeRequest, Step, Standing, Stands
<1>2. \/ idle /\ Step("loop", "loop", asked)
      \/ Step("loop", "loop", FailLocked(request))
      \/ Step("loop", "manifest", q)
      \/ Step("loop", "loop", q)
  BY DEF TakeRequest
<1>3. ASSUME idle PROVE Sound(asked) /\ Calm(asked)
  <2>1. "imageReady" \notin ota.flags /\ ota.flags \cap {"pending", "writing"} = {}
        /\ \A f \in ota.flags \cap Work : f = "approvedRequest"
    BY <1>1, <1>3 DEF Sound, Ends, Single, Work
  <2>2. taken \in RamState /\ taken.flags = ota.flags \ {"approvedRequest"}
        /\ taken.stage = ota.stage /\ SameHashes(taken, ota)
    BY <1>1 DEF Sound, RamState, SameHashes
  <2> HIDE DEF taken
  <2>3. Sound(taken)
    BY <1>1, <2>1, <2>2, SoundShown DEF Work
  <2>4. taken.flags \cap Work = {} /\ "imageReady" \notin taken.flags /\ Calm(taken)
    BY <1>1, <2>1, <2>2 DEF Calm
  <2>5. Sound(Publish(taken, "Failed")) /\ Calm(Publish(taken, "Failed"))
    BY <2>3, <2>4, SoundPage DEF Stages
  <2>6. Sound(Publish(taken, "WaitingPower")) /\ Calm(Publish(taken, "WaitingPower"))
    BY <2>3, <2>4, SoundPage DEF Stages
  <2> DEFINE a == "autoInstall" \in taken.flags
  <2>7. a \in BOOLEAN
    OBVIOUS
  <2>8. asked \in {taken, Publish(taken, "Failed"), Publish(taken, "WaitingPower"),
                   RequestLocked(taken, a, power)}
    OBVIOUS
  <2> HIDE DEF a
  <2>9. Sound(RequestLocked(taken, a, power)) /\ Calm(RequestLocked(taken, a, power))
    BY <2>3, <2>4, <2>7, SoundRequested
  <2> HIDE DEF asked
  <2> QED BY <2>3, <2>4, <2>5, <2>6, <2>8, <2>9
<1> HIDE DEF asked, idle
<1>4. Sound(request) /\ Calm(request)
  BY <1>1, <1>3
<1> HIDE DEF request
<1>5. Sound(q) /\ Calm(q)
  <2>1. q \in RamState /\ q.flags = request.flags \ {"pending"}
        /\ q.stage = request.stage /\ SameHashes(q, request)
    BY <1>4 DEF Sound, RamState, SameHashes
  <2> HIDE DEF q
  <2>2. "active" \in q.flags \/ request.flags \cap {"pending", "writing"} = {}
    BY <1>4, <2>1 DEF Sound, Single
  <2>3. Sound(q)
    BY <1>4, <2>1, <2>2, SoundShown DEF Sound, Screen
  <2>4. Calm(q)
    BY <1>4, <2>1 DEF Calm, Unattended
  <2> QED BY <2>3, <2>4
<1>6. Sound(FailLocked(request)) /\ Calm(FailLocked(request))
  BY <1>4, SoundFails
<1> HIDE DEF q
<1>7. PICK to, r : to \in {"loop", "manifest"} /\ Step("loop", to, r) /\ Sound(r) /\ Calm(r)
  BY <1>2, <1>3, <1>5, <1>6
<1>8. Stands(to, r) /\ to \in OwnerAt
  BY <1>7 DEF Stands, OwnerAt
<1> QED BY <1>7, <1>8, OwnerStep

(* The steps of a download that change nothing but where the owner stands. *)
LEMMA DeltaStep ==
  ASSUME IInv, NoDelta \/ DeltaFails \/ DeltaCompletes
  PROVE  IInv'
<1>1. PICK to \in {"full", "fallback", "finish"} : Step("delta", to, ota)
  BY DEF NoDelta, DeltaFails, DeltaCompletes
<1>2. Stands(to, ota) /\ to \in OwnerAt
  BY <1>1 DEF IInv, Standing, Stands, Step, OwnerAt
<1> QED BY <1>1, <1>2, OwnerStep DEF IInv

LEMMA FallbackStep == ASSUME IInv, ResetDownloadForFullFallback PROVE IInv'
<1> DEFINE s == [ota EXCEPT !.received = 0,
                            !.flags = (@ \ {"writing"}) \cup {"fullFallbackUsed"}]
           q == Publish(s, "Downloading")
<1>1. Sound(ota) /\ Calm(ota)
  BY DEF IInv, Standing, Stands, ResetDownloadForFullFallback, Step
<1>2. CASE Step("fallback", "loop", ota)
  <2>1. Stands("loop", ota) /\ "loop" \in OwnerAt
    BY <1>1 DEF Stands, OwnerAt
  <2> QED BY <1>1, <1>2, <2>1, OwnerStep
<1>3. CASE /\ "active" \in ota.flags /\ ~Staged(ota)
           /\ Step("fallback", "restart", q)
  <2>1. ota.flags \cap {"imageReady", "selected"} = {} /\ "active" \in ota.flags
    BY <1>3 DEF Staged
  <2>2. 0 \in 0 .. Chunks
    BY MosaicoOtaAssumption
  <2>3. s \in RamState /\ s.flags = (ota.flags \ {"writing"}) \cup {"fullFallbackUsed"}
        /\ SameHashes(s, ota)
    BY <1>1, <2>2 DEF Sound, RamState, SameHashes, Flags
  <2> HIDE DEF s
  <2>4. q \in RamState /\ q.flags = s.flags /\ q.stage = "Downloading" /\ SameHashes(q, s)
    BY <2>3, ShownIs DEF Stages
  <2>5. q.flags = (ota.flags \ {"writing"}) \cup {"fullFallbackUsed"}
    BY <2>3, <2>4
  <2> HIDE DEF q
  <2>6. Single(q)
    BY <1>1, <2>1, <2>5 DEF Sound, Single, Work, Queued
  <2>7. Ends(q) /\ Screen(q) /\ Pinned(q)
    BY <1>1, <2>1, <2>5 DEF Sound, Ends, Screen, Pinned
  <2>8. News(q) /\ Slotted(q)
    BY <1>1, <2>1, <2>4, <2>5 DEF Sound, News, Slotted
  <2>9. Sound(q) /\ Stands("restart", q)
    BY <2>1, <2>4, <2>5, <2>6, <2>7, <2>8 DEF Sound, Stands, Calm
  <2> QED BY <1>3, <2>9, OwnerStep DEF OwnerAt
<1> QED BY <1>2, <1>3 DEF ResetDownloadForFullFallback

LEMMA FailuresStep ==
  ASSUME IInv, UpdateFails \/ RequestTimeout \/ InstallTimeout
  PROVE  IInv'
<1>1. PICK from \in {"manifest", "full", "finish", "loop", "install"} :
        Step(from, "loop", FailLocked(ota))
  BY DEF UpdateFails, RequestTimeout, InstallTimeout
<1> QED BY <1>1, OwnerFails

(* A failure with nothing selected leaves nothing a page could be wrong of.*)
LEMMA FreshFails ==
  ASSUME NEW r \in RamState, "selected" \notin r.flags, bootSlot = running,
         "bootPending" \in r.flags => imgState[running] = "pending"
  PROVE  LET q == FailLocked(r)
         IN Sound(q) /\ Calm(q) /\ q.flags \cap {"imageReady", "writing"} = {}
<1> DEFINE q == FailLocked(r)
<1>1. q \in RamState /\ q.stage = "Failed" /\ q.flags = r.flags \ Lost
  BY FailLost
<1> HIDE DEF q
<1>2. q.flags \cap (Work \cup {"pending", "writing", "imageReady", "selected"}) = {}
  BY <1>1 DEF Lost, Given
<1>3. Single(q) /\ Ends(q)
  BY <1>2 DEF Single, Ends, Work, Queued
<1>4. Screen(q) /\ Pinned(q) /\ News(q) /\ Calm(q)
  BY <1>1, <1>2 DEF Screen, Pinned, News, Calm
<1>5. Slotted(q)
  BY <1>1, <1>2 DEF Slotted
<1> QED BY <1>1, <1>2, <1>3, <1>4, <1>5 DEF Sound, q

(* The slot that is not running may be written while the next boot takes   *)
(* the one that is.                                                        *)
LEMMA FlashStep ==
  ASSUME IInv, bootSlot = running, imgState[running] = "valid",
         flash' \in [Slots -> [1 .. Chunks -> Hashes]], flash'[running] = flash[running],
         UNCHANGED <<otadata, running, nvs>>, pc' \in OwnerAt, manifest' \in Hashes,
         Sound(ota'), "imageReady" \notin ota'.flags, Stands(pc', ota')
  PROVE  IInv'
<1>1. /\ imgState' = imgState /\ bootSlot' = bootSlot
      /\ running' = running /\ attempt' = attempt /\ autoinstall' = autoinstall
  BY DEF otadata, nvs
<1>2. TypeOK'
  BY <1>1 DEF IInv, TypeOK, Sound
<1>3. Sound(ota)'
  <2>1. Single(ota)' /\ Ends(ota)' /\ Screen(ota)' /\ Pinned(ota)' /\ (ota \in RamState)'
    BY DEF Sound, Single, Ends, Screen, Pinned
  <2>2. News(ota)'
    BY <1>1 DEF Sound, News, Holds
  <2>3. Slotted(ota)'
    BY <1>1 DEF Sound, Slotted
  <2> QED BY <2>1, <2>2, <2>3 DEF Sound
<1>4. Standing'
  BY <1>1 DEF Standing, Stands
<1>5. SlotsOK'
  <2>1. Bootable(flash, running)'
    BY <1>1 DEF IInv, SlotsOK, Bootable, Holds
  <2>2. BootSafe'
    BY <1>1, <2>1 DEF BootSafe
  <2> QED BY <1>1, <2>1, <2>2 DEF SlotsOK
<1> QED BY <1>2, <1>3, <1>4, <1>5 DEF IInv

(* Of an owner at work on a download.                                      *)
LEMMA Downloading ==
  ASSUME IInv, "imageReady" \notin ota.flags
  PROVE  "selected" \notin ota.flags /\ bootSlot = running
BY DEF IInv, Sound, Single, Slotted

LEMMA BeginStep ==
  ASSUME IInv, NEW from, NEW to \in {"delta", "full"}, NEW m \in Hashes,
         NEW versionSigned \in BOOLEAN, NEW power \in BOOLEAN, NEW begun \in BOOLEAN,
         Begin(from, m, versionSigned, power, begun, to)
  PROVE  IInv'
<1> DEFINE bound == [ota EXCEPT !.expectedHash = m, !.sha256 = m,
                                !.flags = @ \ {"imageVerified"}]
           s == [bound EXCEPT !.received = 0, !.flags = @ \cup {"writing"}]
           q == Publish(s, "Downloading")
           f == FailLocked(bound)
<1>1. CASE OutOfSequence(ota) \/ WrongManifest(ota, m, versionSigned)
  BY <1>1, OwnerFails DEF Begin
<1>2. CASE ~(OutOfSequence(ota) \/ WrongManifest(ota, m, versionSigned))
  <2>1. Sound(ota)
    BY DEF IInv
  <2>2. /\ "active" \in ota.flags
        /\ ota.flags \cap {"pending", "writing", "imageReady"} = {}
    BY <1>2 DEF OutOfSequence
  <2>3. /\ "maintenanceMode" \in ota.flags => m = ota.grantSha
        /\ ota.approvedHash \in {NoImage, m}
    BY <1>2 DEF WrongManifest
  <2>4. "selected" \notin ota.flags /\ bootSlot = running
    BY <2>2, Downloading
  <2>5. bound \in RamState /\ bound.flags = ota.flags \ {"imageVerified"}
        /\ bound.sha256 = m /\ bound.expectedHash = m
        /\ bound.approvedHash = ota.approvedHash /\ bound.grantSha = ota.grantSha
    BY <2>1 DEF Sound, RamState
  <2>6. Begin(from, m, versionSigned, power, begun, to) <=>
          IF ~CurrentReady \/ ~PowerSafe(bound, power)
          THEN Step(from, "loop", f)
          ELSE /\ pc = from
               /\ flash' = [flash EXCEPT ![Other(running)] = Erased]
               /\ IF begun
                  THEN /\ ota' = q
                       /\ pc' = to
                       /\ manifest' = IF to = "delta" THEN m ELSE NoImage
                  ELSE ota' = f /\ pc' = "loop" /\ manifest' = NoImage
               /\ UNCHANGED <<otadata, running, nvs>>
    BY <1>2 DEF Begin
  <2> HIDE DEF bound
  <2>7. Sound(f) /\ Calm(f) /\ f.flags \cap {"imageReady", "writing"} = {}
    <3>1. "selected" \notin bound.flags
      BY <2>4, <2>5
    <3>2. "bootPending" \in bound.flags => imgState[running] = "pending"
      BY <2>1, <2>5 DEF Sound, Slotted
    <3> QED BY <2>4, <2>5, <3>1, <3>2, FreshFails
  <2> HIDE DEF f
  <2>8. Stands("loop", f) /\ "loop" \in OwnerAt
    BY <2>7 DEF Stands, OwnerAt
  <2>9. CASE ~CurrentReady \/ ~PowerSafe(bound, power)
    BY <2>6, <2>7, <2>8, <2>9, OwnerStep
  <2>10. CASE ~(~CurrentReady \/ ~PowerSafe(bound, power))
    <3>1. imgState[running] = "valid"
      BY <2>10 DEF CurrentReady
    <3>2. /\ flash' = [flash EXCEPT ![Other(running)] = Erased]
          /\ UNCHANGED <<otadata, running, nvs>>
          /\ \/ ota' = q /\ pc' = to
             \/ ota' = f /\ pc' = "loop"
          /\ manifest' \in {m, NoImage}
      BY <2>6, <2>10
    <3>3. /\ flash' \in [Slots -> [1 .. Chunks -> Hashes]] /\ flash'[running] = flash[running]
      <4>1. Erased \in [1 .. Chunks -> Hashes]
        BY DEF Erased, Hashes
      <4>2. flash \in [Slots -> [1 .. Chunks -> Hashes]] /\ running \in Slots
        BY DEF IInv, TypeOK
      <4>3. Other(running) \in Slots /\ Other(running) # running
        BY <4>2, OtherSlot
      <4> QED BY <3>2, <4>1, <4>2, <4>3
    <3>4. manifest' \in Hashes
      BY <3>2 DEF Hashes
    <3>5. Sound(q) /\ Stands(to, q) /\ "imageReady" \notin q.flags
      <4>1. 0 \in 0 .. Chunks
        BY MosaicoOtaAssumption
      <4>2. s \in RamState /\ s.flags = bound.flags \cup {"writing"} /\ SameHashes(s, bound)
        BY <2>5, <4>1 DEF RamState, SameHashes, Flags
      <4> HIDE DEF s
      <4>3. q \in RamState /\ q.flags = s.flags /\ q.stage = "Downloading" /\ SameHashes(q, s)
        BY <4>2, ShownIs DEF Stages
      <4>4. q.flags = (ota.flags \ {"imageVerified"}) \cup {"writing"}
        BY <2>5, <4>2, <4>3
      <4>5. /\ q.sha256 = m /\ q.expectedHash = m
            /\ q.approvedHash = ota.approvedHash /\ q.grantSha = ota.grantSha
        BY <2>5, <4>2, <4>3 DEF SameHashes
      <4> HIDE DEF q
      <4>6. Single(q)
        <5>1. \A g \in q.flags \cap Work : g \in ota.flags \cap Work
          BY <4>4 DEF Work, Queued
        <5>2. \A g \in q.flags \cap {"pending", "writing", "imageReady"} : g = "writing"
          BY <2>2, <4>4
        <5>3. "active" \in q.flags /\ "selected" \notin q.flags
          BY <2>2, <2>4, <4>4
        <5> QED BY <2>1, <5>1, <5>2, <5>3 DEF Sound, Single
      <4>7. "imageReady" \notin q.flags /\ "installQueued" \notin q.flags
        BY <2>1, <2>2, <4>4 DEF Sound, Ends
      <4>8. Ends(q) /\ Screen(q) /\ News(q)
        BY <4>3, <4>7 DEF Ends, Screen, News
      <4>9. Pinned(q)
        BY <2>3, <4>4, <4>5 DEF Pinned
      <4>10. Slotted(q)
        BY <2>1, <2>4, <3>1, <4>4, <4>7 DEF Sound, Slotted
      <4>11. Stands(to, q)
        BY <4>3, <4>7 DEF Stands, Calm
      <4> QED BY <4>3, <4>6, <4>7, <4>8, <4>9, <4>10, <4>11 DEF Sound
    <3> HIDE DEF q
    <3>6. Sound(ota') /\ "imageReady" \notin ota'.flags /\ Stands(pc', ota') /\ pc' \in OwnerAt
      BY <2>7, <2>8, <3>2, <3>5 DEF OwnerAt
    <3> QED BY <2>4, <3>1, <3>2, <3>3, <3>4, <3>6, FlashStep
  <2> QED BY <2>9, <2>10
<1> QED BY <1>1, <1>2

(* A chunk goes to the slot that is not running, and only while its        *)
(* download is the one under way.                                          *)
LEMMA WriteChunkStep ==
  ASSUME IInv, NEW x \in Hashes, NEW power \in BOOLEAN, NEW written \in BOOLEAN,
         WriteChunk(x, power, written)
  PROVE  IInv'
<1> DEFINE abandon == IF pc = "delta" THEN "fallback" ELSE "loop"
           stage   == IF pc = "delta" THEN "Verifying" ELSE "Downloading"
           wrote   == [flash EXCEPT ![Other(running)][ota.received + 1] = x]
           s == [ota EXCEPT !.received = @ + 1]
           q == Publish(s, stage)
           f == FailLocked(ota)
<1>1. Sound(ota) /\ pc \in {"delta", "full"} /\ ota.received < Chunks
  BY DEF IInv, WriteChunk
<1>2. \/ Step(pc, abandon, f)
      \/ /\ {"active", "writing"} \subseteq ota.flags
         /\ flash' \in {flash, wrote}
         /\ UNCHANGED <<otadata, running, nvs>>
         /\ \/ ota' = f /\ pc' = abandon
            \/ ota' = q /\ pc' \in {pc, "finish"}
         /\ manifest' \in {manifest, NoImage}
  BY <1>1 DEF WriteChunk
<1>3. Sound(f) /\ Calm(f) /\ f.flags \subseteq ota.flags
  BY <1>1, SoundFails
<1> HIDE DEF f
<1>4. Stands(abandon, f) /\ abandon \in OwnerAt
  BY <1>3 DEF Stands, OwnerAt
<1> HIDE DEF abandon
<1>5. CASE Step(pc, abandon, f)
  BY <1>3, <1>4, <1>5, OwnerStep
<1>6. CASE /\ {"active", "writing"} \subseteq ota.flags
           /\ flash' \in {flash, wrote}
           /\ UNCHANGED <<otadata, running, nvs>>
           /\ \/ ota' = f /\ pc' = abandon
              \/ ota' = q /\ pc' \in {pc, "finish"}
           /\ manifest' \in {manifest, NoImage}
  <2>1. "imageReady" \notin ota.flags /\ imgState[running] = "valid"
    BY <1>1, <1>6 DEF Sound, Single, Slotted
  <2>2. "selected" \notin ota.flags /\ bootSlot = running
    BY <2>1, Downloading
  <2>3. /\ flash' \in [Slots -> [1 .. Chunks -> Hashes]] /\ flash'[running] = flash[running]
    <3>1. flash \in [Slots -> [1 .. Chunks -> Hashes]] /\ running \in Slots
      BY DEF IInv, TypeOK
    <3>2. Other(running) \in Slots /\ Other(running) # running
      BY <3>1, OtherSlot
    <3>3. wrote = [flash EXCEPT ![Other(running)] =
                     [flash[Other(running)] EXCEPT ![ota.received + 1] = x]]
      BY <3>1, <3>2
    <3>4. [flash[Other(running)] EXCEPT ![ota.received + 1] = x] \in [1 .. Chunks -> Hashes]
      BY <3>1, <3>2
    <3>5. wrote \in [Slots -> [1 .. Chunks -> Hashes]] /\ wrote[running] = flash[running]
      BY <3>1, <3>2, <3>3, <3>4
    <3> HIDE DEF wrote
    <3> QED BY <1>6, <3>1, <3>5
  <2>4. Sound(q) /\ "imageReady" \notin q.flags /\ Calm(q)
    <3>1. ota.received + 1 \in 0 .. Chunks
      <4>1. ota.received \in 0 .. Chunks
        BY <1>1 DEF Sound, RamState
      <4> QED BY <1>1, <4>1, MosaicoOtaAssumption
    <3>2. s \in RamState /\ s.flags = ota.flags /\ SameHashes(s, ota)
      <4> DEFINE n == ota.received + 1
      <4>1. ota \in RamState /\ n \in 0 .. Chunks /\ s = [ota EXCEPT !.received = n]
        BY <1>1, <3>1 DEF Sound
      <4> HIDE DEF n, s
      <4> QED BY <4>1 DEF RamState, SameHashes
    <3> HIDE DEF s
    <3>3. stage \in {"Verifying", "Downloading"}
      OBVIOUS
    <3> HIDE DEF stage
    <3>4. q \in RamState /\ q.flags = s.flags /\ q.stage = stage /\ SameHashes(q, s)
      BY <3>2, <3>3, ShownIs DEF Stages
    <3> HIDE DEF q
    <3>5. q.flags = ota.flags /\ q.stage \in {"Verifying", "Downloading"} /\ SameHashes(q, ota)
      BY <3>2, <3>3, <3>4 DEF SameHashes
    <3>6. Sound(q)
      BY <1>1, <1>6, <2>1, <3>4, <3>5, SoundShown
    <3>7. Calm(q)
      BY <2>1, <3>5 DEF Calm
    <3> QED BY <2>1, <3>5, <3>6, <3>7
  <2> HIDE DEF q, wrote
  <2>5. /\ Sound(ota') /\ "imageReady" \notin ota'.flags /\ Stands(pc', ota')
        /\ pc' \in OwnerAt
    <3>1. CASE ota' = f /\ pc' = abandon
      BY <1>3, <1>4, <2>1, <3>1
    <3>2. CASE ota' = q /\ pc' \in {pc, "finish"}
      BY <1>1, <2>4, <3>2 DEF Stands, OwnerAt
    <3> QED BY <1>6, <3>1, <3>2
  <2>6. manifest' \in Hashes
    BY <1>6 DEF IInv, TypeOK, Hashes
  <2> QED BY <1>6, <2>1, <2>2, <2>3, <2>5, <2>6, FlashStep
<1> QED BY <1>2, <1>5, <1>6

(* A download ends whole, with the image that was pinned, or fails.        *)
LEMMA FinishDownloadStep ==
  ASSUME IInv, NEW power \in BOOLEAN, NEW ended \in BOOLEAN, FinishDownload(power, ended)
  PROVE  IInv'
<1> DEFINE complete == /\ {"active", "writing"} \subseteq ota.flags /\ ota.received = Chunks
                       /\ "maintenanceMode" \in ota.flags => PowerSafe(ota, power)
                       /\ Holds(flash, Other(running), ota.expectedHash)
           flags == (ota.flags \ ({"writing", "installSince"} \cup
                                  (IF Proceeds(ota) THEN {} ELSE {"active"})))
                    \cup {"imageReady", "imageVerified"}
           s == [ota EXCEPT !.flags = flags]
           q == Publish(s, "ReadyInstall")
<1>1. CASE ~(complete /\ ended)
  <2>1. Step("finish", "loop", FailLocked(ota))
    BY <1>1 DEF FinishDownload
  <2> QED BY <2>1, OwnerFails
<1>2. CASE complete /\ ended
  <2>1. Step("finish", "loop", q) /\ Sound(ota)
    BY <1>2 DEF FinishDownload, IInv
  <2>2. {"active", "writing"} \subseteq ota.flags /\ Holds(flash, Other(running), ota.expectedHash)
    BY <1>2
  <2>3. "imageReady" \notin ota.flags /\ "pending" \notin ota.flags /\ imgState[running] = "valid"
    BY <2>1, <2>2 DEF Sound, Single, Slotted
  <2>4. "selected" \notin ota.flags /\ bootSlot = running
    BY <2>3, Downloading
  <2>5. /\ flags \in SUBSET Flags
        /\ "imageReady" \in flags /\ "imageVerified" \in flags /\ "writing" \notin flags
        /\ "selected" \notin flags /\ "pending" \notin flags
        /\ \A g \in flags : g \in ota.flags \cup {"imageReady", "imageVerified"}
        /\ "active" \in flags => Unattended(ota)
        /\ \A g \in {"automaticMode", "maintenanceMode", "bootPending"} :
             g \in flags <=> g \in ota.flags
    BY <2>1, <2>3, <2>4 DEF Sound, RamState, Flags, Proceeds
  <2> HIDE DEF flags
  <2>6. s \in RamState /\ s.flags = flags /\ SameHashes(s, ota)
    BY <2>1, <2>5 DEF Sound, RamState, SameHashes
  <2> HIDE DEF s
  <2>7. q \in RamState /\ q.flags = flags /\ q.stage = "ReadyInstall" /\ SameHashes(q, ota)
    <3>1. LET p == Publish(s, "ReadyInstall")
          IN p \in RamState /\ p.flags = s.flags /\ p.stage = "ReadyInstall" /\ SameHashes(p, s)
      BY <2>6, ShownIs DEF Stages
    <3> QED BY <2>6, <3>1 DEF SameHashes
  <2> HIDE DEF q
  <2>8. Single(q)
    <3>1. \A g \in q.flags \cap Work : g \in ota.flags \cap Work
      BY <2>5, <2>7 DEF Work, Queued
    <3>2. \A g \in q.flags \cap {"pending", "writing", "imageReady"} : g = "imageReady"
      BY <2>5, <2>7
    <3> QED BY <2>1, <2>5, <2>7, <3>1, <3>2 DEF Sound, Single
  <2>9. Ends(q) /\ Screen(q)
    <3>1. \A g \in ota.flags \cap Work : g = "active"
      BY <2>1, <2>2 DEF Sound, Single, Work
    <3>2. q.flags \cap {"approvedRequest", "checkQueued", "checking", "installQueued"} = {}
      BY <2>5, <2>7, <3>1 DEF Work, Queued
    <3> QED BY <2>5, <2>7, <3>2 DEF Ends, Screen
  <2>10. Pinned(q) /\ News(q)
    BY <2>1, <2>2, <2>5, <2>7 DEF Sound, Pinned, News, SameHashes
  <2>11. Slotted(q)
    BY <2>1, <2>2, <2>3, <2>4, <2>5, <2>7 DEF Sound, Slotted, SameHashes
  <2>12. Calm(q)
    BY <2>5, <2>7 DEF Calm, Unattended
  <2>13. Sound(q) /\ Stands("loop", q) /\ "loop" \in OwnerAt
    BY <2>7, <2>8, <2>9, <2>10, <2>11, <2>12 DEF Sound, Stands, OwnerAt
  <2> QED BY <2>1, <2>13, OwnerStep
<1> QED BY <1>1, <1>2

(* A restart that is put off leaves the image selected and shown as such.  *)
LEMMA SoundRefused ==
  ASSUME NEW r, Sound(r), "selected" \in r.flags
  PROVE  LET q == RebootRefused(r) IN Sound(q) /\ Calm(q) /\ "selected" \in q.flags
<1> DEFINE s == [r EXCEPT !.flags = @ \ {"active"},
                          !.grant = IF "maintenanceMode" \in r.flags THEN "none" ELSE @]
           q == RebootRefused(r)
<1>1. q = Publish(s, "ReadyReboot")
  BY DEF RebootRefused
<1>2. s \in RamState /\ s.flags = r.flags \ {"active"} /\ SameHashes(s, r)
  BY DEF Sound, RamState, SameHashes
<1> HIDE DEF q, s
<1>3. q \in RamState /\ q.flags = r.flags \ {"active"} /\ q.stage = "ReadyReboot"
      /\ SameHashes(q, r)
  <2>1. LET p == Publish(s, "ReadyReboot")
        IN p \in RamState /\ p.flags = s.flags /\ p.stage = "ReadyReboot" /\ SameHashes(p, s)
    BY <1>2, ShownIs DEF Stages
  <2> QED BY <1>1, <1>2, <2>1 DEF SameHashes
<1>4. r.flags \cap {"pending", "writing"} = {}
  BY DEF Sound, Single
<1>5. Sound(q)
  BY <1>3, <1>4, SoundShown DEF Work
<1>6. Calm(q)
  BY <1>3 DEF Calm
<1> QED BY <1>3, <1>5, <1>6 DEF q

LEMMA RebootStep ==
  ASSUME IInv, NEW power \in BOOLEAN, ProcessReboot(power) \/ RebootSelected(power)
  PROVE  IInv'
<1> DEFINE taken == [ota EXCEPT !.flags = @ \ {"rebootQueued"}]
<1>1. CASE Restart
  BY <1>1, RestartStep
<1>2. CASE /\ "selected" \in ota.flags
           /\ Step("loop", "loop", RebootRefused(taken))
  <2>1. taken \in RamState /\ taken.flags = ota.flags \ {"rebootQueued"}
        /\ taken.stage = ota.stage /\ SameHashes(taken, ota)
    BY DEF IInv, Sound, RamState, SameHashes
  <2> HIDE DEF taken
  <2>2. Sound(taken)
    <3>1. "active" \in taken.flags \/ ota.flags \cap {"pending", "writing"} = {}
      BY <1>2 DEF IInv, Sound, Single
    <3> QED BY <2>1, <3>1, SoundShown DEF IInv, Sound, Screen, Work, Queued
  <2>3. Sound(RebootRefused(taken)) /\ Calm(RebootRefused(taken))
    BY <1>2, <2>1, <2>2, SoundRefused
  <2>4. Stands("loop", RebootRefused(taken)) /\ "loop" \in OwnerAt
    BY <2>3 DEF Stands, OwnerAt
  <2> QED BY <1>2, <2>3, <2>4, OwnerStep
<1>3. CASE Step("reboot", "loop", RebootRefused(ota))
  <2>1. "selected" \in ota.flags
    BY <1>3 DEF IInv, Standing, Stands, Step
  <2>2. Sound(RebootRefused(ota)) /\ Calm(RebootRefused(ota))
    BY <2>1, SoundRefused DEF IInv
  <2>3. Stands("loop", RebootRefused(ota)) /\ "loop" \in OwnerAt
    BY <2>2 DEF Stands, OwnerAt
  <2> QED BY <1>3, <2>2, <2>3, OwnerStep
<1> QED BY <1>1, <1>2, <1>3 DEF ProcessReboot, RebootSelected

(* An installation is entered with the candidate it is for.                *)
LEMMA ProcessInstallStep == ASSUME IInv, ProcessInstall PROVE IInv'
<1> DEFINE taken == [ota EXCEPT !.flags = @ \ {"rebootQueued", "installQueued"}]
           given == [taken EXCEPT !.flags = (@ \ {"automaticMode", "installSince"})
                                            \cup {"active"}]
           work  == IF "installQueued" \in ota.flags THEN given ELSE taken
           to    == IF InstallWork(work) THEN "install" ELSE "loop"
<1>1. Step("loop", to, work) /\ Sound(ota) /\ Calm(ota)
  BY DEF ProcessInstall, Step, IInv, Standing, Stands
<1>2. taken \in RamState /\ taken.flags = ota.flags \ {"rebootQueued", "installQueued"}
      /\ taken.stage = ota.stage /\ SameHashes(taken, ota)
  BY <1>1 DEF Sound, RamState, SameHashes
<1> HIDE DEF taken
<1>3. given \in RamState /\ given.stage = ota.stage /\ SameHashes(given, ota)
      /\ given.flags = (ota.flags \ {"rebootQueued", "installQueued",
                                     "automaticMode", "installSince"}) \cup {"active"}
  BY <1>2 DEF RamState, SameHashes, Flags
<1> HIDE DEF given
<1>4. CASE "installQueued" \in ota.flags
  <2>1. /\ "imageReady" \in ota.flags /\ "selected" \notin ota.flags
        /\ \A f \in ota.flags \cap Work : f = "installQueued"
    BY <1>1, <1>4 DEF Sound, Ends, Single, Work, Queued
  <2>2. /\ \A f \in given.flags \cap Work : f = "active"
        /\ \A f \in {"pending", "writing", "imageReady", "selected", "imageVerified",
                     "maintenanceMode", "bootPending"} :
             f \in given.flags <=> f \in ota.flags
    BY <1>3, <2>1 DEF Work, Queued
  <2>3. Single(given)
    BY <1>1, <2>1, <2>2 DEF Sound, Single
  <2>4. Ends(given) /\ Screen(given)
    BY <1>1, <1>3, <2>1, <2>2 DEF Sound, Ends, Screen, Work, Queued
  <2>5. Pinned(given)
    BY <1>1, <1>3, <2>2 DEF Sound, Pinned, SameHashes
  <2>6. News(given) /\ Slotted(given)
    BY <1>1, <1>3, <2>2 DEF Sound, News, Slotted, SameHashes
  <2>7. Sound(given)
    BY <1>3, <2>3, <2>4, <2>5, <2>6 DEF Sound
  <2>8. {"active", "imageReady"} \subseteq given.flags /\ "selected" \notin given.flags
    BY <1>3, <2>1, <2>2
  <2>9. given.stage \in {"ReadyInstall", "WaitingPower", "Installing"}
    BY <2>7, <2>8 DEF Sound, Screen
  <2>10. Step("loop", "install", given)
    BY <1>1, <1>4, <2>8, <2>9 DEF InstallWork
  <2>11. Stands("install", given)
    BY <2>8 DEF Stands
  <2> QED BY <2>7, <2>10, <2>11, OwnerStep DEF OwnerAt
<1>5. CASE "installQueued" \notin ota.flags
  <2>1. Step("loop", to, taken) /\ (to = "install" => InstallWork(taken))
        /\ to \in {"install", "loop"}
    BY <1>1, <1>5
  <2> HIDE DEF to, work
  <2>2. "active" \in taken.flags \/ ota.flags \cap {"pending", "writing"} = {}
    BY <1>1, <1>2 DEF Sound, Single
  <2>3. Sound(taken)
    BY <1>1, <1>2, <2>2, SoundShown DEF Sound, Screen, Work, Queued
  <2>4. Calm(taken)
    BY <1>1, <1>2 DEF Calm, Unattended
  <2>5. Stands(to, taken) /\ to \in OwnerAt
    BY <2>1, <2>4 DEF Stands, InstallWork, OwnerAt
  <2> QED BY <2>1, <2>3, <2>5, OwnerStep
<1> QED BY <1>4, <1>5

(* The candidate of an installation under way.                             *)
LEMMA Installing ==
  ASSUME IInv, pc \in {"install", "select"}
  PROVE  /\ Sound(ota) /\ "active" \in ota.flags /\ "imageReady" \in ota.flags
         /\ "selected" \notin ota.flags /\ bootSlot = running
         /\ imgState[running] = "valid" /\ ota.stage # "Available"
         /\ ota.flags \cap {"pending", "writing"} = {}
         /\ \A f \in ota.flags \cap Work : f = "active"
<1>1. Sound(ota) /\ {"active", "imageReady"} \subseteq ota.flags /\ "selected" \notin ota.flags
  BY DEF IInv, Standing, Stands
<1>2. ota.flags \cap {"pending", "writing"} = {} /\ \A f \in ota.flags \cap Work : f = "active"
  BY <1>1 DEF Sound, Single, Work
<1>3. bootSlot = running /\ imgState[running] = "valid" /\ ota.stage # "Available"
  BY <1>1 DEF Sound, Slotted, Screen
<1> QED BY <1>1, <1>2, <1>3

LEMMA InstallRefusedStep ==
  ASSUME IInv, Step("install", "loop", InstallRefused(ota))
  PROVE  IInv'
<1> DEFINE s == [ota EXCEPT !.flags = @ \ {"active", "installSince"}]
           q == Publish(s, "WaitingPower")
<1>1. /\ Sound(ota) /\ "imageReady" \in ota.flags /\ "selected" \notin ota.flags
      /\ ota.flags \cap {"pending", "writing"} = {}
  BY Installing DEF Step
<1>2. CASE "maintenanceMode" \in ota.flags
  BY <1>2, OwnerFails DEF InstallRefused
<1>3. CASE "maintenanceMode" \notin ota.flags
  <2>1. Step("install", "loop", q)
    BY <1>3 DEF InstallRefused
  <2>2. s \in RamState /\ s.flags = ota.flags \ {"active", "installSince"} /\ SameHashes(s, ota)
    BY <1>1 DEF Sound, RamState, SameHashes
  <2> HIDE DEF s
  <2>3. q \in RamState /\ q.stage = "WaitingPower" /\ SameHashes(q, ota)
        /\ q.flags = ota.flags \ {"active", "installSince", "approvedRequest"}
    <3>1. LET p == Publish(s, "WaitingPower")
          IN /\ p \in RamState /\ p.flags = s.flags \ {"approvedRequest"}
             /\ p.stage = "WaitingPower" /\ SameHashes(p, s)
      BY <2>2, FailedIs
    <3> QED BY <2>2, <3>1 DEF SameHashes
  <2> HIDE DEF q
  <2>4. Sound(q)
    BY <1>1, <2>3, SoundShown DEF Work
  <2>5. Stands("loop", q) /\ "loop" \in OwnerAt
    BY <2>3 DEF Stands, Calm, OwnerAt
  <2> QED BY <2>1, <2>4, <2>5, OwnerStep
<1> QED BY <1>2, <1>3

LEMMA StartInstallStep ==
  ASSUME IInv, NEW power \in BOOLEAN, StartInstall(power)
  PROVE  IInv'
<1> DEFINE s == [ota EXCEPT !.flags = @ \cup {"installSince"}]
           q == Publish(s, "Installing")
<1>1. CASE InstallPowerSafe(ota, power)
  <2>1. Step("install", "install", q)
    BY <1>1 DEF StartInstall
  <2>2. /\ Sound(ota) /\ "active" \in ota.flags /\ "imageReady" \in ota.flags
        /\ "selected" \notin ota.flags
    BY <2>1, Installing DEF Step
  <2>3. s \in RamState /\ s.flags = ota.flags \cup {"installSince"} /\ SameHashes(s, ota)
    BY <2>2 DEF Sound, RamState, SameHashes, Flags
  <2> HIDE DEF s
  <2>4. q \in RamState /\ q.stage = "Installing" /\ SameHashes(q, ota)
        /\ q.flags = ota.flags \cup {"installSince"}
    <3>1. LET p == Publish(s, "Installing")
          IN p \in RamState /\ p.flags = s.flags /\ p.stage = "Installing" /\ SameHashes(p, s)
      BY <2>3, ShownIs DEF Stages
    <3> QED BY <2>3, <3>1 DEF SameHashes
  <2> HIDE DEF q
  <2>5. Single(q)
    BY <2>2, <2>4 DEF Sound, Single, Work, Queued
  <2>6. Ends(q) /\ Screen(q)
    BY <2>2, <2>4 DEF Sound, Ends, Screen
  <2>7. Pinned(q) /\ News(q)
    BY <2>2, <2>4 DEF Sound, Pinned, News, SameHashes
  <2>8. Slotted(q)
    BY <2>2, <2>4 DEF Sound, Slotted, SameHashes
  <2>9. Sound(q) /\ Stands("install", q)
    BY <2>2, <2>4, <2>5, <2>6, <2>7, <2>8 DEF Sound, Stands
  <2> QED BY <2>1, <2>9, OwnerStep DEF OwnerAt
<1>2. CASE ~InstallPowerSafe(ota, power)
  BY <1>2, InstallRefusedStep DEF StartInstall
<1> QED BY <1>1, <1>2

(* The journal names the candidate before anything may boot it: until then *)
(* the next boot takes the confirmed image that runs.                      *)
LEMMA RecordAttemptStep ==
  ASSUME IInv, NEW power \in BOOLEAN, NEW stored \in BOOLEAN, RecordAttempt(power, stored)
  PROVE  IInv'
<1> DEFINE f == FailLocked(ota)
<1>1. CASE ~InstallPowerSafe(ota, power)
  BY <1>1, InstallRefusedStep DEF RecordAttempt
<1>2. CASE InstallPowerSafe(ota, power)
  <2>1. /\ attempt' \in {attempt, ota.expectedHash}
        /\ manifest' = manifest /\ flash' = flash /\ imgState' = imgState
        /\ bootSlot' = bootSlot /\ running' = running /\ autoinstall' = autoinstall
        /\ \/ ota' = ota /\ pc' = "select" /\ attempt' = ota.expectedHash
           \/ ota' = f /\ pc' = "loop"
        /\ pc = "install"
    BY <1>2 DEF RecordAttempt, otadata
  <2>2. /\ Sound(ota) /\ "active" \in ota.flags /\ "imageReady" \in ota.flags
        /\ "selected" \notin ota.flags /\ bootSlot = running
        /\ imgState[running] = "valid" /\ ota.stage # "Available"
    BY <2>1, Installing
  <2>3. Sound(f) /\ Calm(f) /\ f.stage = "Failed"
    BY <2>2, SoundFails, FailLost DEF Sound
  <2> HIDE DEF f
  <2>4. Sound(ota') /\ ota'.stage # "Available"
    BY <2>1, <2>2, <2>3
  <2>5. TypeOK'
    <3>1. ota.expectedHash \in Hashes
      BY <2>2 DEF Sound, RamState
    <3>2. attempt' \in Hashes
      BY <2>1, <3>1 DEF IInv, TypeOK
    <3>3. pc' \in OwnerAt /\ ota' \in RamState
      BY <2>1, <2>4 DEF OwnerAt, Sound
    <3> QED BY <2>1, <3>2, <3>3 DEF IInv, TypeOK
  <2>6. Sound(ota)'
    BY <2>1, <2>4 DEF Sound, Single, Ends, Screen, Pinned, News, Slotted, Holds
  <2>7. Standing'
    <3>1. CASE ota' = ota /\ pc' = "select" /\ attempt' = ota.expectedHash
      BY <2>2, <3>1 DEF Standing, Stands
    <3>2. CASE ota' = f /\ pc' = "loop"
      BY <2>3, <3>2 DEF Standing, Stands
    <3> QED BY <2>1, <3>1, <3>2
  <2>8. SlotsOK'
    <3>1. imgState[bootSlot] = "valid"
      BY <2>2
    <3>2. BootSafe'
      BY <2>1, <3>1 DEF IInv, SlotsOK, BootSafe, Bootable, Holds
    <3> QED BY <2>1, <3>2 DEF IInv, SlotsOK, Bootable, Holds
  <2> QED BY <2>5, <2>6, <2>7, <2>8 DEF IInv
<1> QED BY <1>1, <1>2

(* The boot slot is turned to a whole signed image which the journal       *)
(* names, and the confirmed one stays to come back to.                     *)
LEMMA SelectTargetStep ==
  ASSUME IInv, NEW power \in BOOLEAN, NEW set \in BOOLEAN, SelectTarget(power, set)
  PROVE  IInv'
<1> DEFINE s == [ota EXCEPT !.flags = (@ \ {"active"}) \cup {"selected"}]
           q == Publish(s, "ReadyReboot")
           o == Other(running)
<1>1. CASE Step("select", "loop", FailLocked(ota))
  BY <1>1, OwnerFails
<1>2. CASE /\ pc = "select" /\ bootSlot' = o
           /\ imgState' = [imgState EXCEPT ![o] = "new"]
           /\ ota' = q
           /\ pc' \in {"reboot", "loop"}
           /\ UNCHANGED <<manifest, flash, running, nvs>>
  <2>1. /\ Sound(ota) /\ "active" \in ota.flags /\ "imageReady" \in ota.flags
        /\ "selected" \notin ota.flags /\ bootSlot = running
        /\ imgState[running] = "valid"
        /\ ota.flags \cap {"pending", "writing"} = {}
        /\ \A f \in ota.flags \cap Work : f = "active"
    BY <1>2, Installing
  <2>2. attempt = ota.expectedHash
    BY <1>2 DEF IInv, Standing, Stands
  <2>3. /\ manifest' = manifest /\ flash' = flash /\ running' = running
        /\ attempt' = attempt /\ autoinstall' = autoinstall
    BY <1>2 DEF nvs
  <2>4. s \in RamState /\ s.flags = (ota.flags \ {"active"}) \cup {"selected"}
        /\ SameHashes(s, ota)
    BY <2>1 DEF Sound, RamState, SameHashes, Flags
  <2> HIDE DEF s
  <2>5. q \in RamState /\ q.flags = (ota.flags \ {"active"}) \cup {"selected"}
        /\ q.stage = "ReadyReboot" /\ SameHashes(q, ota)
    <3>1. LET p == Publish(s, "ReadyReboot")
          IN p \in RamState /\ p.flags = s.flags /\ p.stage = "ReadyReboot" /\ SameHashes(p, s)
      BY <2>4, ShownIs DEF Stages
    <3> QED BY <2>4, <3>1 DEF SameHashes
  <2> HIDE DEF q
  <2>6. /\ imgState \in [Slots -> {"undefined", "new", "pending", "valid", "aborted"}]
        /\ running \in Slots /\ o \in Slots /\ o # running /\ Other(o) = running
    BY OtherSlot DEF IInv, TypeOK
  <2>7. /\ imgState' \in [Slots -> {"undefined", "new", "pending", "valid", "aborted"}]
        /\ imgState'[o] = "new" /\ imgState'[running] = "valid"
    BY <1>2, <2>1, <2>6
  <2>8. Holds(flash, o, ota.expectedHash) /\ Bootable(flash, o)
    <3>1. Holds(flash, o, ota.expectedHash)
      BY <2>1 DEF Sound, Slotted
    <3>2. ota.expectedHash \in Images \cup Shipped
      BY <2>1, <3>1 DEF Sound, RamState, Hashes, Holds
    <3> QED BY <3>1, <3>2 DEF Bootable
  <2> HIDE DEF o
  <2>9. TypeOK'
    BY <1>2, <2>3, <2>5, <2>6, <2>7 DEF IInv, TypeOK, OwnerAt
  <2>10. Single(q)
    <3>1. \A f \in q.flags \cap Work : FALSE
      BY <2>1, <2>5 DEF Work, Queued
    <3> QED BY <2>1, <2>5, <3>1 DEF Single
  <2>11. Ends(q) /\ Screen(q)
    BY <2>1, <2>5 DEF Ends, Screen, Work, Queued
  <2>12. Pinned(q)
    BY <2>1, <2>5 DEF Sound, Pinned, SameHashes
  <2>13. Sound(ota)'
    <3>1. (Single(ota) /\ Ends(ota) /\ Screen(ota) /\ Pinned(ota) /\ ota \in RamState)'
      BY <1>2, <2>5, <2>10, <2>11, <2>12 DEF Single, Ends, Screen, Pinned
    <3>2. News(ota)'
      BY <1>2, <2>5 DEF News
    <3>3. Holds(flash, Other(running), ota.expectedHash)'
      BY <1>2, <2>3, <2>5, <2>8 DEF Holds, SameHashes, o
    <3>4. "bootPending" \notin q.flags
      BY <2>1, <2>5 DEF Sound, Slotted
    <3>5. Slotted(ota)'
      BY <1>2, <2>3, <2>5, <2>6, <2>7, <3>3, <3>4 DEF Slotted
    <3> QED BY <3>1, <3>2, <3>5 DEF Sound
  <2>14. Standing'
    BY <1>2, <2>5 DEF Standing, Stands, Calm
  <2>15. SlotsOK'
    <3>1. Bootable(flash, running)
      BY DEF IInv, SlotsOK
    <3>2. BootSafe'
      BY <1>2, <2>2, <2>3, <2>6, <2>7, <2>8, <3>1 DEF BootSafe, Bootable, Holds
    <3> QED BY <2>3, <2>7, <3>1, <3>2 DEF SlotsOK, Bootable, Holds
  <2> QED BY <2>9, <2>13, <2>14, <2>15 DEF IInv
<1> QED BY <1>1, <1>2 DEF SelectTarget

-----------------------------------------------------------------------------
(* The health gate.                                                        *)
LEMMA HealthInitStep ==
  ASSUME IInv, NEW readable \in BOOLEAN, HealthInit(readable)
  PROVE  IInv'
<1> DEFINE l == [ota EXCEPT !.flags = @ \cup {"healthInitialized"} \cup
                                      (IF autoinstall THEN {"autoInstall"} ELSE {})]
           n == IF attempt = NoImage THEN ClearCandidateUi(l)
                ELSE [l EXCEPT !.sha256 = attempt, !.flags = @ \cup {"imageVerified"}]
           s == [n EXCEPT !.flags = @ \cup {"bootPending"}]
           q == Publish(s, "BootChecking")
<1>1. /\ pc' = pc /\ manifest' = manifest /\ UNCHANGED persistent
      /\ \/ ota' = l
         \/ ota' = q /\ imgState[running] = "pending"
  BY DEF HealthInit
<1>2. Sound(ota) /\ pc' \in OwnerAt /\ manifest' \in Hashes /\ Stands(pc, ota)
      /\ attempt \in Hashes
  BY <1>1 DEF IInv, TypeOK, Standing
<1>3. /\ l \in RamState /\ l.stage = ota.stage /\ SameHashes(l, ota)
      /\ \A f \in Flags \ {"healthInitialized", "autoInstall"} : f \in l.flags <=> f \in ota.flags
  BY <1>2 DEF Sound, RamState, SameHashes, Flags
<1>4. l.flags \cap Work = ota.flags \cap Work
  BY <1>2, <1>3 DEF Sound, RamState, Flags, Work, Queued
<1> HIDE DEF l
<1>5. \A f \in {"pending", "writing", "imageReady", "selected", "imageVerified", "active",
                "maintenanceMode", "automaticMode", "bootPending", "installQueued",
                "approvedRequest", "checkQueued", "checking"} :
        f \in l.flags <=> f \in ota.flags
  BY <1>3 DEF Flags, Queued
<1>6. Single(l)
  BY <1>2, <1>4, <1>5 DEF Sound, Single
<1>7. Ends(l) /\ Screen(l) /\ Pinned(l) /\ News(l) /\ Slotted(l)
  <2>1. Ends(l) /\ Screen(l)
    BY <1>2, <1>3, <1>5 DEF Sound, Ends, Screen
  <2>2. Pinned(l)
    BY <1>2, <1>3, <1>5 DEF Sound, Pinned, SameHashes
  <2>3. News(l) /\ Slotted(l)
    BY <1>2, <1>3, <1>5 DEF Sound, News, Slotted, SameHashes
  <2> QED BY <2>1, <2>2, <2>3
<1>8. CASE ota' = l
  <2>1. Sound(l) /\ Stands(pc, l)
    BY <1>2, <1>3, <1>5, <1>6, <1>7 DEF Sound, Stands, Calm, Unattended, SameHashes
  <2> QED BY <1>1, <1>2, <1>8, <2>1, RamStep
<1>9. CASE ota' = q /\ imgState[running] = "pending"
  <2>1. ota.flags \cap {"writing", "imageReady", "selected"} = {}
    BY <1>2, <1>9 DEF Sound, Single, Slotted
  <2>2. /\ n \in RamState
        /\ \A f \in Flags \ {"imageVerified"} : f \in n.flags <=> f \in l.flags
    <3>1. CASE attempt = NoImage
      BY <1>3, <3>1 DEF ClearCandidateUi, RamState, Hashes
    <3>2. CASE attempt # NoImage
      BY <1>2, <1>3, <3>2 DEF RamState, Flags
    <3> QED BY <3>1, <3>2
  <2> HIDE DEF n
  <2>3. s \in RamState /\ s.flags = n.flags \cup {"bootPending"}
    BY <2>2 DEF RamState, Flags
  <2> HIDE DEF s
  <2>4. q \in RamState /\ q.flags = s.flags /\ q.stage = "BootChecking"
    BY <2>3, ShownIs DEF Stages
  <2> HIDE DEF q
  <2>5. \A f \in Flags \ {"imageVerified", "bootPending"} : f \in q.flags <=> f \in l.flags
    BY <2>2, <2>3, <2>4
  <2>6. \A f \in {"pending", "writing", "imageReady", "selected", "installQueued", "active"} :
          f \in q.flags <=> f \in ota.flags
    BY <1>5, <2>5 DEF Flags, Queued
  <2>7. q.flags \cap Work = l.flags \cap Work
    BY <1>3, <2>4, <2>5 DEF RamState, Flags, Work, Queued
  <2>8. Single(q)
    BY <1>2, <1>4, <2>6, <2>7 DEF Sound, Single
  <2>9. Ends(q) /\ Screen(q) /\ Pinned(q) /\ News(q)
    BY <1>2, <2>1, <2>4, <2>6 DEF Sound, Ends, Screen, Pinned, News
  <2>10. Slotted(q)
    BY <1>2, <1>9, <2>1, <2>6 DEF Sound, Slotted
  <2>11. Stands(pc, q)
    BY <1>2, <2>1, <2>4, <2>6 DEF Stands, Calm
  <2> QED BY <1>1, <1>2, <1>9, <2>4, <2>8, <2>9, <2>10, <2>11, RamStep DEF Sound
<1> QED BY <1>1, <1>8, <1>9

LEMMA HealthPassStep == ASSUME IInv, HealthPass PROVE IInv'
<1> DEFINE s == [ota EXCEPT !.flags = @ \ {"bootPending"}]
           q == Publish(s, "Complete")
<1>1. /\ "bootPending" \in ota.flags /\ Sound(ota) /\ ota' = q
      /\ imgState' = [imgState EXCEPT ![running] = "valid"]
      /\ pc' = pc /\ manifest' = manifest /\ flash' = flash /\ bootSlot' = bootSlot
      /\ running' = running /\ attempt' = attempt /\ autoinstall' = autoinstall
  BY DEF HealthPass, IInv, nvs
<1>2. ota.flags \cap {"writing", "imageReady", "selected"} = {} /\ bootSlot = running
  BY <1>1 DEF Sound, Single, Slotted
<1>3. s \in RamState /\ s.flags = ota.flags \ {"bootPending"}
  BY <1>1 DEF Sound, RamState
<1> HIDE DEF s
<1>4. q \in RamState /\ q.flags = ota.flags \ {"bootPending"} /\ q.stage = "Complete"
  BY <1>3, ShownIs DEF Stages
<1> HIDE DEF q
<1>5. /\ imgState \in [Slots -> {"undefined", "new", "pending", "valid", "aborted"}]
      /\ running \in Slots
  BY DEF IInv, TypeOK
<1>6. imgState' \in [Slots -> {"undefined", "new", "pending", "valid", "aborted"}]
      /\ imgState'[running] = "valid"
  BY <1>1, <1>5
<1>7. TypeOK'
  BY <1>1, <1>4, <1>6 DEF IInv, TypeOK
<1>8. Sound(ota)'
  <2>1. Single(q)
    BY <1>1, <1>4 DEF Sound, Single, Work, Queued
  <2>2. Ends(q) /\ Screen(q) /\ Pinned(q)
    BY <1>1, <1>2, <1>4 DEF Sound, Ends, Screen, Pinned
  <2>3. (Single(ota) /\ Ends(ota) /\ Screen(ota) /\ Pinned(ota) /\ ota \in RamState)'
    BY <1>1, <1>4, <2>1, <2>2 DEF Single, Ends, Screen, Pinned
  <2>4. News(ota)' /\ Slotted(ota)'
    BY <1>1, <1>2, <1>4 DEF News, Slotted
  <2> QED BY <2>3, <2>4 DEF Sound
<1>9. Standing'
  BY <1>1, <1>2, <1>4 DEF IInv, Standing, Stands, Calm
<1>10. SlotsOK'
  <2>1. Bootable(flash, running)
    BY DEF IInv, SlotsOK
  <2>2. BootSafe'
    BY <1>1, <1>2, <1>6, <2>1 DEF BootSafe, Bootable, Holds
  <2> QED BY <1>1, <1>6, <2>1, <2>2 DEF SlotsOK, Bootable, Holds
<1> QED BY <1>7, <1>8, <1>9, <1>10 DEF IInv

LEMMA UnplugStep == ASSUME IInv, Unplug PROVE IInv'
<1> DEFINE q == [ota EXCEPT !.grant = "stale"]
<1>1. /\ ota' = q /\ pc' = pc /\ manifest' = manifest /\ UNCHANGED persistent
      /\ Sound(ota) /\ Stands(pc, ota) /\ pc' \in OwnerAt /\ manifest' \in Hashes
  BY DEF Unplug, IInv, TypeOK, Standing
<1>2. q \in RamState /\ q.flags = ota.flags /\ q.stage = ota.stage /\ SameHashes(q, ota)
  BY <1>1 DEF Sound, RamState, SameHashes
<1> HIDE DEF q
<1>3. Sound(q)
  BY <1>1, <1>2, SoundSame
<1>4. Stands(pc, q)
  BY <1>1, <1>2 DEF Stands, Calm, Unattended, SameHashes
<1> QED BY <1>1, <1>3, <1>4, RamStep

-----------------------------------------------------------------------------
(* The invariant.                                                          *)
LEMMA InitStep == ASSUME Init PROVE IInv
<1>1. PICK i \in Shipped : flash = [s \in Slots |-> IF s = 0 THEN Whole(i) ELSE Erased]
  BY DEF Init
<1>2. i # NoImage /\ i \in Hashes /\ NoImage \in Hashes
  BY MosaicoOtaAssumption DEF Hashes
<1>3. /\ ota = OtaInit /\ pc = "loop" /\ manifest = NoImage
      /\ imgState = [s \in Slots |-> IF s = 0 THEN "valid" ELSE "undefined"]
      /\ bootSlot = 0 /\ running = 0
      /\ attempt = NoImage /\ autoinstall = FALSE
  BY DEF Init
<1>4. Whole(i) \in [1 .. Chunks -> Hashes] /\ Erased \in [1 .. Chunks -> Hashes]
  BY <1>2 DEF Whole, Erased
<1>5. flash \in [Slots -> [1 .. Chunks -> Hashes]] /\ flash[0] = Whole(i)
  BY <1>1, <1>4 DEF Slots
<1>6. imgState \in [Slots -> {"undefined", "new", "pending", "valid", "aborted"}]
      /\ imgState[0] = "valid" /\ 0 \in Slots
  BY <1>3 DEF Slots
<1>7. OtaInit \in RamState
  <2>1. 0 \in 0 .. Chunks
    BY MosaicoOtaAssumption
  <2> QED BY <2>1 DEF OtaInit, RamState, Hashes, Stages
<1>8. ota.flags = {} /\ ota.stage = "Idle"
  BY <1>3 DEF OtaInit
<1>9. TypeOK
  BY <1>2, <1>3, <1>5, <1>6, <1>7 DEF TypeOK, OwnerAt
<1>10. Sound(ota)
  BY <1>3, <1>7, <1>8 DEF Sound, Single, Ends, Screen, Pinned, News, Slotted
<1>11. Standing
  BY <1>3, <1>8 DEF Standing, Stands, Calm
<1>12. Bootable(flash, 0)
  BY <1>2, <1>5 DEF Bootable, Holds
<1>13. SlotsOK
  BY <1>3, <1>6, <1>12 DEF SlotsOK, BootSafe
<1> QED BY <1>9, <1>10, <1>11, <1>13 DEF IInv

LEMMA OwnerKeeps == ASSUME IInv, Owner PROVE IInv'
<1>1. ASSUME NEW m \in Images \cup {NoImage}, NEW readable \in BOOLEAN, NEW queued \in BOOLEAN,
             DiscoverManifest(m, readable, queued)
      PROVE  IInv'
  BY <1>1, DiscoverStep
<1>2. ASSUME NEW ok \in BOOLEAN, FinishCheck(ok) \/ PublishCheck(ok) PROVE IInv'
  BY <1>2, FinishCheckStep, PublishCheckStep
<1>3. ASSUME NEW power \in BOOLEAN, NEW quiet \in BOOLEAN, TakeRequest(power, quiet) PROVE IInv'
  BY <1>3, TakeRequestStep
<1>4. ASSUME NEW m \in Images \cup {NoImage}, NEW versionSigned \in BOOLEAN,
             NEW power \in BOOLEAN, NEW begun \in BOOLEAN,
             BeginManifest(m, versionSigned, power, begun)
      PROVE  IInv'
  <2>1. PICK to \in {"delta", "full"} : Begin("manifest", m, versionSigned, power, begun, to)
    BY <1>4 DEF BeginManifest
  <2>2. m \in Hashes
    BY DEF Hashes
  <2> QED BY <2>1, <2>2, BeginStep
<1>5. ASSUME NEW power \in BOOLEAN, NEW begun \in BOOLEAN, BeginFallback(power, begun)
      PROVE  IInv'
  <2>1. manifest \in Hashes
    BY DEF IInv, TypeOK
  <2> QED BY <1>5, <2>1, BeginStep DEF BeginFallback
<1>6. ASSUME NEW x \in Hashes, NEW power \in BOOLEAN, NEW written \in BOOLEAN,
             WriteChunk(x, power, written)
      PROVE  IInv'
  BY <1>6, WriteChunkStep
<1>7. ASSUME NEW power \in BOOLEAN, NEW ended \in BOOLEAN, FinishDownload(power, ended) PROVE IInv'
  BY <1>7, FinishDownloadStep
<1>8. ASSUME NEW power \in BOOLEAN, ProcessReboot(power) \/ RebootSelected(power) PROVE IInv'
  BY <1>8, RebootStep
<1>9. ASSUME NEW power \in BOOLEAN, StartInstall(power) PROVE IInv'
  BY <1>9, StartInstallStep
<1>10. ASSUME NEW power \in BOOLEAN, NEW stored \in BOOLEAN, RecordAttempt(power, stored)
       PROVE  IInv'
  BY <1>10, RecordAttemptStep
<1>11. ASSUME NEW power \in BOOLEAN, NEW set \in BOOLEAN, SelectTarget(power, set) PROVE IInv'
  BY <1>11, SelectTargetStep
<1>12. CASE TurnedAway \/ TakeCheckRequest \/ CheckOffline
  BY <1>12, TurnedAwayStep, TakeCheckStep, CheckOfflineStep
<1>13. CASE UpdateFails \/ RequestTimeout \/ InstallTimeout
  BY <1>13, FailuresStep
<1>14. CASE NoDelta \/ DeltaFails \/ DeltaCompletes
  BY <1>14, DeltaStep
<1>15. CASE ResetDownloadForFullFallback \/ ProcessInstall
  BY <1>15, FallbackStep, ProcessInstallStep
<1> QED BY <1>1, <1>2, <1>3, <1>4, <1>5, <1>6, <1>7, <1>8, <1>9, <1>10, <1>11, <1>12,
           <1>13, <1>14, <1>15 DEF Owner

LEMMA NextStep == ASSUME IInv, [Next]_vars PROVE IInv'
<1>1. CASE Callers \/ Owner
  BY <1>1, CallersStep, OwnerKeeps
<1>2. ASSUME NEW readable \in BOOLEAN, HealthInit(readable) PROVE IInv'
  BY <1>2, HealthInitStep
<1>3. CASE Health \/ PowerCut \/ Unplug
  BY <1>3, HealthPassStep, RestartStep, UnplugStep DEF Health, HealthTimeout, PowerCut
<1>4. CASE UNCHANGED vars
  <2>1. pc' \in OwnerAt /\ manifest' \in Hashes
    BY <1>4 DEF vars, IInv, TypeOK
  <2> QED BY <1>4, <2>1, RamStep DEF vars, IInv, Standing
<1> QED BY <1>1, <1>2, <1>3, <1>4 DEF Next

LEMMA Invariance == Spec => []IInv
<1>1. Init => IInv
  BY InitStep
<1>2. IInv /\ [Next]_vars => IInv'
  BY NextStep
<1> QED BY <1>1, <1>2, PTL DEF Spec

-----------------------------------------------------------------------------
(* Whatever is cut, fails or comes back at any step of an update, the next *)
(* boot starts a whole signed image and there is another to return to      *)
(* while it is tried (beginManifest, installVerified, healthPoll).         *)
THEOREM AlwaysBootSafe == Spec => []BootSafe
<1>1. IInv => BootSafe
  BY DEF IInv, SlotsOK
<1> QED BY <1>1, Invariance, PTL

(* No sequence of requests, revocations and new offers parts what is       *)
(* written or ready from what was shown, approved and granted              *)
(* (beginManifest, writeChunk, finishDownload).                            *)
THEOREM AlwaysPinned == Spec => []CandidateIsPinned
<1>1. IInv => CandidateIsPinned
  BY DEF IInv, Sound, Pinned, Slotted, CandidateIsPinned
<1> QED BY <1>1, Invariance, PTL

(* However the screen, the console and the owner take turns, one piece of  *)
(* work is under way at a time (the admission checks of all requests).     *)
THEOREM OneAtATime == Spec => []OneTransaction
<1>1. IInv => OneTransaction
  BY DEF IInv, Sound, Single, Slotted, Work, OneTransaction
<1> QED BY <1>1, Invariance, PTL

(* A ready image is never stranded on a page that cannot act on it, and an *)
(* offer is never the running image or the one that was tried last         *)
(* (publish in all handlers, discoverManifest).                            *)
THEOREM ScreenAlwaysTrue == Spec => []ScreenIsTrue
<1>1. IInv => ScreenShowsCandidate
  BY DEF IInv, Sound, Screen, ScreenShowsCandidate
<1>2. IInv => OfferIsNews
  BY DEF IInv, Sound, News, OfferIsNews
<1> QED BY <1>1, <1>2, Invariance, PTL DEF ScreenIsTrue

(* What every step but the downloads and the start of an installation does *)
(* to the flash and to the place the owner stands at.                      *)
Ordinary == flash' = flash /\ (pc' = "install" => pc = "install")

LEMMA StepIsOrdinary ==
  ASSUME NEW from, NEW to, NEW r, Step(from, to, r), to # "install" \/ from = "install"
  PROVE  Ordinary
BY DEF Step, Ordinary, persistent

LEMMA OthersOrdinary ==
  ASSUME Callers \/ (\E readable \in BOOLEAN : HealthInit(readable)) \/ Health \/ PowerCut
         \/ Unplug
  PROVE  Ordinary
<1> USE DEF persistent
<1>1. ASSUME NEW r, Caller(r) PROVE Ordinary
  BY <1>1 DEF Caller, Ordinary
<1>2. ASSUME NEW power \in BOOLEAN, Request(power) PROVE Ordinary
  BY <1>1, <1>2 DEF Request
<1>3. ASSUME NEW h \in Images, NEW power \in BOOLEAN,
             RequestMaintenanceUpdate(h, power) \/ RequestMaintenanceReboot(h, power)
      PROVE  Ordinary
  BY <1>1, <1>3 DEF RequestMaintenanceUpdate, RequestMaintenanceReboot
<1>4. ASSUME NEW h \in Images, ApproveUpdate(h) \/ ApproveInstall(h) PROVE Ordinary
  BY <1>1, <1>4 DEF ApproveUpdate, ApproveInstall
<1>5. CASE DeferUpdate \/ RequestCheck \/ RequestReboot
  BY <1>1, <1>5 DEF DeferUpdate, RequestCheck, RequestReboot
<1>6. ASSUME NEW enabled, NEW stored, SetAutomaticInstall(enabled, stored) PROVE Ordinary
  BY <1>6 DEF SetAutomaticInstall, Ordinary
<1>7. CASE RollbackTest
  BY <1>7 DEF RollbackTest, Ordinary
<1>8. CASE Restart \/ HealthPass \/ Unplug
  BY <1>8 DEF Restart, HealthPass, Unplug, Ordinary
<1>9. ASSUME NEW readable \in BOOLEAN, HealthInit(readable) PROVE Ordinary
  BY <1>9 DEF HealthInit, Ordinary
<1> QED BY <1>2, <1>3, <1>4, <1>5, <1>6, <1>7, <1>8, <1>9
        DEF Callers, Health, HealthTimeout, PowerCut

LEMMA OwnerOrdinary ==
  ASSUME Owner
  PROVE  \/ Ordinary
         \/ ProcessInstall
         \/ \E from \in {"manifest", "restart"}, to \in {"delta", "full"}, m \in Hashes \cup {manifest},
               versionSigned, power, begun \in BOOLEAN :
              Begin(from, m, versionSigned, power, begun, to)
         \/ \E x \in Hashes, power, written \in BOOLEAN : WriteChunk(x, power, written)
<1>1. CASE TurnedAway \/ TakeCheckRequest \/ CheckOffline
  BY <1>1, StepIsOrdinary DEF TurnedAway, TakeCheckRequest, CheckOffline
<1>2. ASSUME NEW m \in Images \cup {NoImage}, NEW readable \in BOOLEAN, NEW queued \in BOOLEAN,
             DiscoverManifest(m, readable, queued)
      PROVE  Ordinary
  BY <1>2, StepIsOrdinary DEF DiscoverManifest
<1>3. ASSUME NEW ok \in BOOLEAN, FinishCheck(ok) \/ PublishCheck(ok) PROVE Ordinary
  <2> DEFINE from == IF ok THEN "finishOk" ELSE "finishFail"
             to   == IF ok THEN "publishOk" ELSE "publishFail"
  <2>1. CASE FinishCheck(ok)
    <3>1. PICK r : Step(from, to, r)
      BY <2>1 DEF FinishCheck
    <3>2. to # "install"
      OBVIOUS
    <3> HIDE DEF from, to
    <3> QED BY <3>1, <3>2, StepIsOrdinary
  <2>2. CASE PublishCheck(ok)
    <3>1. PICK r : Step(to, "loop", r)
      BY <2>2 DEF PublishCheck
    <3> HIDE DEF to
    <3> QED BY <3>1, StepIsOrdinary
  <2> QED BY <1>3, <2>1, <2>2
<1>4. ASSUME NEW power \in BOOLEAN, NEW quiet \in BOOLEAN, TakeRequest(power, quiet)
      PROVE  Ordinary
  <2>1. PICK to, r : to \in {"manifest", "loop"} /\ Step("loop", to, r)
    BY <1>4 DEF TakeRequest
  <2> QED BY <2>1, StepIsOrdinary
<1>5. CASE UpdateFails \/ RequestTimeout \/ InstallTimeout
  BY <1>5, StepIsOrdinary DEF UpdateFails, RequestTimeout, InstallTimeout
<1>6. CASE NoDelta \/ DeltaFails \/ DeltaCompletes \/ ResetDownloadForFullFallback
  BY <1>6, StepIsOrdinary DEF NoDelta, DeltaFails, DeltaCompletes, ResetDownloadForFullFallback
<1>7. ASSUME NEW power \in BOOLEAN, NEW ended \in BOOLEAN, FinishDownload(power, ended)
      PROVE  Ordinary
  BY <1>7, StepIsOrdinary DEF FinishDownload
<1>8. ASSUME Restart PROVE Ordinary
  BY <1>8 DEF Restart, Ordinary
<1>9. ASSUME NEW power \in BOOLEAN, ProcessReboot(power) \/ RebootSelected(power) PROVE Ordinary
  <2>1. CASE Restart
    BY <1>8, <2>1
  <2>2. CASE ~Restart
    <3>1. PICK from, r : Step(from, "loop", r)
      BY <1>9, <2>2 DEF ProcessReboot, RebootSelected
    <3> QED BY <3>1, StepIsOrdinary
  <2> QED BY <2>1, <2>2
<1>10. ASSUME NEW power \in BOOLEAN, StartInstall(power) PROVE Ordinary
  BY <1>10, StepIsOrdinary DEF StartInstall
<1>11. ASSUME NEW power \in BOOLEAN, NEW stored \in BOOLEAN, RecordAttempt(power, stored)
       PROVE  Ordinary
  <2>1. CASE Step("install", "loop", InstallRefused(ota))
    BY <2>1, StepIsOrdinary
  <2>2. CASE pc = "install" /\ flash' = flash
    BY <2>2 DEF Ordinary
  <2> QED BY <1>11, <2>1, <2>2 DEF RecordAttempt
<1>12. ASSUME NEW power \in BOOLEAN, NEW set \in BOOLEAN, SelectTarget(power, set)
       PROVE  Ordinary
  <2>1. CASE Step("select", "loop", FailLocked(ota))
    BY <2>1, StepIsOrdinary
  <2>2. CASE pc' \in {"reboot", "loop"} /\ flash' = flash
    BY <2>2 DEF Ordinary
  <2> QED BY <1>12, <2>1, <2>2 DEF SelectTarget
<1>13. ASSUME NEW m \in Images \cup {NoImage}, NEW versionSigned \in BOOLEAN,
              NEW power \in BOOLEAN, NEW begun \in BOOLEAN,
              BeginManifest(m, versionSigned, power, begun)
       PROVE  \E to \in {"delta", "full"} : m \in Hashes
                 /\ Begin("manifest", m, versionSigned, power, begun, to)
  BY <1>13 DEF BeginManifest, Hashes
<1> QED BY ZenonT(60), <1>1, <1>2, <1>3, <1>4, <1>5, <1>6, <1>7, <1>9, <1>10, <1>11, <1>12, <1>13
        DEF Owner, BeginFallback

(* An owner that still works on a cancelled download writes nothing over   *)
(* what another request has asked for or made ready                        *)
(* (beginManifest, writeChunk).                                            *)
THEOREM StaleOwnerNeverWrites == Spec => StaleOwnerWritesNothing
<1> DEFINE A == flash' # flash => /\ "active" \in ota.flags
                                  /\ ota.flags \cap {"pending", "imageReady"} = {}
<1>1. IInv /\ [Next]_vars => A \/ UNCHANGED vars
  <2> SUFFICES ASSUME IInv, Next, flash' # flash
               PROVE  "active" \in ota.flags /\ ota.flags \cap {"pending", "imageReady"} = {}
    BY DEF vars
  <2>1. ASSUME NEW from, NEW to, NEW m, NEW versionSigned, NEW power, NEW begun,
               Begin(from, m, versionSigned, power, begun, to)
        PROVE  "active" \in ota.flags /\ ota.flags \cap {"pending", "imageReady"} = {}
    <3>1. ~OutOfSequence(ota)
      BY <2>1 DEF Begin, Step, persistent
    <3> QED BY <3>1 DEF OutOfSequence
  <2>2. ASSUME NEW x, NEW power, NEW written, WriteChunk(x, power, written)
        PROVE  "active" \in ota.flags /\ ota.flags \cap {"pending", "imageReady"} = {}
    <3>1. {"active", "writing"} \subseteq ota.flags
      BY <2>2 DEF WriteChunk, Step, persistent
    <3> QED BY <3>1 DEF IInv, Sound, Single
  <2>3. CASE ProcessInstall
    BY <2>3 DEF ProcessInstall, Step, persistent
  <2>4. ~Ordinary
    BY DEF Ordinary
  <2> QED BY <2>1, <2>2, <2>3, <2>4, OwnerOrdinary, OthersOrdinary DEF Next
<1> QED BY <1>1, Invariance, PTL DEF Spec, StaleOwnerWritesNothing

(* No interleaving of requests and failures starts an installation that    *)
(* neither a standing permission nor an accepted approval asked for        *)
(* (finishDownload, approveInstall, processLocalRequests).                 *)
THEOREM ConsentAlwaysNeeded == Spec => InstallNeedsConsent
<1> DEFINE A == pc # "install" /\ pc' = "install" =>
                  Unattended(ota) \/ "installQueued" \in ota.flags
<1>1. IInv /\ [Next]_vars => A \/ UNCHANGED vars
  <2> SUFFICES ASSUME IInv, Next, pc # "install", pc' = "install"
               PROVE  Unattended(ota) \/ "installQueued" \in ota.flags
    BY DEF vars
  <2>1. ASSUME NEW from \in {"manifest", "restart"}, NEW to \in {"delta", "full"}, NEW m,
               NEW versionSigned, NEW power, NEW begun,
               Begin(from, m, versionSigned, power, begun, to)
        PROVE  FALSE
    BY <2>1 DEF Begin, Step
  <2>2. ASSUME NEW x, NEW power, NEW written, WriteChunk(x, power, written)
        PROVE  FALSE
    BY <2>2 DEF WriteChunk, Step
  <2>3. CASE ProcessInstall
    <3> SUFFICES ASSUME "installQueued" \notin ota.flags PROVE Unattended(ota)
      OBVIOUS
    <3> DEFINE taken == [ota EXCEPT !.flags = @ \ {"rebootQueued", "installQueued"}]
    <3>1. InstallWork(taken) /\ pc = "loop"
      BY <2>3 DEF ProcessInstall, Step
    <3>2. ota \in RamState /\ Calm(ota)
      BY <3>1 DEF IInv, Sound, Standing, Stands
    <3>3. taken.flags \subseteq ota.flags
      BY <3>2 DEF RamState
    <3> QED BY <3>1, <3>2, <3>3 DEF InstallWork, Calm
  <2>4. ~Ordinary
    BY DEF Ordinary
  <2> QED BY <2>1, <2>2, <2>3, <2>4, OwnerOrdinary, OthersOrdinary DEF Next
<1> QED BY <1>1, Invariance, PTL DEF Spec, InstallNeedsConsent
=============================================================================
