-------------------------- MODULE NandStore_proofs --------------------------
(***************************************************************************)
(* Proofs about the two-slot NAND record store, for every set of payloads  *)
(* and every generation limit, and about three of the components that are  *)
(* checked beside it: the queue of the input, the settings, and the two    *)
(* scale trials of the battery gauge.                                      *)
(***************************************************************************)
EXTENDS MCRecords, SequenceTheorems, TLAPS

(* The initial state of the store is well typed.                           *)
LEMMA TypeAtInit == Init => TypeOK
<1> SUFFICES ASSUME Init PROVE TypeOK
  OBVIOUS
<1> USE NandStoreAssumption
<1> USE DEF Slots, Halves, Copies, NoSlot, MarkerPages, HalfPages, CommitPages,
            BlankCommit, TornCommit, Commit, SavePhases, FormatPhases,
            SharedPhases, live, media, locals
<1>1. marker \in [Copies -> MarkerPages] /\ dMarker \in [Copies -> MarkerPages]
  BY DEF Init
<1>2. half \in [Slots -> [Halves -> HalfPages]]
  BY DEF Init
<1>3. dHalf \in [Slots -> [Halves -> HalfPages]]
  BY <1>2 DEF Init
<1>4. commit \in [Slots -> CommitPages] /\ dCommit \in [Slots -> CommitPages]
  BY DEF Init
<1>5. op = "none" /\ pc = "idle" /\ result = "None" /\ cleanupFailed = FALSE
  BY DEF Init
<1>6. input = NoValue /\ slot = NoSlot /\ generation = 0
  BY DEF Init
<1>7. ~(op = "save") /\ (op = "none" <=> pc = "idle")
  BY <1>5
<1>8. pc \notin SavePhases /\ pc \notin FormatPhases
  BY <1>5
<1>9. generation \in 0 .. MaxGeneration /\ input \in Values \cup {NoValue}
  BY <1>6
<1> QED BY <1>1, <1>2, <1>3, <1>4, <1>5, <1>6, <1>7, <1>8, <1>9 DEF TypeOK

(* No step of a save, a format, a failure or a power cut leaves a variable *)
(* outside its type.                                                       *)
LEMMA TypeStep == TypeOK /\ [Next]_vars => TypeOK'
<1> SUFFICES ASSUME TypeOK, [Next]_vars PROVE TypeOK'
  OBVIOUS
<1> USE NandStoreAssumption
<1> USE DEF Slots, Halves, Copies, NoSlot, MarkerPages, HalfPages, CommitPages,
            BlankCommit, TornCommit, Commit, SavePhases, FormatPhases,
            SharedPhases, live, media, locals
<1> USE TypeOK DEF TypeOK
<1>1. ASSUME NEW v \in Values, BeginSave(v) PROVE TypeOK'
  <2>1. ScanGeneration(half, commit) \in 0 .. MaxGeneration
    BY DEF ScanGeneration, Newest
  <2>2. generation' \in 0 .. MaxGeneration /\ generation' # 0
    BY <1>1, <2>1 DEF BeginSave
  <2> QED BY <1>1, <2>2 DEF BeginSave
<1>2. CASE OpenError BY <1>2 DEF OpenError
<1>3. CASE RefuseSave BY <1>3 DEF RefuseSave, ScanCode
<1>4. ASSUME NEW i \in Halves, WritePayload(i) PROVE TypeOK'
  BY <1>4 DEF WritePayload
<1>5. CASE PayloadSync BY <1>5 DEF PayloadSync, Sync
<1>6. CASE VerifyPayload BY <1>6 DEF VerifyPayload
<1>7. CASE WriteCommit BY <1>7 DEF WriteCommit
<1>8. CASE CommitSync BY <1>8 DEF CommitSync, Sync
<1>9. CASE VerifyCommit BY <1>9 DEF VerifyCommit
<1>10. CASE Reopen BY <1>10 DEF Reopen
<1>11. CASE Recheck BY <1>11 DEF Recheck
<1>12. CASE BeginFormat BY <1>12 DEF BeginFormat
<1>13. CASE EraseChip BY <1>13 DEF EraseChip
<1>14. ASSUME NEW i \in Copies, WriteMarker(i) PROVE TypeOK'
  BY <1>14 DEF WriteMarker
<1>15. CASE MarkerSync BY <1>15 DEF MarkerSync, Sync
<1>16. CASE VerifyMarkers BY <1>16 DEF VerifyMarkers
<1>17. CASE IoError BY <1>17 DEF IoError
<1>18. CASE TornWrite BY <1>18 DEF TornWrite
<1>19. CASE Checkpoint BY <1>19 DEF Checkpoint
<1>20. ASSUME NEW closed \in BOOLEAN, Finish(closed) PROVE TypeOK'
  BY <1>20 DEF Finish
<1>21. CASE PowerCut
  <2>1. cleanupFailed' \in BOOLEAN
    BY <1>21, Zenon DEF PowerCut
  <2> QED BY <1>21, <2>1 DEF PowerCut
<1>22. CASE UNCHANGED vars BY <1>22 DEF vars
<1> QED
  BY <1>1, <1>2, <1>3, <1>4, <1>5, <1>6, <1>7, <1>8, <1>9, <1>10, <1>11,
     <1>12, <1>13, <1>14, <1>15, <1>16, <1>17, <1>18, <1>19, <1>20, <1>21,
     <1>22 DEF Next

(* Every variable of the store keeps its type in every behaviour.          *)
THEOREM TypeCorrect == Spec => []TypeOK
BY TypeAtInit, TypeStep, PTL DEF Spec

-----------------------------------------------------------------------------
(* What scan makes of consistent pages: the slot of the larger generation. *)
Image(h, c) == /\ h \in [Slots -> [Halves -> HalfPages]]
               /\ c \in [Slots -> CommitPages]

(* The slot that carries the larger generation is the one scan selects.    *)
LEMMA LeadIsNewest ==
  ASSUME NEW h, NEW c, Image(h, c), Consistent(h, c), NEW s \in Slots,
         c[s].kind = "commit",
         c[1 - s].kind = "commit" => c[1 - s].generation < c[s].generation
  PROVE  Newest(h, c) = s /\ SlotValid(h, c, s)
<1> USE NandStoreAssumption DEF Slots, NoSlot, Image, CommitPages
<1>1. 1 - s \in Slots /\ 1 - (1 - s) = s
  OBVIOUS
<1>2. c[s].generation \in Nat /\ c[1 - s].generation \in Nat
  BY <1>1
<1>3. SlotValid(h, c, s)
  BY <1>2 DEF Consistent
<1>4. SlotValid(h, c, 1 - s) => c[1 - s].generation < c[s].generation
  BY DEF SlotValid
<1>5. CASE s = 0 BY <1>2, <1>3, <1>4, <1>5 DEF Newest
<1>6. CASE s = 1 BY <1>2, <1>3, <1>4, <1>6 DEF Newest
<1> QED BY <1>3, <1>5, <1>6

(* Without a commit page scan selects nothing.                             *)
LEMMA NoLead ==
  ASSUME NEW h, NEW c, \A s \in Slots : c[s].kind # "commit"
  PROVE  Newest(h, c) = NoSlot /\ \A s \in Slots : ~SlotValid(h, c, s)
BY DEF Newest, SlotValid, Slots

(* With a marker and a leading slot, load returns that slot's payload.     *)
LEMMA LeadIsLoaded ==
  ASSUME NEW m, NEW h, NEW c, Image(h, c), Consistent(h, c), NEW s \in Slots,
         \E i \in Copies : m[i] = "marker",
         c[s].kind = "commit",
         c[1 - s].kind = "commit" => c[1 - s].generation < c[s].generation
  PROVE  /\ ScanCode(m, h, c) = "Ok"
         /\ LoadValue(m, h, c) = c[s].crc
         /\ ScanGeneration(h, c) = c[s].generation
<1>1. Newest(h, c) = s /\ SlotValid(h, c, s)
  BY LeadIsNewest
<1>2. s # NoSlot
  BY DEF Slots, NoSlot
<1>3. ~(SlotValid(h, c, 1 - s) /\ c[0].generation = c[1].generation)
  BY NandStoreAssumption DEF SlotValid, Slots, Image, CommitPages
<1>4. ScanCode(m, h, c) = "Ok"
  BY <1>1, <1>3 DEF ScanCode, Slots
<1> QED BY <1>1, <1>2, <1>4 DEF LoadValue, ScanGeneration

(* Without a commit page load returns nothing.                             *)
LEMMA NothingLoaded ==
  ASSUME NEW m, NEW h, NEW c, \A s \in Slots : c[s].kind # "commit"
  PROVE  LoadValue(m, h, c) = NoValue /\ ScanGeneration(h, c) = 0
<1>1. Newest(h, c) = NoSlot /\ \A s \in Slots : ~SlotValid(h, c, s)
  BY NoLead
<1>2. ScanCode(m, h, c) # "Ok"
  BY <1>1 DEF ScanCode
<1> QED BY <1>1, <1>2 DEF LoadValue, ScanGeneration

(* Overwriting the payload, or damaging the commit page, of a slot that    *)
(* does not lead changes nothing that load returns.                        *)
LEMMA FillingIsInvisible ==
  ASSUME NEW m, NEW h, NEW c, Image(h, c), Consistent(h, c),
         NEW k, NEW d, Image(k, d), NEW s \in Slots,
         \E i \in Copies : m[i] = "marker",
         c[s].kind = "commit" => /\ c[1 - s].kind = "commit"
                                 /\ c[s].generation < c[1 - s].generation,
         k[1 - s] = h[1 - s], d[1 - s] = c[1 - s],
         d[s] = c[s] \/ d[s].kind # "commit"
  PROVE  /\ Consistent(k, d)
         /\ LoadValue(m, k, d) = LoadValue(m, h, c)
         /\ ScanGeneration(k, d) = ScanGeneration(h, c)
<1>1. 1 - s \in Slots /\ 1 - (1 - s) = s /\ \A t \in Slots : t = s \/ t = 1 - s
  BY DEF Slots
<1>2. CASE c[1 - s].kind = "commit"
  <2>1. c[s].kind = "commit" => c[s].generation < c[1 - s].generation
    OBVIOUS
  <2>2. SlotValid(h, c, 1 - s)
    BY <1>1, <1>2, <2>1, LeadIsNewest
  <2>3. SlotValid(k, d, 1 - s)
    BY <2>2 DEF SlotValid, PayloadIs
  <2>4. c[1 - s].generation \in Nat /\ c[s].generation \in Nat /\ d[s].generation \in Nat
    BY <1>1, NandStoreAssumption DEF Image, CommitPages
  <2>5. d[s].kind = "commit" => d[s].generation < d[1 - s].generation /\ d[s].generation # 0
    BY DEF Consistent
  <2>6. d[1 - s].generation # 0
    BY <2>3 DEF SlotValid
  <2>7. Consistent(k, d)
    <3> SUFFICES ASSUME NEW t \in Slots, d[t].kind = "commit"
                 PROVE  /\ d[t].generation # 0
                        /\ \/ SlotValid(k, d, t)
                           \/ /\ d[1 - t].kind = "commit"
                              /\ d[t].generation < d[1 - t].generation
                        /\ d[1 - t].kind = "commit" => d[t].generation # d[1 - t].generation
      BY DEF Consistent
    <3>1. CASE t = s BY <1>1, <1>2, <2>4, <2>5, <3>1
    <3>2. CASE t = 1 - s BY <1>1, <2>3, <2>4, <2>5, <2>6, <3>2
    <3> QED BY <1>1, <3>1, <3>2
  <2>8. /\ LoadValue(m, h, c) = c[1 - s].crc
        /\ ScanGeneration(h, c) = c[1 - s].generation
    BY <1>1, <1>2, <2>1, LeadIsLoaded
  <2>9. /\ LoadValue(m, k, d) = d[1 - s].crc
        /\ ScanGeneration(k, d) = d[1 - s].generation
    BY <1>1, <1>2, <2>5, <2>7, LeadIsLoaded
  <2> QED BY <2>7, <2>8, <2>9
<1>3. CASE c[1 - s].kind # "commit"
  <2>1. \A t \in Slots : c[t].kind # "commit" /\ d[t].kind # "commit"
    BY <1>1, <1>3
  <2>2. Consistent(k, d)
    BY <2>1 DEF Consistent
  <2> QED BY <2>1, <2>2, NothingLoaded
<1> QED BY <1>2, <1>3

(* Writing a commit page of a new largest generation over an intact        *)
(* payload makes that payload the one load returns.                        *)
LEMMA CommitTakesOver ==
  ASSUME NEW m, NEW h, NEW c, Image(h, c), Consistent(h, c), NEW s \in Slots,
         NEW g \in 1 .. MaxGeneration, NEW v \in Values,
         \E i \in Copies : m[i] = "marker",
         PayloadIs(h, s, v),
         c[1 - s].kind = "commit" => c[1 - s].generation < g,
         NEW d, Image(h, d), d[s] = Commit(g, v), d[1 - s] = c[1 - s]
  PROVE  /\ Consistent(h, d)
         /\ LoadValue(m, h, d) = v
         /\ ScanGeneration(h, d) = g
<1> USE NandStoreAssumption
<1>1. 1 - s \in Slots /\ 1 - (1 - s) = s /\ 1 - s # s
  BY DEF Slots
<1>3. SlotValid(h, d, s)
  BY DEF SlotValid, Commit
<1>4. c[1 - s].generation \in Nat /\ g \in Nat
  BY <1>1 DEF Image, CommitPages
<1>5. Consistent(h, d)
  <2> SUFFICES ASSUME NEW t \in Slots, d[t].kind = "commit"
               PROVE  /\ d[t].generation # 0
                      /\ \/ SlotValid(h, d, t)
                         \/ /\ d[1 - t].kind = "commit"
                            /\ d[t].generation < d[1 - t].generation
                      /\ d[1 - t].kind = "commit" => d[t].generation # d[1 - t].generation
    BY DEF Consistent
  <2>1. CASE t = s BY <1>3, <1>4, <2>1 DEF Commit
  <2>2. CASE t = 1 - s BY <1>1, <1>4, <2>2 DEF Commit, Consistent
  <2> QED BY <2>1, <2>2 DEF Slots
<1>6. d[s].kind = "commit" /\ d[s].generation = g /\ d[s].crc = v
  BY DEF Commit
<1>8. d[1 - s].kind = "commit" => d[1 - s].generation < d[s].generation
  BY <1>6
<1>9. LoadValue(m, h, d) = d[s].crc /\ ScanGeneration(h, d) = d[s].generation
  BY <1>5, <1>6, <1>8, LeadIsLoaded
<1> QED BY <1>5, <1>6, <1>9

-----------------------------------------------------------------------------
(* A record selected by scan always has an intact payload, also while a    *)
(* save overwrites the other slot and in whatever a power cut leaves       *)
(* (scan, save and transaction together).                                  *)
LEMMA StoreStep == (Init => StoreInv) /\ (StoreInv /\ [Next]_vars => StoreInv')
<1> USE NandStoreAssumption
<1>1. Init => StoreInv
  <2> SUFFICES ASSUME Init PROVE StoreInv
    OBVIOUS
  <2>1. \A s \in Slots : commit[s].kind = "blank" /\ dCommit[s].kind = "blank"
    BY DEF Init, BlankCommit
  <2>2. Consistent(half, commit) /\ Consistent(dHalf, dCommit)
    BY <2>1 DEF Consistent
  <2>3. ScanGeneration(half, commit) = 0 /\ ScanGeneration(dHalf, dCommit) = 0
    BY <2>1, NothingLoaded
  <2>4. pc = "idle" /\ op = "none" /\ live = media
    BY DEF Init, live, media
  <2>5. Filling /\ Formatting /\ Pending
    BY <2>3, <2>4 DEF Filling, Formatting, Pending
  <2> QED BY <2>2, <2>5, TypeAtInit DEF StoreInv
<1>2. ASSUME StoreInv, [Next]_vars
      PROVE  StoreInv'
  <2> USE StoreInv
  <2>t. TypeOK /\ TypeOK'
    BY <1>2, TypeStep DEF StoreInv
  <2>i. /\ Image(half, commit) /\ Image(dHalf, dCommit)
        /\ Image(half', commit') /\ Image(dHalf', dCommit')
    BY <2>t DEF TypeOK, Image
  <2>c. Consistent(half, commit) /\ Consistent(dHalf, dCommit)
    BY DEF StoreInv
  <2>g. /\ ScanGeneration(half, commit) \in Nat
        /\ ScanGeneration(dHalf, dCommit) \in Nat
    BY <2>i DEF Image, ScanGeneration, Newest, Slots, NoSlot, CommitPages
  <2> DEFINE quiet == UNCHANGED <<marker, half, commit, dMarker, dHalf, dCommit>>
             closed == /\ marker' = dMarker /\ half' = dHalf /\ commit' = dCommit
                       /\ dMarker' = dMarker /\ dHalf' = dHalf /\ dCommit' = dCommit
             synced == /\ dMarker' = marker /\ dHalf' = half /\ dCommit' = commit
                       /\ marker' = marker /\ half' = half /\ commit' = commit
  \* Steps that only read, close or synchronise keep the page invariants.
  <2>q. ASSUME quiet \/ closed \/ synced
        PROVE  /\ Consistent(half', commit') /\ Consistent(dHalf', dCommit')
               /\ ScanGeneration(half', commit') >= ScanGeneration(dHalf', dCommit')
    BY <2>q, <2>c, <2>g DEF StoreInv, Pending
  <2>1. ASSUME NEW v \in Values, BeginSave(v) PROVE StoreInv'
    <3>0. quiet /\ pc' = "payload0" /\ op' = "save" /\ input' = v
      BY <2>1 DEF BeginSave, live, media
    <3>1. live = media
      BY <2>1 DEF BeginSave, StoreInv, Pending
    <3>2. \E i \in Copies : marker[i] = "marker"
      BY <2>1 DEF BeginSave, ScanCode
    <3>3. Filling'
      <4> DEFINE n == Newest(half, commit)
      <4>1. CASE \E s \in Slots : commit[s].kind = "commit"
        <5>1. PICK s \in Slots :
                /\ commit[s].kind = "commit"
                /\ commit[1 - s].kind = "commit" =>
                     commit[1 - s].generation < commit[s].generation
          BY <4>1, <2>c, <2>i DEF Consistent, Image, Slots, CommitPages
        <5>2. n = s /\ ScanGeneration(half, commit) = commit[s].generation
          BY <5>1, <2>c, <2>i, LeadIsNewest DEF ScanGeneration, Slots, NoSlot
        <5>3. slot' = 1 - s /\ generation' = commit[s].generation + 1
          BY <2>1, <5>2 DEF BeginSave, Slots
        <5>4. commit[s].generation \in Nat
          BY <2>i DEF Image, CommitPages
        <5>5. 1 - slot' = s
          BY <5>3 DEF Slots
        <5> QED BY <3>0, <3>2, <5>1, <5>3, <5>4, <5>5 DEF Filling
      <4>2. CASE \A s \in Slots : commit[s].kind # "commit"
        <5>1. slot' \in Slots /\ 1 - slot' \in Slots
          BY <2>1 DEF BeginSave, Slots
        <5> QED BY <3>0, <3>2, <4>2, <5>1 DEF Filling
      <4> QED BY <4>1, <4>2
    <3>4. Formatting'
      BY <3>0 DEF Formatting
    <3>5. Pending'
      BY <3>0, <3>1, <2>q DEF Pending, Stored, live, media
    <3> QED BY <2>t, <2>q, <3>0, <3>3, <3>4, <3>5 DEF StoreInv
  <2>2. CASE OpenError
    BY <2>2, <2>t DEF OpenError, StoreInv, Filling, Formatting, Pending, Stored,
       live, media, locals
  <2>3. CASE RefuseSave
    BY <2>3, <2>t DEF RefuseSave, StoreInv, Filling, Formatting, Pending, Stored,
       live, media, locals
  <2>4. ASSUME NEW i \in Halves, WritePayload(i) PROVE StoreInv'
    <3>0. /\ pc \in {"payload0", "payload1"} /\ pc' \in {"payload1", "payloadSync"}
          /\ op = "save" /\ op' = "save" /\ slot \in Slots
      BY <2>4, <2>t DEF WritePayload, TypeOK, SavePhases, Halves
    <3>1. /\ half' = [half EXCEPT ![slot][i] = input] /\ commit' = commit
          /\ UNCHANGED <<marker, dMarker, dHalf, dCommit, slot, input, generation>>
      BY <2>4 DEF WritePayload, media, locals
    <3>2. half'[1 - slot] = half[1 - slot]
      BY <3>0, <3>1, <2>i DEF Image, Slots
    <3>f. /\ \E j \in Copies : marker[j] = "marker"
          /\ commit[slot].kind = "commit" =>
               /\ commit[1 - slot].kind = "commit"
               /\ commit[slot].generation < commit[1 - slot].generation
      BY <3>0 DEF StoreInv, Filling
    <3>s. commit'[1 - slot] = commit[1 - slot] /\ commit'[slot] = commit[slot]
      BY <3>1
    <3>3. /\ Consistent(half', commit')
          /\ LoadValue(marker, half', commit') = LoadValue(marker, half, commit)
          /\ ScanGeneration(half', commit') = ScanGeneration(half, commit)
      BY <3>0, <3>2, <3>f, <3>s, <2>i, <2>c, FillingIsInvisible
    <3>4. Filling' /\ Formatting'
      BY <3>0, <3>1 DEF Filling, Formatting, StoreInv
    <3>5. Pending'
      BY <3>0, <3>1, <3>3 DEF Pending, StoreInv, Stored
    <3> QED BY <2>t, <2>c, <3>1, <3>3, <3>4, <3>5 DEF StoreInv
  <2>5. CASE PayloadSync
    <3>0. synced /\ UNCHANGED <<op, input, slot, generation>>
          /\ pc = "payloadSync" /\ pc' = "payloadVerify" /\ op = "save"
      BY <2>5, <2>t DEF PayloadSync, Sync, live, locals, TypeOK, SavePhases
    <3>1. Filling' /\ Formatting'
      BY <3>0 DEF Filling, Formatting, StoreInv
    <3>2. Pending'
      BY <3>0, <2>q DEF Pending, StoreInv, Stored
    <3> QED BY <2>t, <2>q, <3>0, <3>1, <3>2 DEF StoreInv
  <2>6. CASE VerifyPayload
    <3>0. /\ quiet /\ UNCHANGED <<op, input, slot, generation>>
          /\ pc = "payloadVerify" /\ pc' \in {"commitWrite", "failed"}
          /\ pc' = "commitWrite" => PayloadIs(half, slot, input)
      BY <2>6 DEF VerifyPayload, live, media, locals
    <3>1. Filling' /\ Formatting'
      BY <3>0 DEF Filling, Formatting, StoreInv, PayloadIs
    <3>2. Pending'
      BY <3>0, <2>q DEF Pending, StoreInv, Stored, live, media
    <3> QED BY <2>t, <2>q, <3>0, <3>1, <3>2 DEF StoreInv
  <2>7. CASE WriteCommit
    <3>0. /\ pc = "commitWrite" /\ pc' = "commitSync" /\ op = "save" /\ op' = "save"
          /\ slot \in Slots /\ input \in Values /\ generation \in 1 .. MaxGeneration
      BY <2>7, <2>t DEF WriteCommit, TypeOK, SavePhases
    <3>1. /\ commit' = [commit EXCEPT ![slot] = Commit(generation, input)]
          /\ half' = half
          /\ UNCHANGED <<marker, dMarker, dHalf, dCommit, slot, input, generation>>
      BY <2>7 DEF WriteCommit, media, locals
    <3>2. /\ Consistent(half, commit')
          /\ LoadValue(marker, half, commit') = input
          /\ ScanGeneration(half, commit') = generation
      <4>1. /\ \E j \in Copies : marker[j] = "marker"
            /\ commit[1 - slot].kind = "commit" => commit[1 - slot].generation < generation
            /\ PayloadIs(half, slot, input)
        BY <3>0 DEF StoreInv, Filling
      <4>2. /\ commit'[slot] = Commit(generation, input)
            /\ commit'[1 - slot] = commit[1 - slot]
        BY <3>0, <3>1, <2>i DEF Image, Slots
      <4>3. Image(half, commit')
        BY <3>1, <2>i
      <4> QED BY <3>0, <4>1, <4>2, <4>3, <2>i, <2>c, CommitTakesOver
    <3>3. ScanGeneration(half, commit) =< generation
      <4>1. CASE commit[1 - slot].kind = "commit"
        <5>1. 1 - slot \in Slots /\ 1 - (1 - slot) = slot
          BY <3>0 DEF Slots
        <5>2. ScanGeneration(half, commit) = commit[1 - slot].generation
          BY <3>0, <4>1, <5>1, <2>i, <2>c, LeadIsLoaded DEF StoreInv, Filling
        <5>3. commit[1 - slot].generation < generation
          BY <3>0, <4>1 DEF StoreInv, Filling
        <5> QED BY <2>g, <3>0, <5>2, <5>3
      <4>2. CASE commit[1 - slot].kind # "commit"
        <5>1. \A s \in Slots : commit[s].kind # "commit"
          BY <3>0, <4>2 DEF StoreInv, Filling, Slots
        <5> QED BY <3>0, <5>1, NothingLoaded
      <4> QED BY <4>1, <4>2
    <3>4. Filling' /\ Formatting'
      BY <3>0 DEF Filling, Formatting
    <3>5. ScanGeneration(half', commit') >= ScanGeneration(dHalf', dCommit')
      BY <2>g, <3>0, <3>1, <3>2, <3>3 DEF StoreInv, Pending
    <3>6. Pending'
      BY <3>0, <3>1, <3>2, <3>5 DEF Pending
    <3> QED BY <2>t, <2>c, <3>1, <3>2, <3>4, <3>6 DEF StoreInv
  <2>8. CASE CommitSync
    <3>0. synced /\ UNCHANGED <<op, input, slot, generation>>
          /\ pc = "commitSync" /\ pc' = "commitVerify" /\ op = "save"
      BY <2>8, <2>t DEF CommitSync, Sync, live, locals, TypeOK, SavePhases
    <3>1. Filling' /\ Formatting'
      BY <3>0 DEF Filling, Formatting
    <3>2. Pending'
      BY <3>0, <2>q DEF Pending, StoreInv, Stored
    <3> QED BY <2>t, <2>q, <3>0, <3>1, <3>2 DEF StoreInv
  <2>9. CASE VerifyCommit
    <3>0. /\ quiet /\ UNCHANGED <<op, input, slot, generation>>
          /\ pc' \in {"reopen", "failed"}
      BY <2>9 DEF VerifyCommit, live, media, locals
    <3>1. Filling' /\ Formatting'
      BY <3>0 DEF Filling, Formatting
    <3>2. Pending'
      BY <3>0, <2>q DEF Pending, StoreInv, Stored
    <3> QED BY <2>t, <2>q, <3>0, <3>1, <3>2 DEF StoreInv
  <2>10. CASE Reopen
    <3>0. /\ closed /\ UNCHANGED <<op, input, slot, generation>>
          /\ pc = "reopen" /\ pc' = "recheck"
      BY <2>10 DEF Reopen, media, locals
    <3>1. Filling' /\ Formatting'
      BY <3>0 DEF Filling, Formatting
    <3>2. Pending'
      BY <3>0, <2>q DEF Pending, Stored, live, media
    <3> QED BY <2>t, <2>q, <3>0, <3>1, <3>2 DEF StoreInv
  <2>11. CASE Recheck
    <3>0. /\ quiet /\ UNCHANGED <<op, input, slot, generation>>
          /\ pc = "recheck" /\ pc' \in {"complete", "failed"}
          /\ pc' = "complete" => LoadValue(marker, half, commit) = input
      BY <2>11, <2>t DEF Recheck, live, media, locals, LoadValue, TypeOK
    <3>1. Filling' /\ Formatting'
      BY <3>0 DEF Filling, Formatting
    <3>2. live = media /\ live' = media'
      BY <3>0 DEF StoreInv, Pending, live, media
    <3>3. LoadValue(marker, half, commit) = Stored
      BY <3>2 DEF Stored, live, media
    <3>4. Pending'
      BY <3>0, <3>2, <3>3, <2>q DEF Pending, StoreInv, Stored
    <3> QED BY <2>t, <2>q, <3>0, <3>1, <3>4 DEF StoreInv
  <2>12. CASE BeginFormat
    <3>0. quiet /\ pc = "idle" /\ pc' = "erase" /\ op' = "format"
      BY <2>12 DEF BeginFormat, live, media
    <3>1. Filling' /\ Formatting'
      BY <3>0 DEF Filling, Formatting
    <3>2. Pending'
      BY <3>0, <2>q DEF Pending, StoreInv, Stored, live, media
    <3> QED BY <2>t, <2>q, <3>0, <3>1, <3>2 DEF StoreInv
  <2>13. CASE EraseChip
    <3>0. /\ op' = "format" /\ pc' = "marker0"
          /\ commit' = [s \in Slots |-> BlankCommit] /\ dCommit' = commit'
          /\ dHalf' = half'
      BY <2>13, <2>t DEF EraseChip, TypeOK, FormatPhases
    <3>1. \A s \in Slots : commit'[s].kind = "blank" /\ dCommit'[s].kind = "blank"
      BY <3>0 DEF BlankCommit
    <3>2. Consistent(half', commit') /\ Consistent(dHalf', dCommit')
      BY <3>1 DEF Consistent
    <3>3. /\ LoadValue(marker', half', commit') = NoValue
          /\ ScanGeneration(half', commit') = 0
          /\ LoadValue(dMarker', dHalf', dCommit') = NoValue
          /\ ScanGeneration(dHalf', dCommit') = 0
      BY <3>1, NothingLoaded
    <3>4. Filling' /\ Formatting'
      BY <3>0, <3>1 DEF Filling, Formatting
    <3>5. Pending'
      BY <3>0, <3>3 DEF Pending, Stored
    <3> QED BY <2>t, <3>2, <3>4, <3>5 DEF StoreInv
  <2>14. ASSUME NEW i \in Copies, WriteMarker(i) PROVE StoreInv'
    <3>0. /\ pc \in {"marker0", "marker1"} /\ pc' \in {"marker1", "markerSync"}
          /\ op = "format" /\ op' = "format"
          /\ UNCHANGED <<half, commit, dMarker, dHalf, dCommit>>
      BY <2>14, <2>t DEF WriteMarker, media, TypeOK, FormatPhases, Copies
    <3>1. \A s \in Slots : commit[s].kind = "blank" /\ dCommit[s].kind = "blank"
      BY <3>0 DEF StoreInv, Formatting
    <3>2. /\ LoadValue(marker', half, commit) = NoValue
          /\ LoadValue(dMarker, dHalf, dCommit) = NoValue
      BY <3>1, NothingLoaded
    <3>3. Filling' /\ Formatting'
      BY <3>0, <3>1 DEF Filling, Formatting
    <3>4. Pending'
      BY <3>0, <3>2 DEF Pending, StoreInv, Stored
    <3> QED BY <2>t, <2>c, <3>0, <3>3, <3>4 DEF StoreInv
  <2>15. CASE MarkerSync
    <3>0. synced /\ UNCHANGED <<op, input, slot, generation>>
          /\ pc = "markerSync" /\ pc' = "markerVerify" /\ op = "format"
      BY <2>15, <2>t DEF MarkerSync, Sync, live, locals, TypeOK, FormatPhases
    <3>1. Filling' /\ Formatting'
      BY <3>0 DEF Filling, Formatting, StoreInv
    <3>2. Pending'
      BY <3>0, <2>q DEF Pending, StoreInv, Stored
    <3> QED BY <2>t, <2>q, <3>0, <3>1, <3>2 DEF StoreInv
  <2>16. CASE VerifyMarkers
    <3>0. /\ quiet /\ UNCHANGED <<op, input, slot, generation>>
          /\ pc' \in {"reopen", "failed"}
      BY <2>16 DEF VerifyMarkers, live, media, locals
    <3>1. Filling' /\ Formatting'
      BY <3>0 DEF Filling, Formatting
    <3>2. Pending'
      BY <3>0, <2>q DEF Pending, StoreInv, Stored
    <3> QED BY <2>t, <2>q, <3>0, <3>1, <3>2 DEF StoreInv
  <2>17. CASE IoError
    <3>0. /\ quiet /\ UNCHANGED <<op, input, slot, generation>> /\ pc' = "failed"
      BY <2>17 DEF IoError, live, media, locals
    <3>1. Filling' /\ Formatting'
      BY <3>0 DEF Filling, Formatting
    <3>2. Pending'
      BY <3>0, <2>q DEF Pending, StoreInv, Stored
    <3> QED BY <2>t, <2>q, <3>0, <3>1, <3>2 DEF StoreInv
  <2>18. CASE TornWrite
    <3>0. pc' = "failed" /\ UNCHANGED <<op, input, slot, generation, dMarker, dHalf, dCommit>>
      BY <2>18 DEF TornWrite, media, locals
    <3>1. Filling' /\ Formatting'
      BY <3>0 DEF Filling, Formatting
    <3>2. CASE pc \in {"payload0", "payload1", "commitWrite"}
      <4>0. op = "save" /\ slot \in Slots
        BY <3>2, <2>t DEF TypeOK, SavePhases
      <4>1. /\ marker' = marker
            /\ half'[1 - slot] = half[1 - slot] /\ commit'[1 - slot] = commit[1 - slot]
            /\ commit'[slot] = commit[slot] \/ commit'[slot].kind # "commit"
        BY <2>18, <3>2, <4>0, <2>i DEF TornWrite, Image, Slots, TornCommit
      <4>2. /\ Consistent(half', commit')
            /\ LoadValue(marker, half', commit') = LoadValue(marker, half, commit)
            /\ ScanGeneration(half', commit') = ScanGeneration(half, commit)
        BY <3>2, <4>0, <4>1, <2>i, <2>c, FillingIsInvisible DEF StoreInv, Filling
      <4>3. Pending'
        BY <3>0, <4>0, <4>1, <4>2 DEF Pending, StoreInv, Stored
      <4> QED BY <2>t, <2>c, <3>0, <3>1, <4>2, <4>3 DEF StoreInv
    <3>3. CASE pc \in {"marker0", "marker1"}
      <4>0. op = "format" /\ UNCHANGED <<half, commit>>
        BY <2>18, <3>3, <2>t DEF TornWrite, TypeOK, FormatPhases
      <4>1. \A s \in Slots : commit[s].kind = "blank" /\ dCommit[s].kind = "blank"
        BY <3>3 DEF StoreInv, Formatting
      <4>2. /\ LoadValue(marker', half, commit) = NoValue
            /\ LoadValue(dMarker, dHalf, dCommit) = NoValue
        BY <4>1, NothingLoaded
      <4>3. Pending'
        BY <3>0, <4>0, <4>2 DEF Pending, StoreInv, Stored
      <4> QED BY <2>t, <2>c, <3>0, <3>1, <4>0, <4>3 DEF StoreInv
    <3> QED BY <2>18, <3>2, <3>3 DEF TornWrite
  <2>19. CASE Checkpoint
    <3>0. synced /\ UNCHANGED <<pc, op, input, slot, generation>>
          /\ pc # "idle" /\ live # media
      BY <2>19 DEF Checkpoint, live, locals
    <3>1. pc \notin {"idle", "erase", "recheck", "complete"}
      BY <3>0 DEF StoreInv, Pending
    <3>2. Filling' /\ Formatting'
      BY <3>0 DEF Filling, Formatting, StoreInv
    <3>3. Pending'
      BY <3>0, <3>1, <2>q DEF Pending, StoreInv, Stored
    <3> QED BY <2>t, <2>q, <3>0, <3>2, <3>3 DEF StoreInv
  <2>20. ASSUME NEW ok \in BOOLEAN, Finish(ok) PROVE StoreInv'
    <3>0. closed /\ pc' = "idle" /\ op' = "none"
      BY <2>20 DEF Finish, media
    <3>1. Filling' /\ Formatting'
      BY <3>0 DEF Filling, Formatting
    <3>2. Pending'
      BY <3>0, <2>q DEF Pending, live, media
    <3> QED BY <2>t, <2>q, <3>0, <3>1, <3>2 DEF StoreInv
  <2>21. CASE PowerCut
    <3>0. closed /\ pc' = "idle" /\ op' = "none"
      BY <2>21 DEF PowerCut, media
    <3>1. Filling' /\ Formatting'
      BY <3>0 DEF Filling, Formatting
    <3>2. Pending'
      BY <3>0, <2>q DEF Pending, live, media
    <3> QED BY <2>t, <2>q, <3>0, <3>1, <3>2 DEF StoreInv
  <2>22. CASE UNCHANGED vars
    BY <2>22, <2>t DEF vars, StoreInv, Filling, Formatting, Pending, Stored,
       live, media, locals
  <2> QED
    BY <1>2, <2>1, <2>2, <2>3, <2>4, <2>5, <2>6, <2>7, <2>8, <2>9, <2>10, <2>11,
       <2>12, <2>13, <2>14, <2>15, <2>16, <2>17, <2>18, <2>19, <2>20, <2>21,
       <2>22 DEF Next
<1> QED BY <1>1, <1>2

(* The inductive invariant holds in every behaviour of the store.          *)
THEOREM StoreSafe == Spec => []StoreInv
BY StoreStep, PTL DEF Spec

-----------------------------------------------------------------------------
(* How the media change in one step: not at all, to the erased chip, or to *)
(* what the open transaction has written so far (sync and checkpoint).     *)
LEMMA MediaStep ==
  ASSUME StoreInv, [Next]_vars
  PROVE  \/ UNCHANGED <<dMarker, dHalf, dCommit>>
         \/ /\ dMarker' = marker /\ dHalf' = half /\ dCommit' = commit
            /\ UNCHANGED <<op, input>> /\ pc # "idle" /\ pc # "erase"
         \/ EraseChip
<1> USE DEF live, media, locals
<1>1. CASE \E v \in Values : BeginSave(v) BY <1>1 DEF BeginSave
<1>2. CASE OpenError BY <1>2 DEF OpenError
<1>3. CASE RefuseSave BY <1>3 DEF RefuseSave
<1>4. CASE \E i \in Halves : WritePayload(i) BY <1>4 DEF WritePayload
<1>5. CASE PayloadSync BY <1>5 DEF PayloadSync, Sync
<1>6. CASE VerifyPayload BY <1>6 DEF VerifyPayload
<1>7. CASE WriteCommit BY <1>7 DEF WriteCommit
<1>8. CASE CommitSync BY <1>8 DEF CommitSync, Sync
<1>9. CASE VerifyCommit BY <1>9 DEF VerifyCommit
<1>10. CASE Reopen BY <1>10 DEF Reopen
<1>11. CASE Recheck BY <1>11 DEF Recheck
<1>12. CASE BeginFormat BY <1>12 DEF BeginFormat
<1>13. CASE \E i \in Copies : WriteMarker(i) BY <1>13 DEF WriteMarker
<1>14. CASE MarkerSync BY <1>14 DEF MarkerSync, Sync
<1>15. CASE VerifyMarkers BY <1>15 DEF VerifyMarkers
<1>16. CASE IoError BY <1>16 DEF IoError
<1>17. CASE TornWrite BY <1>17 DEF TornWrite
<1>18. CASE Checkpoint BY <1>18 DEF Checkpoint, StoreInv, Pending
<1>19. CASE \E closed \in BOOLEAN : Finish(closed) BY <1>19 DEF Finish
<1>20. CASE PowerCut BY <1>20 DEF PowerCut
<1>21. CASE UNCHANGED vars BY <1>21 DEF vars
<1> QED
  BY <1>1, <1>2, <1>3, <1>4, <1>5, <1>6, <1>7, <1>8, <1>9, <1>10, <1>11, <1>12,
     <1>13, <1>14, <1>15, <1>16, <1>17, <1>18, <1>19, <1>20, <1>21 DEF Next

(* A transaction can publish nothing but the stored record or the one it   *)
(* is saving.                                                              *)
LEMMA Published ==
  ASSUME StoreInv, [Next]_vars, ~EraseChip
  PROVE  /\ Stored' = Stored \/ (op = "save" /\ op' = op /\ input' = input /\ Stored' = input)
         /\ ScanGeneration(dHalf, dCommit)' >= ScanGeneration(dHalf, dCommit)
<1>1. CASE UNCHANGED <<dMarker, dHalf, dCommit>>
  <2>1. ScanGeneration(dHalf, dCommit) >= ScanGeneration(dHalf, dCommit)
    BY NandStoreAssumption DEF StoreInv, TypeOK, CommitPages, ScanGeneration, Newest,
       Slots, NoSlot
  <2> QED BY <1>1, <2>1 DEF Stored
<1>2. CASE /\ dMarker' = marker /\ dHalf' = half /\ dCommit' = commit
           /\ UNCHANGED <<op, input>> /\ pc # "idle" /\ pc # "erase"
  <2>1. op \in {"save", "format"}
    BY <1>2 DEF StoreInv, TypeOK
  <2> QED BY <1>2, <2>1 DEF StoreInv, Pending, Stored
<1> QED BY <1>1, <1>2, MediaStep

(* A store that holds a record keeps holding one through saves, errors,    *)
(* torn pages and power cuts: only the authorised format loses it          *)
(* (save() never writes the slot scan selects).                            *)
THEOREM NeverLost == Spec => RecordNeverLost
<1>1. ASSUME StoreInv, [Next]_vars
      PROVE  [Stored # NoValue /\ pc # "erase" => Stored' # NoValue]_vars
  <2>1. CASE EraseChip BY <2>1 DEF EraseChip
  <2>2. CASE ~EraseChip
    <3>1. op = "save" => input # NoValue
      BY <1>1, NandStoreAssumption DEF StoreInv, TypeOK
    <3> QED BY <1>1, <2>2, <3>1, Published
  <2> QED BY <2>1, <2>2
<1> QED BY <1>1, StoreSafe, PTL DEF Spec, RecordNeverLost

(* The generation a boot finds never goes back, so a load never returns a  *)
(* record older than one an earlier load could return.                     *)
THEOREM NeverFalls == Spec => GenerationNeverFalls
<1>1. ASSUME StoreInv, [Next]_vars
      PROVE  [pc # "erase" => ScanGeneration(dHalf, dCommit)'
                                >= ScanGeneration(dHalf, dCommit)]_vars
  <2>1. CASE EraseChip BY <2>1 DEF EraseChip
  <2>2. CASE ~EraseChip BY <1>1, <2>2, Published
  <2> QED BY <2>1, <2>2
<1> QED BY <1>1, StoreSafe, PTL DEF Spec, GenerationNeverFalls

-----------------------------------------------------------------------------
(* The store implements the atomic record: it changes only by the value    *)
(* being saved, and success is reported only when a boot would find it     *)
(* (save(), the reopen check and finish() of transaction()).               *)
THEOREM StoreImplementsRecord == Spec => ImplementsRecord
<1>1. Init => Record!Init
  <2> SUFFICES ASSUME Init PROVE Record!Init
    OBVIOUS
  <2>1. \A s \in Slots : dCommit[s].kind # "commit"
    BY DEF Init, BlankCommit
  <2>2. Stored = NoValue
    BY <2>1, NothingLoaded DEF Stored
  <2>3. op = "none" /\ input = NoValue /\ result = "None"
    BY DEF Init
  <2> QED BY <2>2, <2>3 DEF Record!Init
<1>2. ASSUME StoreInv, [Next]_vars
      PROVE  [Record!Next]_(Record!vars)
  <2> USE StoreInv DEF StoreInv
  <2>t. TypeOK /\ TypeOK' /\ NoValue \notin Values
    BY <1>2, TypeStep, NandStoreAssumption
  <2>1. ASSUME NEW v \in Values, BeginSave(v) PROVE Record!Begin(v)
    BY <2>1, <2>t DEF BeginSave, media, Stored, Record!Begin, TypeOK
  <2>2. CASE BeginFormat
    <3>1. input = NoValue /\ input' = NoValue
      BY <2>2, <2>t DEF BeginFormat, TypeOK, locals
    <3> QED BY <2>2, <2>t, <3>1 DEF BeginFormat, media, Stored, Record!Begin, Record!Next, TypeOK
  <2>3. CASE EraseChip
    <3>1. \A s \in Slots : dCommit'[s].kind # "commit"
      BY <2>3 DEF EraseChip, BlankCommit
    <3>2. Stored' = NoValue
      BY <3>1, NothingLoaded DEF Stored
    <3>3. op = "format" /\ op' = op /\ input = NoValue /\ input' = input /\ result' = result
      BY <2>3, <2>t DEF EraseChip, TypeOK, FormatPhases, locals
    <3> QED BY <3>2, <3>3 DEF Record!Next, Record!Commit
  \* A step within a transaction publishes its request or nothing.
  <2>4. ASSUME ~EraseChip, op' = op, input' = input, result' = result
        PROVE  Record!Commit \/ UNCHANGED Record!vars
    BY <2>4, <1>2, <2>t, Published DEF Record!Commit, Record!vars, TypeOK
  <2>5. ASSUME media' = media, op' = "none", input' = NoValue, result' # "Ok"
        PROVE  Record!Fail
    BY <2>5 DEF Record!Fail, media, Stored
  <2>6. CASE OpenError \/ RefuseSave
    <3>1. media' = media /\ op' = "none" /\ input' = NoValue
      BY <2>6, <2>t DEF OpenError, RefuseSave, TypeOK, locals
    <3>2. result' # "Ok"
      BY <2>6 DEF OpenError, RefuseSave, ScanCode
    <3> QED BY <2>5, <3>1, <3>2 DEF Record!Next
  <2>7. ASSUME NEW closed \in BOOLEAN, Finish(closed)
        PROVE  Record!Succeed \/ Record!Fail
    <3>0. media' = media /\ op' = "none" /\ op # "none" /\ input' = NoValue
      BY <2>7, <2>t DEF Finish, TypeOK
    <3>1. CASE result' = "Ok"
      <4>1. pc = "complete"
        BY <2>7, <3>1 DEF Finish
      <4>2. Stored = input
        BY <4>1 DEF Pending
      <4> QED BY <3>0, <3>1, <4>2 DEF Record!Succeed, media, Stored
    <3>2. CASE result' # "Ok"
      BY <2>5, <3>0, <3>2
    <3> QED BY <3>1, <3>2
  <2>8. CASE PowerCut
    BY <2>5, <2>8 DEF PowerCut, Record!Next
  <2>9. \/ \E v \in Values : BeginSave(v)
        \/ BeginFormat \/ EraseChip \/ OpenError \/ RefuseSave \/ PowerCut
        \/ \E closed \in BOOLEAN : Finish(closed)
        \/ op' = op /\ input' = input /\ result' = result
    <3> USE DEF live, media, locals
    <3>3. CASE \E i \in Halves : WritePayload(i) BY <3>3 DEF WritePayload
    <3>4. CASE PayloadSync BY <3>4 DEF PayloadSync, Sync
    <3>5. CASE VerifyPayload BY <3>5 DEF VerifyPayload
    <3>6. CASE WriteCommit BY <3>6 DEF WriteCommit
    <3>7. CASE CommitSync BY <3>7 DEF CommitSync, Sync
    <3>8. CASE VerifyCommit BY <3>8 DEF VerifyCommit
    <3>9. CASE Reopen BY <3>9 DEF Reopen
    <3>10. CASE Recheck BY <3>10 DEF Recheck
    <3>12. CASE \E i \in Copies : WriteMarker(i) BY <3>12 DEF WriteMarker
    <3>13. CASE MarkerSync BY <3>13 DEF MarkerSync, Sync
    <3>14. CASE VerifyMarkers BY <3>14 DEF VerifyMarkers
    <3>15. CASE IoError BY <3>15 DEF IoError
    <3>16. CASE TornWrite BY <3>16 DEF TornWrite
    <3>17. CASE Checkpoint BY <3>17 DEF Checkpoint
    <3>20. CASE UNCHANGED vars BY <3>20 DEF vars
    <3> QED
      BY <1>2, <3>3, <3>4, <3>5, <3>6, <3>7, <3>8, <3>9, <3>10,
         <3>12, <3>13, <3>14, <3>15, <3>16, <3>17, <3>20
      DEF Next
  <2> QED
    BY <2>1, <2>2, <2>3, <2>4, <2>6, <2>7, <2>8, <2>9 DEF Record!Next
<1> QED BY <1>1, <1>2, StoreSafe, PTL DEF Spec, ImplementsRecord, Record!Spec

\* what the events of the input are, and which queue each goes through
InputEvents == [control : Controls \cup {"dial", "none"}, on : BOOLEAN, gen : Nat, repeat : Nat]
InputType ==
  /\ link \in [up : BOOLEAN, ready : BOOLEAN, gen : Nat, idle : BOOLEAN]
  /\ controls \in SUBSET Controls /\ host \in SUBSET Controls
  /\ ui \in InputEvents /\ carrier \in InputEvents /\ batch \in InputEvents
  /\ queue \in [critical : Seq(InputEvents), normal : Seq(InputEvents), stick : Seq(InputEvents)]
  /\ tries \in Nat /\ resetting \in BOOLEAN /\ notified \in BOOLEAN /\ waiting \in BOOLEAN /\ idled \in BOOLEAN
Single(e) == (e.control = "press" => e.repeat <= 1) /\ (e.control = "dial" => ~e.on)
InputSorted ==
  /\ \A i \in 1 .. Len(queue.critical) : queue.critical[i].control = "key" \/ Input!Neutral(queue.critical[i])
  /\ \A i \in 1 .. Len(queue.normal) : queue.normal[i].control \in {"press", "dial"} /\ Single(queue.normal[i])
  /\ \A i \in 1 .. Len(queue.stick) : queue.stick[i].control = "stick" /\ queue.stick[i].on
  /\ Len(queue.critical) <= CriticalDepth /\ Len(queue.normal) <= NormalDepth /\ Len(queue.stick) <= 1
  /\ ui # Input!None => ui.control \in Controls \cup {"dial"}
  /\ resetting => Input!Neutral(ui) /\ queue.stick = <<>>
  /\ Single(ui) /\ Single(carrier) /\ Single(batch)
  /\ carrier # Input!None => carrier.control # "none"
  /\ batch # Input!None => batch.control \in {"press", "dial"}
  /\ batch # Input!None => batch.control = "dial" \/ batch = carrier
  /\ waiting => carrier = Input!None

\* an event is of this connection only while it is ready
Known(e, g, ready) == e.control # "none" => e.gen <= g /\ (e.gen = g => ready)
InputKnown ==
  /\ Known(ui, link.gen, link.ready) /\ Known(carrier, link.gen, link.ready) /\ Known(batch, link.gen, link.ready)
  /\ \A i \in 1 .. Len(queue.critical) : Known(queue.critical[i], link.gen, link.ready)
  /\ \A i \in 1 .. Len(queue.normal) : Known(queue.normal[i], link.gen, link.ready)
  /\ \A i \in 1 .. Len(queue.stick) : Known(queue.stick[i], link.gen, link.ready)
  /\ link.ready => link.up
  /\ ~link.ready => host = {}
  /\ link.idle => idled

\* the last that is under way of a control, in the order the worker sends, is its release
Mine(e, c, g) == e.control = c /\ e.gen = g
NoneIn(s, c, g) == \A i \in 1 .. Len(s) : ~Mine(s[i], c, g)
EndsOff(s, c, g) == \E i \in 1 .. Len(s) : ~s[i].on /\ Mine(s[i], c, g) /\ \A j \in 1 .. Len(s) : j > i => ~Mine(s[j], c, g)
Released(u, q, w, h, c, g) ==
  IF Mine(u, c, g) THEN ~u.on
  ELSE /\ NoneIn(q.stick, c, g)
       /\ IF ~NoneIn(q.critical, c, g) THEN EndsOff(q.critical, c, g)
          ELSE IF ~NoneIn(q.normal, c, g) THEN EndsOff(q.normal, c, g)
          ELSE IF Mine(w, c, g) THEN ~w.on ELSE c \notin h
InputFollowed ==
  link.ready /\ ~idled => \A c \in Controls : c \in controls \/ Released(ui, queue, carrier, host, c, link.gen)
\* a worker that sleeps has nothing to send, or is told
Empties(q, g) == \A c \in Controls : NoneIn(q.critical, c, g) /\ NoneIn(q.normal, c, g) /\ NoneIn(q.stick, c, g)
InputTold == waiting /\ ~notified /\ link.ready => Empties(queue, link.gen)

InputInv == InputType /\ InputSorted /\ InputKnown /\ InputFollowed /\ InputTold
\* what a queue is after its first event is taken, and after one is put in
LEMMA InputTail ==
  ASSUME NEW s \in Seq(InputEvents), s # <<>>
  PROVE /\ Head(s) \in InputEvents /\ Head(s) = s[1] /\ 1 \in 1 .. Len(s) /\ Tail(s) \in Seq(InputEvents)
        /\ Len(Tail(s)) = Len(s) - 1 /\ Len(s) \in Nat
        /\ \A i \in 1 .. Len(Tail(s)) : i + 1 \in 1 .. Len(s) /\ Tail(s)[i] = s[i + 1]
  OBVIOUS

LEMMA InputTaken ==
  ASSUME NEW s \in Seq(InputEvents), s # <<>>, NEW c, NEW g
  PROVE /\ NoneIn(s, c, g) => NoneIn(Tail(s), c, g) /\ ~Mine(Head(s), c, g)
        /\ ~Mine(Head(s), c, g) /\ NoneIn(Tail(s), c, g) => NoneIn(s, c, g)
        /\ EndsOff(s, c, g) => IF NoneIn(Tail(s), c, g) THEN Mine(Head(s), c, g) /\ ~Head(s).on ELSE EndsOff(Tail(s), c, g)
<1> DEFINE t == Tail(s)
           e == Head(s)
<1>1. /\ e = s[1] /\ 1 \in 1 .. Len(s) /\ Len(t) = Len(s) - 1 /\ Len(s) \in Nat
      /\ \A i \in 1 .. Len(t) : i + 1 \in 1 .. Len(s) /\ t[i] = s[i + 1]
  BY InputTail
<1> HIDE DEF t, e
<1>2. NoneIn(s, c, g) => NoneIn(t, c, g) /\ ~Mine(e, c, g)
  BY <1>1 DEF NoneIn
<1>3. \A k \in 1 .. Len(s) : k = 1 \/ (k - 1 \in 1 .. Len(t) /\ t[k - 1] = s[k])
  BY <1>1
<1>4. ~Mine(e, c, g) /\ NoneIn(t, c, g) => NoneIn(s, c, g)
  BY <1>1, <1>3 DEF NoneIn
<1>5. ASSUME EndsOff(s, c, g)
      PROVE  IF NoneIn(t, c, g) THEN Mine(e, c, g) /\ ~e.on ELSE EndsOff(t, c, g)
  <2>1. PICK i \in 1 .. Len(s) : ~s[i].on /\ Mine(s[i], c, g) /\ \A j \in 1 .. Len(s) : j > i => ~Mine(s[j], c, g)
    BY <1>5 DEF EndsOff
  <2>2. ASSUME i = 1 PROVE NoneIn(t, c, g) /\ Mine(e, c, g) /\ ~e.on
    <3>1. \A j \in 1 .. Len(t) : ~Mine(t[j], c, g)
      BY <1>1, <2>1, <2>2
    <3>2. QED BY <1>1, <2>1, <2>2, <3>1 DEF NoneIn
  <2>3. ASSUME i # 1 PROVE ~NoneIn(t, c, g) /\ EndsOff(t, c, g)
    <3>1. i - 1 \in 1 .. Len(t) /\ t[i - 1] = s[i]
      BY <1>3, <2>3
    <3>2. \A j \in 1 .. Len(t) : j > i - 1 => ~Mine(t[j], c, g)
      <4>1. TAKE j \in 1 .. Len(t)
      <4>2. HAVE j > i - 1
      <4>3. j + 1 \in 1 .. Len(s) /\ t[j] = s[j + 1] /\ j + 1 > i
        BY <1>1, <4>2
      <4>4. QED BY <2>1, <4>3
    <3>3. QED BY <2>1, <3>1, <3>2 DEF NoneIn, EndsOff
  <2>4. QED BY <2>2, <2>3
<1>6. QED BY <1>2, <1>4, <1>5 DEF t, e

LEMMA InputAppended ==
  ASSUME NEW s \in Seq(InputEvents), NEW e \in InputEvents, NEW c, NEW g
  PROVE /\ Append(s, e) \in Seq(InputEvents) /\ Len(Append(s, e)) = Len(s) + 1 /\ Len(s) \in Nat
        /\ \A i \in 1 .. Len(s) + 1 : Append(s, e)[i] = IF i = Len(s) + 1 THEN e ELSE s[i]
        /\ ~Mine(e, c, g) => /\ NoneIn(Append(s, e), c, g) <=> NoneIn(s, c, g)
                             /\ EndsOff(s, c, g) => EndsOff(Append(s, e), c, g)
        /\ Mine(e, c, g) => ~NoneIn(Append(s, e), c, g) /\ (~e.on => EndsOff(Append(s, e), c, g))
<1> DEFINE t == Append(s, e)
<1>1. /\ t \in Seq(InputEvents) /\ Len(t) = Len(s) + 1 /\ Len(s) \in Nat
      /\ \A i \in 1 .. Len(s) : t[i] = s[i]
      /\ t[Len(s) + 1] = e
  BY AppendProperties
<1> HIDE DEF t
<1>2. \A i \in 1 .. Len(t) : i \in 1 .. Len(s) \/ i = Len(s) + 1
  BY <1>1
<1>3. \A i \in 1 .. Len(s) + 1 : t[i] = IF i = Len(s) + 1 THEN e ELSE s[i]
  BY <1>1
<1>4. Len(s) + 1 \in 1 .. Len(t) /\ \A i \in 1 .. Len(s) : i \in 1 .. Len(t)
  BY <1>1
<1>5. ASSUME ~Mine(e, c, g) PROVE NoneIn(t, c, g) <=> NoneIn(s, c, g)
  BY <1>1, <1>2, <1>4, <1>5 DEF NoneIn
<1>6. ASSUME ~Mine(e, c, g), EndsOff(s, c, g) PROVE EndsOff(t, c, g)
  <2>1. PICK i \in 1 .. Len(s) : ~s[i].on /\ Mine(s[i], c, g) /\ \A j \in 1 .. Len(s) : j > i => ~Mine(s[j], c, g)
    BY <1>6 DEF EndsOff
  <2>2. \A j \in 1 .. Len(t) : j > i => ~Mine(t[j], c, g)
    BY <1>1, <1>2, <1>6, <2>1
  <2>3. QED BY <1>1, <1>4, <2>1, <2>2 DEF EndsOff
<1>7. ASSUME Mine(e, c, g) PROVE ~NoneIn(t, c, g)
  BY <1>1, <1>4, <1>7 DEF NoneIn
<1>8. ASSUME Mine(e, c, g), ~e.on PROVE EndsOff(t, c, g)
  <2>1. \A j \in 1 .. Len(t) : ~(j > Len(s) + 1)
    BY <1>1
  <2>2. QED BY <1>1, <1>4, <1>8, <2>1 DEF EndsOff
<1>9. QED BY <1>1, <1>3, <1>5, <1>6, <1>7, <1>8 DEF t

LEMMA InputNone == /\ Input!None \in InputEvents /\ Input!None.control = "none" /\ Single(Input!None) /\ Len(<<>>) = 0 /\ ~Input!Neutral(Input!None)
                   /\ \A c \in Controls, g \in Nat : c \in {"key", "stick", "press"} /\ ~Mine(Input!None, c, g) /\ NoneIn(<<>>, c, g)
                   /\ \A g \in Nat, r \in BOOLEAN : Known(Input!None, g, r)
BY InputConstants DEF Input!None, InputEvents, Mine, NoneIn, Known, Input!Neutral, Single

LEMMA InputBegins == ASSUME Input!Init PROVE InputInv
<1>1. /\ link = [up |-> FALSE, ready |-> FALSE, gen |-> 0, idle |-> FALSE] /\ controls = {} /\ host = {}
      /\ ui = Input!None /\ carrier = Input!None /\ batch = Input!None /\ resetting = FALSE /\ tries = 0 /\ idled = FALSE
      /\ queue = [critical |-> <<>>, normal |-> <<>>, stick |-> <<>>] /\ notified = FALSE /\ waiting = TRUE
  BY DEF Input!Init
<1>7. /\ queue \in [critical : Seq(InputEvents), normal : Seq(InputEvents), stick : Seq(InputEvents)]
      /\ queue.critical = <<>> /\ queue.normal = <<>> /\ queue.stick = <<>>
      /\ link \in [up : BOOLEAN, ready : BOOLEAN, gen : Nat, idle : BOOLEAN] /\ link.gen = 0 /\ ~link.ready /\ ~link.idle
  BY <1>1
<1>2. InputType
  BY <1>1, <1>7, InputNone DEF InputType
<1>3. InputSorted
  BY <1>1, InputNone, InputConstants DEF InputSorted
<1>4. InputKnown
  <2>1. Known(Input!None, link.gen, link.ready)
    BY <1>7, InputNone DEF Known
  <2>2. 1 .. Len(queue.critical) = {} /\ 1 .. Len(queue.normal) = {} /\ 1 .. Len(queue.stick) = {}
    BY <1>7, InputNone
  <2>3. QED BY <1>1, <1>7, <2>1, <2>2 DEF InputKnown
<1>5. InputFollowed /\ InputTold
  BY <1>1 DEF InputFollowed, InputTold
<1>6. QED BY <1>2, <1>3, <1>4, <1>5 DEF InputInv

LEMMA InputRestarts == ASSUME InputInv, Input!Restart PROVE InputInv'
<1>1. /\ link' = [link EXCEPT !.up = FALSE, !.ready = FALSE] /\ controls' = controls /\ host' = {}
      /\ ui' = Input!None /\ carrier' = Input!None /\ batch' = Input!None /\ resetting' = FALSE /\ tries' = 0 /\ idled' = idled
      /\ queue' = [critical |-> <<>>, normal |-> <<>>, stick |-> <<>>] /\ notified' = FALSE /\ waiting' = TRUE
  BY DEF Input!Restart
<1>2. /\ link \in [up : BOOLEAN, ready : BOOLEAN, gen : Nat, idle : BOOLEAN] /\ controls \in SUBSET Controls /\ idled \in BOOLEAN
      /\ (link.idle => idled)
  BY DEF InputInv, InputType, InputKnown
<1>3. link' \in [up : BOOLEAN, ready : BOOLEAN, gen : Nat, idle : BOOLEAN] /\ link'.gen = link.gen /\ ~link'.ready /\ link'.idle = link.idle
  BY <1>1, <1>2
<1>9. /\ queue' \in [critical : Seq(InputEvents), normal : Seq(InputEvents), stick : Seq(InputEvents)]
      /\ queue'.critical = <<>> /\ queue'.normal = <<>> /\ queue'.stick = <<>>
  BY <1>1
<1>4. InputType'
  BY <1>1, <1>2, <1>3, <1>9, InputNone DEF InputType
<1>5. InputSorted'
  BY <1>1, InputNone, InputConstants DEF InputSorted
<1>6. InputKnown'
  <2>1. Known(Input!None, link'.gen, link'.ready)
    BY InputNone DEF Known
  <2>2. 1 .. Len(queue'.critical) = {} /\ 1 .. Len(queue'.normal) = {} /\ 1 .. Len(queue'.stick) = {}
    BY <1>9, InputNone
  <2>3. QED BY <1>1, <1>2, <1>3, <2>1, <2>2 DEF InputKnown
<1>7. InputFollowed' /\ InputTold'
  BY <1>3 DEF InputFollowed, InputTold
<1>8. QED BY <1>4, <1>5, <1>6, <1>7 DEF InputInv

LEMMA InputMoves == ASSUME InputInv, NEW c \in Controls \cup {"dial"}, NEW n \in Nat, c \in Controls => n = 1, Input!Move(c, n) PROVE InputInv'
<1>1. /\ ui = Input!None /\ link' = link /\ resetting' = resetting /\ queue' = queue /\ carrier' = carrier /\ tries' = tries
      /\ batch' = batch /\ waiting' = waiting /\ notified' = notified /\ host' = host /\ idled' = idled
      /\ controls' = IF c = "dial" THEN controls ELSE IF c \in controls THEN controls \ {c} ELSE controls \union {c}
      /\ ui' = IF ~link.idle /\ link.ready THEN [control |-> c, on |-> c \in controls', gen |-> link.gen, repeat |-> n] ELSE Input!None
  BY DEF Input!Move, Input!sending
<1>2. link \in [up : BOOLEAN, ready : BOOLEAN, gen : Nat, idle : BOOLEAN] /\ controls \in SUBSET Controls
  BY DEF InputInv, InputType
<1>3. controls' \in SUBSET Controls /\ \A d \in Controls : d # c => (d \in controls' <=> d \in controls)
  BY <1>1, <1>2, InputConstants
<1>4. /\ ui' \in InputEvents /\ Single(ui') /\ (ui' # Input!None => ui'.control \in Controls \cup {"dial"}) /\ Known(ui', link.gen, link.ready)
      /\ (ui' = Input!None \/ (ui'.control = c /\ ui'.gen = link.gen /\ (ui'.on <=> c \in controls')))
  <2>1. CASE ~link.idle /\ link.ready
    <3>1. (c \in controls') \in BOOLEAN
      OBVIOUS
    <3>2. ui' = [control |-> c, on |-> c \in controls', gen |-> link.gen, repeat |-> n]
      BY <1>1, <2>1
    <3>3. c = "dial" => ~(c \in controls')
      BY <1>3, InputConstants
    <3>4. QED BY <1>2, <2>1, <3>1, <3>2, <3>3, InputConstants DEF InputEvents, Known, Single
  <2>2. CASE ~(~link.idle /\ link.ready)
    <3>1. ui' = Input!None
      BY <1>1, <2>2
    <3>2. QED BY <1>2, <3>1, InputNone
  <2>3. QED BY <2>1, <2>2
<1>5. InputType'
  BY <1>1, <1>3, <1>4 DEF InputInv, InputType
<1>6. ~resetting
  BY <1>1, InputNone DEF InputInv, InputSorted
<1>7. InputSorted'
  BY <1>1, <1>4, <1>6 DEF InputInv, InputSorted
<1>8. InputKnown'
  BY <1>1, <1>4 DEF InputInv, InputKnown
<1>9. InputFollowed'
  <2>1. SUFFICES ASSUME link.ready, ~idled, NEW d \in Controls
                 PROVE  d \in controls' \/ Released(ui', queue, carrier, host, d, link.gen)
    BY <1>1 DEF InputFollowed
  <2>2. d \in controls \/ Released(ui, queue, carrier, host, d, link.gen)
    BY <2>1 DEF InputInv, InputFollowed
  <2>3. ui' # Input!None
    BY <1>1, <1>2, <2>1, InputNone, InputConstants DEF InputInv, InputKnown, Input!None
  <2>4. CASE d = c
    BY <1>4, <2>3, <2>4 DEF Released, Mine
  <2>5. CASE d # c
    <3>1. ~Mine(ui, d, link.gen) /\ ~Mine(ui', d, link.gen)
      BY <1>1, <1>2, <1>4, <2>3, <2>5, InputNone DEF Mine
    <3>2. QED BY <1>3, <2>2, <2>5, <3>1 DEF Released
  <2>6. QED BY <2>4, <2>5
<1>10. InputTold'
  BY <1>1 DEF InputInv, InputTold
<1>11. QED BY <1>5, <1>7, <1>8, <1>9, <1>10 DEF InputInv

LEMMA InputResets == ASSUME InputInv, Input!ResetStick PROVE InputInv'
<1>1. /\ Input!Neutral(ui) /\ resetting' = TRUE /\ queue' = [queue EXCEPT !.stick = <<>>] /\ link' = link /\ controls' = controls /\ ui' = ui
      /\ carrier' = carrier /\ tries' = tries /\ batch' = batch /\ waiting' = waiting /\ notified' = notified /\ host' = host /\ idled' = idled
  BY DEF Input!ResetStick, Input!sending
<1>2. queue \in [critical : Seq(InputEvents), normal : Seq(InputEvents), stick : Seq(InputEvents)] /\ link.gen \in Nat
      /\ <<>> \in Seq(InputEvents)
  BY DEF InputInv, InputType
<1>3. /\ queue' \in [critical : Seq(InputEvents), normal : Seq(InputEvents), stick : Seq(InputEvents)]
      /\ queue'.critical = queue.critical /\ queue'.normal = queue.normal /\ queue'.stick = <<>>
  BY <1>1, <1>2
<1>4. InputType'
  BY <1>1, <1>3 DEF InputInv, InputType
<1>5. InputSorted'
  BY <1>1, <1>3, InputNone DEF InputInv, InputSorted
<1>6. InputKnown'
  BY <1>1, <1>3, InputNone DEF InputInv, InputKnown
<1>7. InputFollowed'
  <2>1. SUFFICES ASSUME link.ready, ~idled, NEW d \in Controls
                 PROVE  d \in controls \/ Released(ui, queue', carrier, host, d, link.gen)
    BY <1>1 DEF InputFollowed
  <2>2. d \in controls \/ Released(ui, queue, carrier, host, d, link.gen)
    BY <2>1 DEF InputInv, InputFollowed
  <2>3. NoneIn(<<>>, d, link.gen)
    BY <1>2, InputNone
  <2>4. QED BY <1>3, <2>2, <2>3 DEF Released
<1>8. InputTold'
  BY <1>1, <1>2, <1>3, InputNone DEF InputInv, InputTold, Empties
<1>9. QED BY <1>4, <1>5, <1>6, <1>7, <1>8 DEF InputInv

LEMMA InputEnqueued == ASSUME InputInv, Input!Enqueue PROVE InputInv'
<1>1. /\ ui # Input!None /\ (Input!Neutral(ui) => resetting) /\ Input!Fits(ui)
      /\ queue' = [queue EXCEPT ![Input!Queue(ui)] = IF Input!Queue(ui) = "stick" THEN <<ui>> ELSE Append(@, ui)]
      /\ ui' = Input!None /\ resetting' = FALSE /\ notified' = TRUE /\ link' = link /\ controls' = controls
      /\ carrier' = carrier /\ tries' = tries /\ batch' = batch /\ waiting' = waiting /\ host' = host /\ idled' = idled
  BY DEF Input!Enqueue, Input!sending
<1>2. /\ queue \in [critical : Seq(InputEvents), normal : Seq(InputEvents), stick : Seq(InputEvents)]
      /\ queue.critical \in Seq(InputEvents) /\ queue.normal \in Seq(InputEvents) /\ queue.stick \in Seq(InputEvents)
      /\ link.gen \in Nat /\ link.ready \in BOOLEAN /\ ui \in InputEvents /\ ui.on \in BOOLEAN /\ ui.control \in Controls \cup {"dial"}
  BY <1>1 DEF InputInv, InputType, InputSorted, InputEvents
<1>3. ui.control \in {"key", "stick", "press", "dial"}
  BY <1>2, InputConstants
<1>4. /\ Known(ui, link.gen, link.ready) /\ Single(ui)
      /\ \A i \in 1 .. Len(queue.critical) : Known(queue.critical[i], link.gen, link.ready) /\ (queue.critical[i].control = "key" \/ Input!Neutral(queue.critical[i]))
      /\ \A i \in 1 .. Len(queue.normal) : Known(queue.normal[i], link.gen, link.ready) /\ queue.normal[i].control \in {"press", "dial"} /\ Single(queue.normal[i])
      /\ \A i \in 1 .. Len(queue.stick) : Known(queue.stick[i], link.gen, link.ready) /\ queue.stick[i].control = "stick"
      /\ Len(queue.critical) <= CriticalDepth /\ Len(queue.normal) <= NormalDepth /\ Len(queue.stick) <= 1
  BY DEF InputInv, InputKnown, InputSorted
<1>5. \A d \in Controls : d \in {"key", "stick", "press"} /\ ~Mine(Input!None, d, link.gen)
  BY <1>2, InputNone
<1>6. ASSUME queue' \in [critical : Seq(InputEvents), normal : Seq(InputEvents), stick : Seq(InputEvents)],
             \A i \in 1 .. Len(queue'.critical) : Known(queue'.critical[i], link.gen, link.ready) /\ (queue'.critical[i].control = "key" \/ Input!Neutral(queue'.critical[i])),
             \A i \in 1 .. Len(queue'.normal) : Known(queue'.normal[i], link.gen, link.ready) /\ queue'.normal[i].control \in {"press", "dial"} /\ Single(queue'.normal[i]),
             \A i \in 1 .. Len(queue'.stick) : Known(queue'.stick[i], link.gen, link.ready) /\ queue'.stick[i].control = "stick" /\ queue'.stick[i].on,
             Len(queue'.critical) <= CriticalDepth, Len(queue'.normal) <= NormalDepth, Len(queue'.stick) <= 1,
             \A d \in Controls : link.ready /\ ~idled /\ d \notin controls /\ Released(ui, queue, carrier, host, d, link.gen)
                => Released(Input!None, queue', carrier, host, d, link.gen)
      PROVE  InputInv'
  <2>1. InputType'
    BY <1>1, <1>6, InputNone DEF InputInv, InputType
  <2>2. InputSorted'
    BY <1>1, <1>6, InputNone DEF InputInv, InputSorted
  <2>3. InputKnown'
    BY <1>1, <1>2, <1>6, InputNone DEF InputInv, InputKnown
  <2>4. InputFollowed'
    <3>1. SUFFICES ASSUME link.ready, ~idled, NEW d \in Controls
                   PROVE  d \in controls \/ Released(Input!None, queue', carrier, host, d, link.gen)
      BY <1>1 DEF InputFollowed
    <3>2. d \in controls \/ Released(ui, queue, carrier, host, d, link.gen)
      BY <3>1 DEF InputInv, InputFollowed
    <3>3. QED BY <1>6, <3>1, <3>2
  <2>5. InputTold'
    BY <1>1 DEF InputTold
  <2>6. QED BY <2>1, <2>2, <2>3, <2>4, <2>5 DEF InputInv
<1>7. CASE Input!Queue(ui) = "stick"
  <2>1. ui.control = "stick" /\ ui.on
    BY <1>2, <1>3, <1>7 DEF Input!Queue, Input!Neutral
  <2>2. queue' = [queue EXCEPT !.stick = <<ui>>]
    BY <1>1, <1>7
  <2>3. <<ui>> \in Seq(InputEvents) /\ Len(<<ui>>) = 1 /\ \A i \in 1 .. 1 : <<ui>>[i] = ui
    BY <1>2
  <2> DEFINE one == <<ui>>
  <2> HIDE DEF one
  <2>4. /\ queue' \in [critical : Seq(InputEvents), normal : Seq(InputEvents), stick : Seq(InputEvents)]
        /\ queue'.critical = queue.critical /\ queue'.normal = queue.normal /\ queue'.stick = one
    BY <1>2, <2>2, <2>3 DEF one
  <2>5. one \in Seq(InputEvents) /\ Len(one) = 1 /\ \A i \in 1 .. Len(one) : one[i] = ui
    BY <2>3 DEF one
  <2>6. ASSUME NEW d \in Controls, d \notin controls, link.ready, ~idled, Released(ui, queue, carrier, host, d, link.gen)
        PROVE  Released(Input!None, queue', carrier, host, d, link.gen)
    <3>1. ~Mine(ui, d, link.gen)
      BY <2>1, <2>6 DEF Released
    <3>2. NoneIn(one, d, link.gen)
      BY <2>5, <3>1 DEF NoneIn
    <3>3. QED BY <1>5, <2>4, <2>6, <3>1, <3>2 DEF Released
  <2>7. QED BY <1>4, <1>6, <2>1, <2>4, <2>5, <2>6
<1>8. CASE Input!Queue(ui) = "critical"
  <2>1. ui.control = "key" \/ Input!Neutral(ui)
    BY <1>8 DEF Input!Queue
  <2> DEFINE s == queue.critical
             t == Append(s, ui)
  <2>2. queue' = [queue EXCEPT !.critical = t]
    BY <1>1, <1>8
  <2>3. /\ t \in Seq(InputEvents) /\ Len(t) = Len(s) + 1 /\ Len(s) \in Nat
        /\ \A i \in 1 .. Len(s) + 1 : t[i] = IF i = Len(s) + 1 THEN ui ELSE s[i]
        /\ \A d \in Controls : ~Mine(ui, d, link.gen) => /\ NoneIn(t, d, link.gen) <=> NoneIn(s, d, link.gen)
                                                         /\ EndsOff(s, d, link.gen) => EndsOff(t, d, link.gen)
        /\ \A d \in Controls : Mine(ui, d, link.gen) => ~NoneIn(t, d, link.gen) /\ (~ui.on => EndsOff(t, d, link.gen))
    BY <1>2, InputAppended
  <2> HIDE DEF t
  <2>4. /\ queue' \in [critical : Seq(InputEvents), normal : Seq(InputEvents), stick : Seq(InputEvents)]
        /\ queue'.critical = t /\ queue'.normal = queue.normal /\ queue'.stick = queue.stick
    BY <1>2, <2>2, <2>3
  <2>5. \A i \in 1 .. Len(t) : Known(t[i], link.gen, link.ready) /\ (t[i].control = "key" \/ Input!Neutral(t[i]))
    <3>1. TAKE i \in 1 .. Len(t)
    <3>2. CASE i = Len(s) + 1
      BY <1>4, <2>1, <2>3, <3>2
    <3>3. CASE i # Len(s) + 1
      <4>1. i \in 1 .. Len(s) /\ t[i] = s[i]
        BY <2>3, <3>3
      <4>2. QED BY <1>4, <4>1
    <3>4. QED BY <3>2, <3>3
  <2>6. Len(t) <= CriticalDepth
    BY <1>1, <1>8, <2>1, <2>3, InputConstants DEF Input!Fits, Input!Depth, Input!Rotation, Input!Neutral
  <2>7. \A i \in 1 .. Len(queue.stick) : queue.stick[i].on
    BY DEF InputInv, InputSorted
  <2>8. ASSUME NEW d \in Controls, d \notin controls, link.ready, ~idled, Released(ui, queue, carrier, host, d, link.gen)
        PROVE  Released(Input!None, queue', carrier, host, d, link.gen)
    <3>1. CASE Mine(ui, d, link.gen)
      <4>1. ~ui.on
        BY <2>8, <3>1 DEF Released
      <4>2. NoneIn(queue.stick, d, link.gen)
        <5>1. CASE Input!Neutral(ui)
          BY <1>1, <1>2, <5>1, InputNone DEF InputInv, InputSorted
        <5>2. CASE ui.control = "key"
          BY <1>4, <3>1, <5>2 DEF NoneIn, Mine
        <5>3. QED BY <2>1, <5>1, <5>2
      <4>3. QED BY <1>5, <2>3, <2>4, <3>1, <4>1, <4>2 DEF Released
    <3>2. CASE ~Mine(ui, d, link.gen)
      BY <1>5, <2>3, <2>4, <2>8, <3>2 DEF Released
    <3>3. QED BY <3>1, <3>2
  <2>9. QED BY <1>4, <1>6, <2>4, <2>5, <2>6, <2>7, <2>8
<1>9. CASE Input!Queue(ui) = "normal"
  <2>1. ui.control = "press" \/ ui.control = "dial"
    BY <1>3, <1>9 DEF Input!Queue
  <2> DEFINE s == queue.normal
             t == Append(s, ui)
  <2>2. queue' = [queue EXCEPT !.normal = t]
    BY <1>1, <1>9
  <2>3. /\ t \in Seq(InputEvents) /\ Len(t) = Len(s) + 1 /\ Len(s) \in Nat
        /\ \A i \in 1 .. Len(s) + 1 : t[i] = IF i = Len(s) + 1 THEN ui ELSE s[i]
        /\ \A d \in Controls : ~Mine(ui, d, link.gen) => /\ NoneIn(t, d, link.gen) <=> NoneIn(s, d, link.gen)
                                                         /\ EndsOff(s, d, link.gen) => EndsOff(t, d, link.gen)
        /\ \A d \in Controls : Mine(ui, d, link.gen) => ~NoneIn(t, d, link.gen) /\ (~ui.on => EndsOff(t, d, link.gen))
    BY <1>2, InputAppended
  <2> HIDE DEF t
  <2>4. /\ queue' \in [critical : Seq(InputEvents), normal : Seq(InputEvents), stick : Seq(InputEvents)]
        /\ queue'.normal = t /\ queue'.critical = queue.critical /\ queue'.stick = queue.stick
    BY <1>2, <2>2, <2>3
  <2>5. \A i \in 1 .. Len(t) : Known(t[i], link.gen, link.ready) /\ t[i].control \in {"press", "dial"} /\ Single(t[i])
    <3>1. TAKE i \in 1 .. Len(t)
    <3>2. CASE i = Len(s) + 1
      BY <1>4, <2>1, <2>3, <3>2
    <3>3. CASE i # Len(s) + 1
      <4>1. i \in 1 .. Len(s) /\ t[i] = s[i]
        BY <2>3, <3>3
      <4>2. QED BY <1>4, <4>1
    <3>4. QED BY <3>2, <3>3
  <2>6. Len(t) <= NormalDepth
    BY <1>1, <1>9, <2>1, <2>3, InputConstants DEF Input!Fits, Input!Depth
  <2>7. \A i \in 1 .. Len(queue.stick) : queue.stick[i].on
    BY DEF InputInv, InputSorted
  <2>8. ASSUME NEW d \in Controls, d \notin controls, link.ready, ~idled, Released(ui, queue, carrier, host, d, link.gen)
        PROVE  Released(Input!None, queue', carrier, host, d, link.gen)
    <3>1. CASE Mine(ui, d, link.gen)
      <4>1. ~ui.on /\ d = "press"
        BY <1>5, <2>1, <2>8, <3>1 DEF Released, Mine
      <4>2. NoneIn(queue.stick, d, link.gen) /\ NoneIn(queue.critical, d, link.gen)
        BY <1>4, <4>1 DEF NoneIn, Mine, Input!Neutral
      <4>3. QED BY <1>5, <2>3, <2>4, <3>1, <4>1, <4>2 DEF Released
    <3>2. CASE ~Mine(ui, d, link.gen)
      BY <1>5, <2>3, <2>4, <2>8, <3>2 DEF Released
    <3>3. QED BY <3>1, <3>2
  <2>9. QED BY <1>4, <1>6, <2>4, <2>5, <2>6, <2>7, <2>8
<1>10. QED BY <1>7, <1>8, <1>9 DEF Input!Queue

LEMMA InputRefuses == ASSUME InputInv, Input!EnqueueFails PROVE InputInv'
<1>1. CASE Input!MustPreserve(ui) /\ Input!Accepts(ui) /\ Input!Restart
  BY <1>1, InputRestarts
<1>2. CASE /\ ~(Input!MustPreserve(ui) /\ Input!Accepts(ui))
           /\ ui' = Input!None /\ resetting' = FALSE
           /\ UNCHANGED <<link, controls, queue, Input!sending, notified, host, idled>>
  <2>1. /\ ui # Input!None /\ ~Input!Fits(ui) /\ ui' = Input!None /\ resetting' = FALSE /\ link' = link /\ controls' = controls /\ queue' = queue
        /\ carrier' = carrier /\ tries' = tries /\ batch' = batch /\ waiting' = waiting /\ notified' = notified /\ host' = host /\ idled' = idled
    BY <1>2 DEF Input!EnqueueFails, Input!sending
  <2>2. InputType' /\ InputSorted'
    BY <2>1, InputNone DEF InputInv, InputType, InputSorted
  <2>3. InputKnown' /\ InputTold'
    BY <2>1, InputNone DEF InputInv, InputType, InputKnown, InputTold
  <2>4. InputFollowed'
    <3>1. SUFFICES ASSUME link.ready, ~idled, NEW d \in Controls, d \notin controls
                   PROVE  Released(Input!None, queue, carrier, host, d, link.gen)
      BY <2>1 DEF InputFollowed
    <3>2. Released(ui, queue, carrier, host, d, link.gen) /\ link.gen \in Nat
      BY <3>1 DEF InputInv, InputFollowed, InputType
    <3>3. ~link.idle /\ ui.on \in BOOLEAN
      BY <3>1 DEF InputInv, InputKnown, InputType, InputEvents
    <3>4. ~Mine(ui, d, link.gen)
      <4>1. SUFFICES ASSUME Mine(ui, d, link.gen) PROVE FALSE
        OBVIOUS
      <4>2. Input!Accepts(ui) /\ ui.control \in {"key", "stick", "press"}
        BY <3>1, <3>3, <4>1, InputConstants DEF Input!Accepts, Mine
      <4>3. ~Input!MustPreserve(ui)
        BY <1>2, <4>2
      <4>4. Input!Queue(ui) = "stick"
        BY <4>2, <4>3 DEF Input!MustPreserve, Input!Queue, Input!Neutral
      <4>5. QED BY <2>1, <4>4 DEF Input!Fits
    <3>5. QED BY <3>1, <3>2, <3>4, InputNone DEF Released
  <2>5. QED BY <2>2, <2>3, <2>4 DEF InputInv
<1>3. QED BY <1>1, <1>2 DEF Input!EnqueueFails

LEMMA InputWakes == ASSUME InputInv, Input!Wake PROVE InputInv'
<1>1. /\ waiting /\ waiting' = FALSE /\ notified' = FALSE /\ link' = link /\ controls' = controls /\ ui' = ui /\ resetting' = resetting
      /\ queue' = queue /\ carrier' = carrier /\ tries' = tries /\ batch' = batch /\ host' = host /\ idled' = idled
  BY DEF Input!Wake
<1>2. InputType' /\ InputSorted' /\ InputKnown' /\ InputFollowed' /\ InputTold'
  BY <1>1 DEF InputInv, InputType, InputSorted, InputKnown, InputFollowed, InputTold
<1>3. QED BY <1>2 DEF InputInv

\* the worker takes the first of a queue when the queues before it in the order are empty
LEMMA InputTakes ==
  ASSUME InputInv, ~waiting, waiting' = waiting, carrier = Input!None, NEW q \in {"critical", "normal", "stick"}, queue[q] # <<>>,
         q = "normal" => batch' = carrier', q # "normal" => batch' = batch,
         q = "normal" => queue.critical = <<>> /\ queue.stick = <<>>, q = "stick" => queue.critical = <<>>,
         Input!Pick(q)
  PROVE InputInv'
<1> DEFINE s == queue[q]
           t == Tail(s)
           e == Head(s)
<1>1. /\ carrier' = e /\ queue' = [queue EXCEPT ![q] = t] /\ tries' = 0 /\ link' = link /\ controls' = controls /\ ui' = ui
      /\ resetting' = resetting /\ notified' = notified /\ waiting' = waiting /\ host' = host /\ idled' = idled
  BY DEF Input!Pick
<1>2. /\ queue \in [critical : Seq(InputEvents), normal : Seq(InputEvents), stick : Seq(InputEvents)]
      /\ s \in Seq(InputEvents) /\ s # <<>> /\ link.gen \in Nat /\ link.ready \in BOOLEAN
  BY DEF InputInv, InputType
<1>3. /\ e \in InputEvents /\ e = s[1] /\ 1 \in 1 .. Len(s) /\ t \in Seq(InputEvents)
      /\ Len(t) = Len(s) - 1 /\ Len(s) \in Nat
      /\ \A i \in 1 .. Len(t) : i + 1 \in 1 .. Len(s) /\ t[i] = s[i + 1]
  BY <1>2, InputTail
<1>4. ASSUME NEW d \in Controls
      PROVE /\ NoneIn(s, d, link.gen) => NoneIn(t, d, link.gen) /\ ~Mine(e, d, link.gen)
            /\ ~Mine(e, d, link.gen) /\ NoneIn(t, d, link.gen) => NoneIn(s, d, link.gen)
            /\ EndsOff(s, d, link.gen) => IF NoneIn(t, d, link.gen) THEN Mine(e, d, link.gen) /\ ~e.on ELSE EndsOff(t, d, link.gen)
  BY <1>2, InputTaken
<1>5. \A d \in Controls : d \in {"key", "stick", "press"} /\ ~Mine(Input!None, d, link.gen) /\ NoneIn(<<>>, d, link.gen)
  BY <1>2, InputNone
<1> HIDE DEF t, e
<1>6. /\ Known(carrier, link.gen, link.ready) /\ \A i \in 1 .. Len(s) : Known(s[i], link.gen, link.ready)
  BY DEF InputInv, InputKnown
<1>7. Known(e, link.gen, link.ready) /\ \A i \in 1 .. Len(t) : Known(t[i], link.gen, link.ready)
  BY <1>3, <1>6
<1>8. CASE q = "critical"
  <2>1. /\ s = queue.critical /\ queue' = [queue EXCEPT !.critical = t]
    BY <1>1, <1>8
  <2>2. /\ queue' \in [critical : Seq(InputEvents), normal : Seq(InputEvents), stick : Seq(InputEvents)]
        /\ queue'.critical = t /\ queue'.normal = queue.normal /\ queue'.stick = queue.stick
    BY <1>2, <1>3, <2>1
  <2> HIDE DEF s
  <2>3. InputType'
    BY <1>1, <1>3, <1>8, <2>2 DEF InputInv, InputType
  <2>4. /\ \A i \in 1 .. Len(s) : s[i].control = "key" \/ Input!Neutral(s[i])
        /\ Len(s) <= CriticalDepth
    BY <2>1 DEF InputInv, InputSorted
  <2>5. (\A i \in 1 .. Len(t) : t[i].control = "key" \/ Input!Neutral(t[i])) /\ Len(t) <= CriticalDepth
        /\ (e.control = "key" \/ e.control = "stick") /\ Single(e)
    <3>1. \A i \in 1 .. Len(t) : t[i].control = "key" \/ Input!Neutral(t[i])
      BY <1>3, <2>4
    <3>2. Len(t) <= CriticalDepth
      BY <1>3, <2>4, InputConstants
    <3>3. (e.control = "key" \/ e.control = "stick") /\ Single(e)
      BY <1>3, <2>4 DEF Input!Neutral, Single
    <3>4. QED BY <3>1, <3>2, <3>3
  <2>6. InputSorted'
    BY <1>1, <1>8, <2>2, <2>5, InputNone DEF InputInv, InputSorted
  <2>7. InputKnown'
    BY <1>1, <1>7, <1>8, <2>2 DEF InputInv, InputKnown
  <2>8. InputTold'
    BY <1>1 DEF InputTold
  <2>9. InputFollowed'
    <3>1. SUFFICES ASSUME link.ready, ~idled, NEW d \in Controls, d \notin controls
                   PROVE  Released(ui, queue', e, host, d, link.gen)
      BY <1>1 DEF InputFollowed
    <3>2. Released(ui, queue, Input!None, host, d, link.gen)
      BY <3>1 DEF InputInv, InputFollowed
    <3>3. Mine(e, d, link.gen) => NoneIn(queue.normal, d, link.gen)
      BY <2>5 DEF InputInv, InputSorted, NoneIn, Mine
    <3>4. QED BY <1>4, <1>5, <2>1, <2>2, <3>2, <3>3 DEF Released
  <2>10. QED BY <2>3, <2>6, <2>7, <2>8, <2>9 DEF InputInv
<1>9. CASE q = "normal"
  <2>1. /\ s = queue.normal /\ queue' = [queue EXCEPT !.normal = t]
    BY <1>1, <1>9
  <2>2. /\ queue' \in [critical : Seq(InputEvents), normal : Seq(InputEvents), stick : Seq(InputEvents)]
        /\ queue'.normal = t /\ queue'.critical = queue.critical /\ queue'.stick = queue.stick
    BY <1>2, <1>3, <2>1
  <2> HIDE DEF s
  <2>3. InputType'
    BY <1>1, <1>3, <1>9, <2>2 DEF InputInv, InputType
  <2>4. /\ \A i \in 1 .. Len(s) : s[i].control \in {"press", "dial"} /\ Single(s[i])
        /\ Len(s) <= NormalDepth
    BY <2>1 DEF InputInv, InputSorted
  <2>5. (\A i \in 1 .. Len(t) : t[i].control \in {"press", "dial"} /\ Single(t[i])) /\ Len(t) <= NormalDepth /\ Single(e)
        /\ e.control \in {"press", "dial"}
    BY <1>3, <2>4, InputConstants
  <2>6. InputSorted'
    BY <1>1, <1>9, <2>2, <2>5, InputNone DEF InputInv, InputSorted
  <2>7. InputKnown'
    BY <1>1, <1>7, <1>9, <2>2 DEF InputInv, InputKnown
  <2>8. InputTold'
    BY <1>1 DEF InputTold
  <2>9. InputFollowed'
    <3>1. SUFFICES ASSUME link.ready, ~idled, NEW d \in Controls, d \notin controls
                   PROVE  Released(ui, queue', e, host, d, link.gen)
      BY <1>1 DEF InputFollowed
    <3>2. Released(ui, queue, Input!None, host, d, link.gen)
      BY <3>1 DEF InputInv, InputFollowed
    <3>3. QED BY <1>4, <1>5, <1>9, <2>1, <2>2, <3>2 DEF Released
  <2>10. QED BY <2>3, <2>6, <2>7, <2>8, <2>9 DEF InputInv
<1>10. CASE q = "stick"
  <2>1. /\ s = queue.stick /\ queue' = [queue EXCEPT !.stick = t]
    BY <1>1, <1>10
  <2>2. /\ queue' \in [critical : Seq(InputEvents), normal : Seq(InputEvents), stick : Seq(InputEvents)]
        /\ queue'.stick = t /\ queue'.critical = queue.critical /\ queue'.normal = queue.normal
    BY <1>2, <1>3, <2>1
  <2> HIDE DEF s
  <2>3. InputType'
    BY <1>1, <1>3, <1>10, <2>2 DEF InputInv, InputType
  <2>4. /\ \A i \in 1 .. Len(s) : s[i].control = "stick" /\ s[i].on
        /\ Len(s) <= 1
    BY <2>1 DEF InputInv, InputSorted
  <2>5. (\A i \in 1 .. Len(t) : t[i].control = "stick" /\ t[i].on) /\ Len(t) = 0 /\ ~resetting
        /\ e.control = "stick" /\ Single(e)
    <3>1. \A i \in 1 .. Len(t) : t[i].control = "stick" /\ t[i].on
      BY <1>3, <2>4
    <3>2. Len(t) = 0
      BY <1>3, <2>4
    <3>3. ~resetting
      BY <1>2, <2>1 DEF InputInv, InputSorted
    <3>4. e.control = "stick" /\ Single(e)
      BY <1>3, <2>4 DEF Single
    <3>5. QED BY <3>1, <3>2, <3>3, <3>4
  <2>6. InputSorted'
    BY <1>1, <1>10, <2>2, <2>5, InputNone DEF InputInv, InputSorted
  <2>7. InputKnown'
    BY <1>1, <1>7, <1>10, <2>2 DEF InputInv, InputKnown
  <2>8. InputTold'
    BY <1>1 DEF InputTold
  <2>9. InputFollowed'
    <3>1. SUFFICES ASSUME link.ready, ~idled, NEW d \in Controls, d \notin controls
                   PROVE  Released(ui, queue', e, host, d, link.gen)
      BY <1>1 DEF InputFollowed
    <3>2. Released(ui, queue, Input!None, host, d, link.gen)
      BY <3>1 DEF InputInv, InputFollowed
    <3>3. QED BY <1>4, <1>5, <2>1, <2>2, <3>2 DEF Released
  <2>10. QED BY <2>3, <2>6, <2>7, <2>8, <2>9 DEF InputInv
<1>11. QED BY <1>8, <1>9, <1>10

LEMMA InputTakesOne == ASSUME InputInv, Input!TakeCritical \/ Input!TakeStick \/ Input!TakeEncoder PROVE InputInv'
<1>1. CASE Input!TakeCritical
  <2>1. ~waiting /\ carrier = Input!None /\ queue["critical"] # <<>> /\ Input!Pick("critical") /\ batch' = batch
    BY <1>1 DEF Input!TakeCritical
  <2>2. waiting' = waiting
    BY <2>1 DEF Input!Pick
  <2>3. QED BY <2>1, <2>2, InputTakes
<1>2. CASE Input!TakeStick
  <2>1. ~waiting /\ carrier = Input!None /\ queue["stick"] # <<>> /\ Input!Pick("stick") /\ batch' = batch /\ queue.critical = <<>>
    BY <1>2 DEF Input!TakeStick
  <2>2. waiting' = waiting
    BY <2>1 DEF Input!Pick
  <2>3. QED BY <2>1, <2>2, InputTakes
<1>3. CASE Input!TakeEncoder /\ batch = Input!None
  <2>1. ~waiting /\ carrier = Input!None /\ queue["normal"] # <<>> /\ Input!Pick("normal") /\ batch' = Head(queue["normal"])
        /\ queue.critical = <<>> /\ queue.stick = <<>>
    BY <1>3 DEF Input!TakeEncoder
  <2>2. waiting' = waiting /\ batch' = carrier'
    BY <2>1 DEF Input!Pick
  <2>3. QED BY <2>1, <2>2, InputTakes
<1>4. CASE Input!TakeEncoder /\ batch # Input!None
  <2>1. /\ carrier = Input!None /\ carrier' = batch /\ tries' = 0 /\ link' = link /\ controls' = controls /\ ui' = ui /\ resetting' = resetting
        /\ ~waiting /\ queue' = queue /\ batch' = batch /\ notified' = notified /\ waiting' = waiting /\ host' = host /\ idled' = idled
    BY <1>4 DEF Input!TakeEncoder
  <2>2. batch.control = "dial"
    BY <1>4, <2>1 DEF InputInv, InputSorted
  <2>3. InputType' /\ InputSorted' /\ InputKnown' /\ InputTold'
    BY <2>1 DEF InputInv, InputType, InputSorted, InputKnown, InputTold
  <2>4. InputFollowed'
    <3>1. SUFFICES ASSUME link.ready, ~idled, NEW d \in Controls, d \notin controls
                   PROVE  Released(ui, queue, batch, host, d, link.gen)
      BY <2>1 DEF InputFollowed
    <3>2. Released(ui, queue, Input!None, host, d, link.gen) /\ link.gen \in Nat
      BY <2>1, <3>1 DEF InputInv, InputFollowed, InputType
    <3>3. ~Mine(batch, d, link.gen) /\ ~Mine(Input!None, d, link.gen)
      BY <2>2, <3>2, InputNone DEF Mine
    <3>4. QED BY <3>2, <3>3 DEF Released
  <2>5. QED BY <2>3, <2>4 DEF InputInv
<1>5. QED BY <1>1, <1>2, <1>3, <1>4

LEMMA InputRests == ASSUME InputInv, Input!Rest PROVE InputInv'
<1>1. /\ carrier = Input!None /\ waiting' = TRUE /\ batch' = (IF link.up THEN batch ELSE Input!None) /\ link' = link /\ controls' = controls /\ ui' = ui
      /\ resetting' = resetting /\ queue' = queue /\ carrier' = carrier /\ tries' = tries /\ notified' = notified
      /\ host' = host /\ idled' = idled
  BY DEF Input!Rest
<1>2. batch' = batch \/ batch' = Input!None
  BY <1>1
<1>3. InputType' /\ InputSorted'
  BY <1>1, <1>2, InputNone DEF InputInv, InputType, InputSorted
<1>4. InputKnown'
  <2>1. Known(batch', link.gen, link.ready)
    BY <1>2, InputNone DEF InputInv, InputKnown, Known
  <2>2. QED BY <1>1, <2>1 DEF InputInv, InputKnown
<1>5. InputFollowed'
  BY <1>1 DEF InputInv, InputFollowed
<1>6. InputTold'
  <2>1. SUFFICES ASSUME link.ready PROVE Empties(queue, link.gen)
    BY <1>1 DEF InputTold
  <2>2. queue.critical = <<>> /\ queue.stick = <<>> /\ queue.normal = <<>> /\ link.gen \in Nat
    BY <2>1 DEF Input!Rest, InputInv, InputKnown, InputType
  <2>3. QED BY <2>2, InputNone DEF Empties
<1>7. QED BY <1>3, <1>4, <1>5, <1>6 DEF InputInv

\* an event is done with: the host has it, or it was of no control that matters
LEMMA InputFinishes ==
  ASSUME InputInv, carrier # Input!None, Input!Finish, waiting' = waiting,
         UNCHANGED <<link, controls, ui, resetting, queue, notified, idled>>, host' \in SUBSET Controls,
         link.ready \/ host' = host,
         \A d \in Controls : (link.ready /\ ~idled) =>
            /\ ~Mine(carrier, d, link.gen) => (d \in host' => d \in host)
            /\ (Mine(carrier, d, link.gen) /\ ~carrier.on) => d \notin host'
  PROVE InputInv'
<1>1. /\ carrier' = Input!None /\ tries' = 0 /\ link' = link /\ controls' = controls /\ ui' = ui /\ resetting' = resetting /\ queue' = queue
      /\ notified' = notified /\ idled' = idled
      /\ batch' = IF batch = Input!None \/ carrier # batch THEN batch
                  ELSE IF batch.repeat > 1 /\ Input!Accepts(carrier) THEN [batch EXCEPT !.repeat = @ - 1] ELSE Input!None
  BY DEF Input!Finish
<1>2. batch \in InputEvents /\ Known(batch, link.gen, link.ready) /\ (batch # Input!None => batch.control = "dial" \/ batch = carrier)
      /\ Single(batch) /\ (batch # Input!None => batch.control \in {"press", "dial"})
  BY DEF InputInv, InputType, InputKnown, InputSorted
<1>3. batch' \in InputEvents /\ Known(batch', link.gen, link.ready) /\ Single(batch') /\ (batch' # Input!None => batch'.control = "dial")
  <2>1. CASE batch = Input!None \/ carrier # batch
    BY <1>1, <1>2, <2>1
  <2>2. CASE batch # Input!None /\ carrier = batch /\ batch.repeat > 1 /\ Input!Accepts(carrier)
    <3>1. batch' = [batch EXCEPT !.repeat = @ - 1] /\ batch.repeat \in Nat
      BY <1>1, <1>2, <2>2 DEF InputEvents
    <3> DEFINE left == batch.repeat - 1
    <3>2. batch' = [batch EXCEPT !.repeat = left] /\ left \in Nat /\ left <= batch.repeat
      BY <2>2, <3>1
    <3> HIDE DEF left
    <3>3. batch' \in InputEvents /\ batch'.control = batch.control /\ batch'.gen = batch.gen /\ batch'.repeat = left /\ batch'.on = batch.on
      BY <1>2, <3>2 DEF InputEvents
    <3>4. batch.control = "dial"
      <4>1. batch.control # "press"
        BY <1>2, <2>2, <3>1 DEF Single
      <4>2. QED BY <1>2, <2>2, <4>1
    <3>5. QED BY <1>2, <3>3, <3>4 DEF Known, Single
  <2>3. CASE batch # Input!None /\ carrier = batch /\ ~(batch.repeat > 1 /\ Input!Accepts(carrier))
    <3>1. batch' = Input!None
      BY <1>1, <2>3
    <3>2. QED BY <3>1, InputNone DEF Known
  <2>4. QED BY <2>1, <2>2, <2>3
<1>4. InputType' /\ InputSorted'
  BY <1>1, <1>3, InputNone DEF InputInv, InputType, InputSorted
<1>5. InputKnown'
  BY <1>1, <1>3, InputNone DEF InputInv, InputKnown, Known
<1>6. InputTold'
  BY <1>1 DEF InputInv, InputTold
<1>7. InputFollowed'
  <2>1. SUFFICES ASSUME link.ready, ~idled, NEW d \in Controls, d \notin controls
                 PROVE  Released(ui, queue, Input!None, host', d, link.gen)
    BY <1>1 DEF InputFollowed
  <2>2. Released(ui, queue, carrier, host, d, link.gen) /\ link.gen \in Nat
    BY <2>1 DEF InputInv, InputFollowed, InputType
  <2>3. ~Mine(Input!None, d, link.gen)
    BY <2>2, InputNone
  <2>4. (Mine(carrier, d, link.gen) /\ ~carrier.on => d \notin host') /\ (~Mine(carrier, d, link.gen) /\ d \in host' => d \in host)
    BY <2>1
  <2>5. QED BY <2>2, <2>3, <2>4 DEF Released
<1>8. QED BY <1>4, <1>5, <1>6, <1>7 DEF InputInv

LEMMA InputSends == ASSUME InputInv, Input!Stale \/ Input!Send \/ Input!SendFails PROVE InputInv'
<1>1. /\ link \in [up : BOOLEAN, ready : BOOLEAN, gen : Nat, idle : BOOLEAN] /\ host \in SUBSET Controls
      /\ carrier \in InputEvents /\ carrier.on \in BOOLEAN /\ (link.idle => idled)
  BY DEF InputInv, InputType, InputEvents, InputKnown
<1>2. CASE Input!Stale
  <2>1. carrier # Input!None /\ Input!Finish /\ UNCHANGED <<link, controls, ui, resetting, queue, notified, waiting, host, idled>> /\ ~Input!Accepts(carrier)
    BY <1>2 DEF Input!Stale
  <2>2. \A d \in Controls : (link.ready /\ ~idled) => ~Mine(carrier, d, link.gen)
    BY <1>1, <2>1 DEF Input!Accepts, Mine
  <2>3. QED BY <1>1, <2>1, <2>2, InputFinishes
<1>3. CASE Input!Send
  <2>1. /\ carrier # Input!None /\ Input!Finish /\ UNCHANGED <<link, controls, ui, resetting, queue, notified, waiting, idled>> /\ Input!Accepts(carrier)
        /\ host' = IF Input!Rotation(carrier) THEN host
                    ELSE IF carrier.on THEN host \union {carrier.control} ELSE host \ {carrier.control}
    BY <1>3 DEF Input!Send
  <2>2. carrier.control \in Controls \cup {"dial"} /\ Single(carrier)
    <3>1. carrier.control # "none" /\ Single(carrier)
      BY <2>1 DEF InputInv, InputSorted
    <3>2. QED BY <1>1, <3>1 DEF InputEvents
  <2>3. \/ Input!Rotation(carrier) /\ host' = host
        \/ ~Input!Rotation(carrier) /\ carrier.on /\ host' = host \union {carrier.control}
        \/ ~Input!Rotation(carrier) /\ ~carrier.on /\ host' = host \ {carrier.control}
    BY <1>1, <2>1, <2>2 DEF Input!Rotation, Single
  <2>4. host' \in SUBSET Controls
    BY <1>1, <2>2, <2>3 DEF Input!Rotation
  <2>5. link.ready
    BY <2>1 DEF Input!Accepts
  <2>6. ASSUME NEW d \in Controls
        PROVE  /\ ~Mine(carrier, d, link.gen) => (d \in host' => d \in host)
               /\ (Mine(carrier, d, link.gen) /\ ~carrier.on) => d \notin host'
    <3>1. d # "dial" /\ (Mine(carrier, d, link.gen) <=> carrier.control = d)
      BY <2>1, InputConstants DEF Input!Accepts, Mine
    <3>2. QED BY <2>3, <3>1 DEF Input!Rotation
  <2>7. QED BY <2>1, <2>4, <2>5, <2>6, InputFinishes
<1>4. CASE Input!SendFails /\ ~Input!MustPreserve(carrier)
  <2>1. carrier # Input!None /\ Input!Finish /\ UNCHANGED <<link, controls, ui, resetting, queue, notified, waiting, host, idled>>
    BY <1>4 DEF Input!SendFails
  <2>2. \A d \in Controls : Mine(carrier, d, link.gen) => carrier.on
    BY <1>1, <1>4, InputConstants DEF Input!MustPreserve, Input!Neutral, Mine
  <2>3. QED BY <1>1, <2>1, <2>2, InputFinishes
<1>5. CASE Input!SendFails /\ Input!Restart
  BY <1>5, InputRestarts
<1>6. CASE Input!SendFails /\ tries' = tries + 1 /\ UNCHANGED <<link, controls, ui, resetting, queue, carrier, batch, notified, waiting, host, idled>>
  <2>1. InputType'
    BY <1>6 DEF InputInv, InputType
  <2>2. InputSorted'
    BY <1>6 DEF InputInv, InputSorted
  <2>3. InputKnown' /\ InputTold'
    BY <1>6 DEF InputInv, InputKnown, InputTold
  <2>4. InputFollowed'
    BY <1>6 DEF InputInv, InputFollowed
  <2>5. QED BY <2>1, <2>2, <2>3, <2>4 DEF InputInv
<1>7. QED BY <1>2, <1>3, <1>4, <1>5, <1>6 DEF Input!SendFails

LEMMA InputRadio == ASSUME InputInv, Input!Connect \/ Input!Ready \/ Input!Break \/ Input!SwitchRadio PROVE InputInv'
<1>1. /\ link \in [up : BOOLEAN, ready : BOOLEAN, gen : Nat, idle : BOOLEAN] /\ link.gen \in Nat /\ idled \in BOOLEAN
      /\ (link.ready => link.up) /\ (~link.ready => host = {}) /\ (link.idle => idled)
  BY DEF InputInv, InputType, InputKnown
<1>2. /\ controls' = controls /\ ui' = ui /\ resetting' = resetting /\ queue' = queue /\ carrier' = carrier /\ tries' = tries
      /\ batch' = batch /\ waiting' = waiting /\ notified' = notified
  BY DEF Input!Connect, Input!Ready, Input!Break, Input!SwitchRadio, Input!sending
<1>3. InputSorted'
  BY <1>2 DEF InputInv, InputSorted
<1>4. CASE Input!Connect \/ Input!Break
  <2>1. /\ link' \in [up : BOOLEAN, ready : BOOLEAN, gen : Nat, idle : BOOLEAN] /\ link'.gen = link.gen + 1 /\ ~link'.ready
        /\ host' = {} /\ link'.idle = link.idle /\ idled' \in BOOLEAN /\ (link'.idle => idled')
    <3> DEFINE g == link.gen + 1
    <3>0. g \in Nat /\ g = link.gen + 1
      BY <1>1
    <3>1. CASE Input!Connect
      <4>1. link' = [link EXCEPT !.up = TRUE, !.gen = g] /\ ~link.up /\ host' = host /\ idled' = link.idle
        BY <3>1 DEF Input!Connect
      <4> HIDE DEF g
      <4>2. QED BY <1>1, <3>0, <4>1
    <3>2. CASE Input!Break
      <4>1. link' = [link EXCEPT !.up = FALSE, !.ready = FALSE, !.gen = g] /\ host' = {} /\ idled' = idled
        BY <3>2 DEF Input!Break
      <4> HIDE DEF g
      <4>2. QED BY <1>1, <3>0, <4>1
    <3>3. QED BY <1>4, <3>1, <3>2
  <2>2. InputType'
    BY <1>2, <2>1 DEF InputInv, InputType
  <2>3. \A e \in InputEvents : Known(e, link.gen, link.ready) => Known(e, link'.gen, link'.ready)
    BY <1>1, <2>1 DEF Known, InputEvents
  <2>4. /\ ui \in InputEvents /\ carrier \in InputEvents /\ batch \in InputEvents
        /\ \A i \in 1 .. Len(queue.critical) : queue.critical[i] \in InputEvents
        /\ \A i \in 1 .. Len(queue.normal) : queue.normal[i] \in InputEvents
        /\ \A i \in 1 .. Len(queue.stick) : queue.stick[i] \in InputEvents
    <3>1. queue.critical \in Seq(InputEvents) /\ queue.normal \in Seq(InputEvents) /\ queue.stick \in Seq(InputEvents)
      BY DEF InputInv, InputType
    <3>2. QED BY <3>1 DEF InputInv, InputType
  <2>5. InputKnown'
    BY <1>2, <2>1, <2>3, <2>4 DEF InputInv, InputKnown
  <2>6. InputFollowed' /\ InputTold'
    BY <2>1 DEF InputFollowed, InputTold
  <2>7. QED BY <1>3, <2>2, <2>5, <2>6 DEF InputInv
<1>5. CASE Input!Ready
  <2>1. /\ link' \in [up : BOOLEAN, ready : BOOLEAN, gen : Nat, idle : BOOLEAN] /\ link'.gen = link.gen /\ link'.ready /\ ~link.ready
        /\ link'.up /\ host' = host /\ host = {} /\ link'.idle = link.idle /\ idled' = idled
    BY <1>1, <1>5 DEF Input!Ready
  <2>2. InputType'
    BY <1>2, <2>1 DEF InputInv, InputType
  <2>3. \A e : Known(e, link.gen, link.ready) => Known(e, link'.gen, link'.ready) /\ \A d \in Controls : ~Mine(e, d, link.gen)
    BY <2>1, InputConstants DEF Known, Mine
  <2>4. InputKnown'
    BY <1>1, <1>2, <2>1, <2>3 DEF InputInv, InputKnown
  <2>5. ASSUME NEW d \in Controls
        PROVE  /\ NoneIn(queue.critical, d, link.gen) /\ NoneIn(queue.normal, d, link.gen) /\ NoneIn(queue.stick, d, link.gen)
               /\ ~Mine(ui, d, link.gen) /\ ~Mine(carrier, d, link.gen)
    BY <2>3 DEF InputInv, InputKnown, NoneIn
  <2>6. InputFollowed'
    BY <1>2, <2>1, <2>5 DEF InputFollowed, Released
  <2>7. InputTold'
    BY <1>2, <2>1, <2>5 DEF InputTold, Empties
  <2>8. QED BY <1>3, <2>2, <2>4, <2>6, <2>7 DEF InputInv
<1>6. CASE Input!SwitchRadio
  <2>1. /\ link' \in [up : BOOLEAN, ready : BOOLEAN, gen : Nat, idle : BOOLEAN] /\ link'.gen = link.gen /\ link'.ready = link.ready
        /\ link'.up = link.up /\ host' = host /\ idled' = TRUE
    BY <1>1, <1>6 DEF Input!SwitchRadio
  <2>2. InputType' /\ InputKnown' /\ InputFollowed' /\ InputTold'
    BY <1>2, <2>1 DEF InputInv, InputType, InputKnown, InputFollowed, InputTold
  <2>3. QED BY <1>3, <2>2 DEF InputInv
<1>7. QED BY <1>4, <1>5, <1>6

LEMMA InputSteps == ASSUME InputInv, Input!Next PROVE InputInv'
<1>1. CASE Input!User
  <2>1. CASE \E c \in Controls : Input!Move(c, 1)
    BY <2>1, InputMoves
  <2>2. CASE Input!Move("dial", 2)
    BY <2>2, InputConstants, InputMoves
  <2>3. QED BY <1>1, <2>1, <2>2 DEF Input!User
<1>2. CASE Input!Ui
  BY <1>2, InputResets, InputEnqueued, InputRefuses DEF Input!Ui
<1>3. CASE Input!Work
  BY <1>3, InputWakes, InputTakesOne, InputRests, InputSends DEF Input!Work
<1>4. CASE Input!Radio
  BY <1>4, InputRadio DEF Input!Radio
<1>5. QED BY <1>1, <1>2, <1>3, <1>4 DEF Input!Next

LEMMA InputSame == ASSUME InputInv, UNCHANGED Input!vars PROVE InputInv'
<1>1. /\ link' = link /\ controls' = controls /\ ui' = ui /\ resetting' = resetting /\ queue' = queue /\ carrier' = carrier /\ tries' = tries
      /\ batch' = batch /\ waiting' = waiting /\ notified' = notified /\ host' = host /\ idled' = idled
  BY DEF Input!vars
<1>2. InputType' /\ InputSorted' /\ InputKnown' /\ InputFollowed' /\ InputTold'
  BY <1>1 DEF InputInv, InputType, InputSorted, InputKnown, InputFollowed, InputTold
<1>3. QED BY <1>2 DEF InputInv

LEMMA InputHolds == ASSUME InputInv PROVE Input!NothingStuck
<1>1. Input!TypeOK
  <2>1. queue \in [critical : Seq(InputEvents), normal : Seq(InputEvents), stick : Seq(InputEvents)]
    BY DEF InputInv, InputType
  <2>2. \A q \in DOMAIN queue : q \in {"critical", "normal", "stick"}
    BY <2>1
  <2>3. Len(queue["critical"]) <= CriticalDepth /\ Len(queue["normal"]) <= NormalDepth /\ Len(queue["stick"]) <= 1
    BY DEF InputInv, InputSorted
  <2>4. \A q \in DOMAIN queue : Len(queue[q]) <= Input!Depth(q)
    BY <2>2, <2>3 DEF Input!Depth
  <2>5. QED BY <2>4 DEF Input!TypeOK, InputInv, InputType
<1>2. ASSUME waiting, ~notified, ui = Input!None, link.ready, ~idled, NEW d \in host PROVE d \in controls
  <2>1. d \in Controls /\ link.gen \in Nat /\ carrier = Input!None /\ Empties(queue, link.gen)
    BY <1>2 DEF InputInv, InputType, InputSorted, InputTold
  <2>2. d \in controls \/ Released(ui, queue, carrier, host, d, link.gen)
    BY <1>2, <2>1 DEF InputInv, InputFollowed
  <2>3. QED BY <1>2, <2>1, <2>2, InputNone DEF Released, Empties
<1>3. QED BY <1>1, <1>2 DEF Input!NothingStuck

LEMMA InputMovesOn == ASSUME InputInv, [RecordsNext]_<<part, vars, gaugeVars, scaleVars, settingsVars, inputVars>> PROVE InputInv'
<1>1. CASE UNCHANGED inputVars
  <2>1. UNCHANGED Input!vars
    BY <1>1 DEF inputVars, Input!vars
  <2>2. QED BY <2>1, InputSame
<1>2. CASE Input!Next
  BY <1>2, InputSteps
<1>3. QED BY <1>1, <1>2 DEF RecordsNext

(* On a connection that stays up, the host holds no control that the user   *)
(* let go once the queues are empty: no release is dropped, overtaken by    *)
(* the press before it, or left in a queue nobody is told of, for queues of *)
(* any depth.                                                               *)
THEOREM InputIsFollowed == RecordsSpec => []NothingStuck
<1>1. RecordsInit => InputInv
  BY InputBegins DEF RecordsInit
<1>2. InputInv => NothingStuck
  BY InputHolds DEF NothingStuck
<1>3. QED BY InputMovesOn, <1>1, <1>2, PTL DEF RecordsSpec

\* what the settings and the records of them are
ProfileLists == Seq([ssid : Names, pw : Nat])
SettingProfiles == [list : ProfileLists, last : Nat]
StoredFlash == [blob : {"none", "bad", "ok"}, p : SettingProfiles, old : Names \cup {""}, disp : Configs \cup {0, Settings!Unreadable}]
StoredWifi == [p : SettingProfiles, persisted : BOOLEAN, stray : BOOLEAN]
StoredSet == [names : SUBSET Names, pending : BOOLEAN, reboot : BOOLEAN, restart : BOOLEAN, error : BOOLEAN, scanError : BOOLEAN,
              available : BOOLEAN]
StoredAsk == [name : Names \cup {""}, pw : Nat, forget : BOOLEAN]
StoredService == [pc : {"idle", "quiesce", "copy", "write", "publish", "check", "restart"}, failed : BOOLEAN, forget : BOOLEAN,
                  name : Names \cup {""}, pw : Nat]
StoredDisplay == [config : Configs, overlay : Configs \cup {0}, rev : Nat, saved : Nat, pending : BOOLEAN, error : BOOLEAN, tried : Nat]
StoredWriter == [by : {"none", "network", "fallback"}, rev : Nat, config : Configs \cup {0}]
StoredTask == [owner : {"network", "fallback"}, on : {"none", "network"}]
StoredProbe == [state : {"idle", "queued", "active", "cancelled", "debt"}, fd : BOOLEAN]
StoredAsks == {n \in Nat : n <= MaxAsks}
SettingsType ==
  /\ nvs \in StoredFlash /\ wifi \in StoredWifi /\ set \in StoredSet /\ ask \in StoredAsk /\ svc \in StoredService
  /\ disp \in StoredDisplay /\ writer \in StoredWriter /\ task \in StoredTask /\ lan \in StoredProbe
  /\ asks \in StoredAsks

\* no profile twice, none too many, and the last success among them
ProfileSound(p) ==
  /\ Len(p.list) <= Capacity /\ p.last <= Len(p.list)
  /\ \A i, j \in 1 .. Len(p.list) : p.list[i].ssid = p.list[j].ssid => i = j
SettingsSound == ProfileSound(wifi.p) /\ ProfileSound(nvs.p) /\ (nvs.blob # "ok" => nvs.p = Settings!Empty)

\* the owner is at work only for a request, and one at a time
SettingsServed ==
  /\ svc.pc # "idle" => task.owner = "network" /\ (set.pending \/ set.restart)
  /\ ~(set.pending /\ set.restart) /\ (set.restart => ~set.error)
  /\ set.pending => ask.name \in Names
  /\ svc.pc \in {"write", "publish"} => set.pending /\ svc.name \in Names
  /\ task.on = "network" <=> task.owner = "network"

\* between a commit and its publication the flash is ahead of what the owner says
ListStored(l) == nvs.p.list = l /\ nvs.blob = "ok"
SettingsStored ==
  /\ svc.pc # "publish" \/ svc.failed => (wifi.persisted /\ ~wifi.stray => ListStored(wifi.p.list))
  /\ svc.pc = "publish" /\ ~svc.failed => Settings!Valid /\ (~wifi.stray => ListStored(Settings!Candidate.list))

\* a commit of the display's settings under way is of settings still pending
DisplayWritten ==
  /\ writer.by # "none" => /\ disp.pending /\ writer.by = task.owner /\ writer.rev <= disp.rev /\ writer.config \in Configs
                           /\ writer.rev = disp.rev => writer.config = disp.config
  /\ Settings!DisplayStored
ProbeClosed == (lan.state \in {"idle", "queued"} => ~lan.fd) /\ Settings!SocketClosed

SettingsInv == SettingsType /\ SettingsSound /\ SettingsServed /\ SettingsStored /\ DisplayWritten /\ ProbeClosed
\* what is taken out of a list leaves the others in their places
LEMMA ProfileRemoved ==
  ASSUME NEW S, NEW s \in Seq(S), NEW i \in 1 .. Len(s)
  PROVE /\ Settings!RemoveAt(s, i) \in Seq(S) /\ Len(Settings!RemoveAt(s, i)) = Len(s) - 1
        /\ \A j \in 1 .. Len(s) - 1 : Settings!RemoveAt(s, i)[j] = IF j < i THEN s[j] ELSE s[j + 1]
<1> DEFINE a == SubSeq(s, 1, i - 1)
           b == SubSeq(s, i + 1, Len(s))
<1>1. Len(s) \in Nat /\ i \in Nat
  OBVIOUS
<1>2. a \in Seq(S) /\ Len(a) = i - 1 /\ \A j \in 1 .. i - 1 : a[j] = s[j]
  BY <1>1, SubSeqProperties
<1>3. b \in Seq(S) /\ Len(b) = Len(s) - i /\ \A j \in 1 .. Len(s) - i : b[j] = s[i + j]
  BY <1>1, SubSeqProperties
<1> HIDE DEF a, b
<1>4. /\ a \o b \in Seq(S) /\ Len(a \o b) = Len(a) + Len(b)
      /\ \A j \in 1 .. Len(a) + Len(b) : (a \o b)[j] = IF j <= Len(a) THEN a[j] ELSE b[j - Len(a)]
  BY <1>2, <1>3, ConcatProperties
<1>5. Settings!RemoveAt(s, i) = a \o b
  BY DEF Settings!RemoveAt, a, b
<1>6. ASSUME NEW j \in 1 .. Len(s) - 1
      PROVE  (a \o b)[j] = IF j < i THEN s[j] ELSE s[j + 1]
  <2>1. ASSUME j < i PROVE (a \o b)[j] = s[j]
    BY <1>1, <1>2, <1>3, <1>4, <2>1
  <2>2. ASSUME j >= i PROVE (a \o b)[j] = s[j + 1] /\ ~(j < i)
    <3>1. j - (i - 1) \in 1 .. Len(s) - i /\ j > Len(a) /\ j \in 1 .. Len(a) + Len(b)
      BY <1>1, <1>2, <1>3, <2>2
    <3>2. b[j - (i - 1)] = s[i + (j - (i - 1))]
      BY <1>3, <3>1
    <3>3. i + (j - (i - 1)) = j + 1
      BY <1>1, <2>2
    <3>4. (a \o b)[j] = b[j - Len(a)] /\ j - Len(a) = j - (i - 1)
      BY <1>2, <1>4, <3>1
    <3>5. (a \o b)[j] = s[j + 1] /\ ~(j < i)
      BY <1>1, <2>2, <3>2, <3>3, <3>4
    <3>6. QED BY <3>5
  <2>3. j < i \/ j >= i
    BY <1>1
  <2>4. CASE j < i
    BY <2>1, <2>4
  <2>5. CASE j >= i
    <3>1. (a \o b)[j] = s[j + 1] /\ ~(j < i)
      BY <2>2, <2>5
    <3>2. QED BY <3>1
  <2>6. QED BY <2>3, <2>4, <2>5
<1>7. a \o b \in Seq(S) /\ Len(a \o b) = Len(s) - 1
  BY <1>1, <1>2, <1>3, <1>4
<1> DEFINE c == a \o b
<1>8. Settings!RemoveAt(s, i) = c /\ c \in Seq(S) /\ Len(c) = Len(s) - 1
      /\ \A j \in 1 .. Len(s) - 1 : c[j] = IF j < i THEN s[j] ELSE s[j + 1]
  BY <1>5, <1>6, <1>7
<1> HIDE DEF c
<1>9. QED BY <1>8

\* a name is found where it is, and once
LEMMA ProfileFound ==
  ASSUME NEW p \in SettingProfiles, ProfileSound(p), NEW n
  PROVE /\ Settings!Find(p, n) \in 0 .. Len(p.list) /\ Settings!Find(p, n) \in Nat
        /\ Settings!Find(p, n) # 0 => Settings!Find(p, n) \in 1 .. Len(p.list) /\ p.list[Settings!Find(p, n)].ssid = n
        /\ Settings!Find(p, n) = 0 => \A i \in 1 .. Len(p.list) : p.list[i].ssid # n
<1> DEFINE I == {i \in 1 .. Len(p.list) : p.list[i].ssid = n}
<1>1. Settings!Find(p, n) = IF I # {} THEN Settings!Min(I) ELSE 0
  BY DEF Settings!Find, Settings!SelectInSeq
<1>2. p.list \in Seq([ssid : Names, pw : Nat]) /\ Len(p.list) \in Nat
  BY DEF SettingProfiles, ProfileLists
<1>3. ASSUME NEW k \in I PROVE I = {k} /\ Settings!Min(I) = k
  <2>1. I = {k}
    BY <1>3 DEF ProfileSound
  <2>2. Settings!Min({k}) = k
    BY <1>2, <1>3 DEF Settings!Min
  <2>3. QED BY <2>1, <2>2
<1>4. CASE I = {}
  BY <1>1, <1>2, <1>4
<1>5. CASE I # {}
  <2>1. PICK k \in I : TRUE
    BY <1>5
  <2>2. Settings!Find(p, n) = k /\ k \in 1 .. Len(p.list) /\ p.list[k].ssid = n
    BY <1>1, <1>3, <1>5, <2>1
  <2>3. QED BY <1>2, <2>2
<1>6. QED BY <1>4, <1>5

\* a list with an element replaced is a list
LEMMA ProfileReplaced ==
  ASSUME NEW S, NEW s \in Seq(S)
  PROVE  /\ s \in [1 .. Len(s) -> S]
         /\ \A l \in [1 .. Len(s) -> S] : l \in Seq(S) /\ Len(l) = Len(s)
<1>1. s \in [1 .. Len(s) -> S] /\ Len(s) \in Nat
  OBVIOUS
<1>2. ASSUME NEW l \in [1 .. Len(s) -> S] PROVE l \in Seq(S) /\ Len(l) = Len(s)
  <2>1. \A j \in 1 .. Len(s) : l[j] \in S
    BY <1>2
  <2>2. l = [j \in 1 .. Len(s) |-> l[j]]
    BY <1>2
  <2>3. [j \in 1 .. Len(s) |-> l[j]] \in Seq(S) /\ Len([j \in 1 .. Len(s) |-> l[j]]) = Len(s)
    BY <1>1, <2>1
  <2>4. QED BY <2>2, <2>3
<1>3. QED BY <1>1, <1>2

LEMMA ProfileUpserted ==
  ASSUME NEW p \in SettingProfiles, ProfileSound(p), NEW n \in Names, NEW pw \in Nat, Settings!Upsertable(p, n)
  PROVE Settings!Upsert(p, n, pw) \in SettingProfiles /\ ProfileSound(Settings!Upsert(p, n, pw)) /\ Len(Settings!Upsert(p, n, pw).list) >= 1
<1> DEFINE k == Settings!Find(p, n)
           e == [ssid |-> n, pw |-> pw]
<1>1. /\ k \in 0 .. Len(p.list) /\ k \in Nat /\ (k # 0 => k \in 1 .. Len(p.list) /\ p.list[k].ssid = n)
      /\ (k = 0 => \A i \in 1 .. Len(p.list) : p.list[i].ssid # n)
  BY ProfileFound
<1>2. /\ p.list \in Seq([ssid : Names, pw : Nat]) /\ Len(p.list) \in Nat /\ p.last \in Nat
      /\ Len(p.list) <= Capacity /\ p.last <= Len(p.list) /\ Capacity \in Nat
      /\ \A i, j \in 1 .. Len(p.list) : p.list[i].ssid = p.list[j].ssid => i = j
  BY SettingsConstants DEF SettingProfiles, ProfileLists, ProfileSound
<1>3. Settings!Upsert(p, n, pw) = IF k = 0 THEN [p EXCEPT !.list = Append(@, e)] ELSE IF pw = 0 THEN p ELSE [p EXCEPT !.list[k].pw = pw]
  BY DEF Settings!Upsert
<1>4. k # 0 \/ Len(p.list) < Capacity
  BY DEF Settings!Upsertable
<1> HIDE DEF k
<1>5. CASE k = 0
  <2> DEFINE l == Append(p.list, e)
  <2>1. e \in [ssid : Names, pw : Nat] /\ e.ssid = n
    OBVIOUS
  <2> HIDE DEF e
  <2>2. /\ l \in Seq([ssid : Names, pw : Nat]) /\ Len(l) = Len(p.list) + 1
        /\ \A i \in 1 .. Len(p.list) : l[i] = p.list[i]
        /\ l[Len(p.list) + 1] = e
    BY <1>2, <2>1, AppendProperties
  <2> HIDE DEF l
  <2>3. Settings!Upsert(p, n, pw) = [p EXCEPT !.list = l]
    BY <1>3, <1>5 DEF l
  <2>4. Settings!Upsert(p, n, pw) \in SettingProfiles /\ Settings!Upsert(p, n, pw).list = l /\ Settings!Upsert(p, n, pw).last = p.last
    BY <2>2, <2>3 DEF SettingProfiles, ProfileLists
  <2>5. ASSUME NEW i \in 1 .. Len(l), NEW j \in 1 .. Len(l), l[i].ssid = l[j].ssid PROVE i = j
    <3>1. (i \in 1 .. Len(p.list) \/ i = Len(p.list) + 1) /\ (j \in 1 .. Len(p.list) \/ j = Len(p.list) + 1)
      BY <1>2, <2>2
    <3>2. QED BY <1>1, <1>2, <1>5, <2>1, <2>2, <2>5, <3>1
  <2>6. Len(l) <= Capacity /\ Len(l) >= 1 /\ p.last <= Len(l)
    BY <1>2, <1>4, <1>5, <2>2
  <2>7. QED BY <2>4, <2>5, <2>6 DEF ProfileSound
<1>6. CASE k # 0 /\ pw = 0
  BY <1>1, <1>2, <1>3, <1>6
<1>7. CASE k # 0 /\ pw # 0
  <2> DEFINE l == [p.list EXCEPT ![k].pw = pw]
  <2>1. k \in 1 .. Len(p.list)
    BY <1>1, <1>7
  <2>2. Settings!Upsert(p, n, pw) = [p EXCEPT !.list = l]
    BY <1>3, <1>7
  <2>3. p.list \in [1 .. Len(p.list) -> [ssid : Names, pw : Nat]]
    BY <1>2, ProfileReplaced
  <2>4. l \in [1 .. Len(p.list) -> [ssid : Names, pw : Nat]] /\ \A i \in 1 .. Len(p.list) : l[i].ssid = p.list[i].ssid
    BY <2>1, <2>3
  <2> HIDE DEF l
  <2>5. l \in Seq([ssid : Names, pw : Nat]) /\ Len(l) = Len(p.list)
    BY <1>2, <2>4, ProfileReplaced
  <2>6. Settings!Upsert(p, n, pw) \in SettingProfiles /\ Settings!Upsert(p, n, pw).list = l /\ Settings!Upsert(p, n, pw).last = p.last
    BY <2>2, <2>5 DEF SettingProfiles, ProfileLists
  <2>7. QED BY <1>2, <2>1, <2>4, <2>5, <2>6 DEF ProfileSound
<1>8. QED BY <1>5, <1>6, <1>7

LEMMA ProfileForgotten ==
  ASSUME NEW p \in SettingProfiles, ProfileSound(p), NEW n, Settings!Find(p, n) # 0, Len(p.list) > 1
  PROVE Settings!Forget(p, n) \in SettingProfiles /\ ProfileSound(Settings!Forget(p, n)) /\ Len(Settings!Forget(p, n).list) >= 1
<1> DEFINE k == Settings!Find(p, n)
           l == Settings!RemoveAt(p.list, k)
           last == IF p.last = k THEN 0 ELSE IF p.last > k THEN p.last - 1 ELSE p.last
<1>1. k \in 1 .. Len(p.list) /\ k \in Nat
  BY ProfileFound
<1>2. /\ p.list \in Seq([ssid : Names, pw : Nat]) /\ Len(p.list) \in Nat /\ p.last \in Nat
      /\ Len(p.list) <= Capacity /\ p.last <= Len(p.list) /\ Capacity \in Nat
      /\ \A i, j \in 1 .. Len(p.list) : p.list[i].ssid = p.list[j].ssid => i = j
  BY SettingsConstants DEF SettingProfiles, ProfileLists, ProfileSound
<1>3. Settings!Forget(p, n) = [list |-> l, last |-> last]
  BY DEF Settings!Forget
<1> HIDE DEF k
<1>4. /\ l \in Seq([ssid : Names, pw : Nat]) /\ Len(l) = Len(p.list) - 1
      /\ \A j \in 1 .. Len(p.list) - 1 : l[j] = IF j < k THEN p.list[j] ELSE p.list[j + 1]
  BY <1>1, <1>2, ProfileRemoved
<1> HIDE DEF l
<1>5. last \in Nat /\ last <= Len(p.list) - 1
  BY <1>1, <1>2, SMTT(30)
<1> HIDE DEF last
<1>6. Settings!Forget(p, n) \in SettingProfiles /\ Settings!Forget(p, n).list = l /\ Settings!Forget(p, n).last = last
  BY <1>3, <1>4, <1>5 DEF SettingProfiles, ProfileLists
<1>7. ASSUME NEW i \in 1 .. Len(l), NEW j \in 1 .. Len(l), l[i].ssid = l[j].ssid PROVE i = j
  <2>1. i \in 1 .. Len(p.list) - 1 /\ j \in 1 .. Len(p.list) - 1 /\ i \in Nat /\ j \in Nat
    BY <1>2, <1>4
  <2>2. PICK x \in 1 .. Len(p.list) : x = IF i < k THEN i ELSE i + 1
    BY <1>2, <2>1
  <2>3. PICK y \in 1 .. Len(p.list) : y = IF j < k THEN j ELSE j + 1
    BY <1>2, <2>1
  <2>4. l[i] = p.list[x] /\ l[j] = p.list[y]
    BY <1>4, <2>1, <2>2, <2>3
  <2>5. x = y
    BY <1>2, <1>7, <2>4
  <2>6. x \in Nat /\ k \in Nat /\ i \in Nat /\ j \in Nat
    BY <1>1, <1>2, <2>1
  <2>7. CASE i < k /\ j < k
    BY <2>2, <2>3, <2>5, <2>7
  <2>8. CASE ~(i < k) /\ ~(j < k)
    BY <2>2, <2>3, <2>5, <2>6, <2>8
  <2>9. CASE i < k /\ ~(j < k)
    BY <2>2, <2>3, <2>5, <2>6, <2>9
  <2>10. CASE ~(i < k) /\ j < k
    BY <2>2, <2>3, <2>5, <2>6, <2>10
  <2>11. QED BY <2>7, <2>8, <2>9, <2>10
<1> DEFINE q == Settings!Forget(p, n)
<1>8. Len(l) <= Capacity /\ last <= Len(l) /\ Len(l) >= 1
  BY <1>2, <1>4, <1>5
<1>9. \A i, j \in 1 .. Len(l) : l[i].ssid = l[j].ssid => i = j
  BY <1>7
<1>10. q \in SettingProfiles /\ q.list = l /\ q.last = last
  BY <1>6
<1> HIDE DEF q
<1>11. ProfileSound(q) /\ Len(q.list) >= 1
  BY <1>8, <1>9, <1>10 DEF ProfileSound
<1>12. QED BY <1>10, <1>11 DEF q

LEMMA AsksBounded == MaxAsks \in Nat
BY SettingsConstants


LEMMA ProfilesEmpty == Settings!Empty \in SettingProfiles /\ ProfileSound(Settings!Empty) /\ Settings!Empty.list = <<>> /\ Len(Settings!Empty.list) = 0
<1>1. <<>> \in Seq([ssid : Names, pw : Nat]) /\ Len(<<>>) = 0
  OBVIOUS
<1>2. QED BY <1>1, SettingsConstants DEF Settings!Empty, SettingProfiles, ProfileLists, ProfileSound

LEMMA ProfilesPublished == ASSUME NEW p \in SettingProfiles PROVE Settings!Published(p) \in SUBSET Names
<1>1. p.list \in Seq([ssid : Names, pw : Nat])
  BY DEF SettingProfiles, ProfileLists
<1>2. ASSUME NEW i \in 1 .. Len(p.list) PROVE p.list[i].ssid \in Names
  <2> DEFINE S == [ssid : Names, pw : Nat]
  <2>1. p.list \in Seq(S)
    BY <1>1
  <2> HIDE DEF S
  <2>2. p.list[i] \in S
    BY <2>1, ElementOfSeq
  <2>3. QED BY <2>2 DEF S
<1>3. QED BY <1>2 DEF Settings!Published

LEMMA ProfilesRead ==
  ASSUME NEW f \in StoredFlash, ProfileSound(f.p), f.blob # "ok" => f.p = Settings!Empty
  PROVE  /\ Settings!Stored(f) \in StoredWifi /\ ProfileSound(Settings!Stored(f).p) /\ Settings!Published(Settings!Stored(f).p) \in SUBSET Names
         /\ Settings!Stored(f).persisted => f.blob = "ok" /\ Settings!Stored(f).p = f.p
<1> DEFINE q == Settings!Upsert(Settings!Empty, f.old, 1)
<1>1. f.old \in Names => q \in SettingProfiles /\ ProfileSound(q)
  <2>1. SUFFICES ASSUME f.old \in Names PROVE q \in SettingProfiles /\ ProfileSound(q)
    OBVIOUS
  <2>2. Settings!Upsertable(Settings!Empty, f.old)
    BY ProfilesEmpty, SettingsConstants DEF Settings!Upsertable
  <2>3. 1 \in Nat
    OBVIOUS
  <2>4. QED BY <2>1, <2>2, <2>3, ProfilesEmpty, ProfileUpserted
<1> HIDE DEF q
<1>2. f.p \in SettingProfiles
  BY DEF StoredFlash
<1>3. \/ f.old \in Names /\ Settings!Stored(f) = [p |-> q, persisted |-> FALSE, stray |-> FALSE]
      \/ f.blob = "ok" /\ Settings!Stored(f) = [p |-> f.p, persisted |-> TRUE, stray |-> FALSE]
      \/ Settings!Stored(f) = [p |-> Settings!Empty, persisted |-> FALSE, stray |-> FALSE]
  BY DEF Settings!Stored, q
<1> DEFINE w == Settings!Stored(f)
           Good == w \in StoredWifi /\ ProfileSound(w.p) /\ (w.persisted => f.blob = "ok" /\ w.p = f.p)
<1>a. ASSUME NEW p \in SettingProfiles, ProfileSound(p), w = [p |-> p, persisted |-> FALSE, stray |-> FALSE] PROVE Good
  BY <1>a DEF StoredWifi
<1>b. ASSUME f.blob = "ok", w = [p |-> f.p, persisted |-> TRUE, stray |-> FALSE] PROVE Good
  <2>1. w \in StoredWifi /\ w.p = f.p
    BY <1>2, <1>b DEF StoredWifi
  <2>2. QED BY <1>b, <2>1
<1> HIDE DEF w, Good
<1>c. Good
  BY <1>1, <1>3, <1>a, <1>b, ProfilesEmpty DEF w
<1>4. /\ Settings!Stored(f) \in StoredWifi /\ ProfileSound(Settings!Stored(f).p)
      /\ Settings!Stored(f).persisted => f.blob = "ok" /\ Settings!Stored(f).p = f.p
  BY <1>c DEF Good, w
<1>5. Settings!Stored(f).p \in SettingProfiles
  BY <1>4 DEF StoredWifi
<1>6. QED BY <1>4, <1>5, ProfilesPublished

LEMMA DisplayRead ==
  ASSUME NEW f \in StoredFlash
  PROVE  /\ Settings!Fresh(f) \in StoredDisplay
         /\ (~Settings!Fresh(f).pending /\ ~Settings!Fresh(f).error /\ Settings!Fresh(f).saved = Settings!Fresh(f).rev) => f.disp = Settings!Fresh(f).config
<1>1. (CHOOSE c \in Configs : TRUE) \in Configs
  BY SettingsConstants
<1>2. PICK c \in Configs : c = IF f.disp \in Configs THEN f.disp ELSE CHOOSE d \in Configs : TRUE
  BY <1>1
<1>3. Settings!Fresh(f) = [config |-> c, overlay |-> 0, rev |-> 1, saved |-> IF f.disp \in Configs THEN 1 ELSE 0,
                  pending |-> FALSE, error |-> f.disp = Settings!Unreadable, tried |-> 0]
  BY <1>2 DEF Settings!Fresh
<1>4. QED BY <1>2, <1>3 DEF StoredDisplay

\* every boot, of whatever owner, starts from the flash
LEMMA SettingsStart ==
  ASSUME NEW f \in StoredFlash, ProfileSound(f.p), f.blob # "ok" => f.p = Settings!Empty, NEW w, NEW d, NEW s,
         w = Settings!Stored(f), d = Settings!Fresh(f), NEW available \in BOOLEAN,
         s = [names |-> Settings!Published(Settings!Stored(f).p), pending |-> FALSE, reboot |-> FALSE,
              restart |-> FALSE, error |-> FALSE, scanError |-> FALSE, available |-> available]
  PROVE  /\ w \in StoredWifi /\ ProfileSound(w.p) /\ (w.persisted => f.blob = "ok" /\ w.p = f.p)
         /\ d \in StoredDisplay /\ ((~d.pending /\ ~d.error /\ d.saved = d.rev) => f.disp = d.config)
         /\ s \in StoredSet
         /\ ~s.pending /\ ~s.restart
<1>1. Settings!Published(Settings!Stored(f).p) \in SUBSET Names
  BY ProfilesRead
<1> DEFINE P == Settings!Published(Settings!Stored(f).p)
<1>2. s = [names |-> P, pending |-> FALSE, reboot |-> FALSE, restart |-> FALSE, error |-> FALSE, scanError |-> FALSE, available |-> available] /\ P \in SUBSET Names
  BY <1>1
<1> HIDE DEF P
<1>3. /\ s \in StoredSet
      /\ ~s.pending /\ ~s.restart
  BY <1>2 DEF StoredSet
<1>4. QED BY <1>3, ProfilesRead, DisplayRead

LEMMA SettingsBegin == ASSUME Settings!Init PROVE SettingsInv
<1>1. /\ nvs \in [blob : {"none", "bad"}, p : {Settings!Empty}, old : {"", CHOOSE n \in Names : TRUE}, disp : {0, Settings!Unreadable}]
      /\ task \in [owner : {"network", "fallback"}, on : {"none", "network"}]
      /\ (task.on = "network" <=> task.owner = "network")
      /\ wifi = Settings!Stored(nvs) /\ disp = Settings!Fresh(nvs)
      /\ set = [names |-> Settings!Published(Settings!Stored(nvs).p), pending |-> FALSE, reboot |-> FALSE,
                restart |-> FALSE, error |-> FALSE, scanError |-> FALSE, available |-> task.owner = "network"]
      /\ ask = [name |-> "", pw |-> 0, forget |-> FALSE] /\ svc = Settings!NoService
      /\ writer = Settings!NoWriter /\ lan = [state |-> "idle", fd |-> FALSE] /\ asks = 0
  BY DEF Settings!Init
<1>2. (CHOOSE n \in Names : TRUE) \in Names
  BY SettingsConstants
<1>3. nvs \in StoredFlash /\ ProfileSound(nvs.p) /\ nvs.p = Settings!Empty /\ nvs.blob # "ok"
  BY <1>1, <1>2, ProfilesEmpty DEF StoredFlash
<1> DEFINE net == task.owner = "network"
<1>4. /\ net \in BOOLEAN /\ wifi = Settings!Stored(nvs) /\ disp = Settings!Fresh(nvs)
      /\ set = [names |-> Settings!Published(Settings!Stored(nvs).p), pending |-> FALSE, reboot |-> FALSE,
                restart |-> FALSE, error |-> FALSE, scanError |-> FALSE, available |-> net]
  BY <1>1
<1> HIDE DEF net
<1>5. /\ wifi \in StoredWifi /\ ProfileSound(wifi.p) /\ (wifi.persisted => nvs.blob = "ok" /\ wifi.p = nvs.p)
      /\ disp \in StoredDisplay /\ ((~disp.pending /\ ~disp.error /\ disp.saved = disp.rev) => nvs.disp = disp.config)
      /\ set \in StoredSet
      /\ ~set.pending /\ ~set.restart
  BY <1>3, <1>4, SettingsStart
<1>6. SettingsType
  <2>0. ask = [name |-> "", pw |-> 0, forget |-> FALSE] /\ asks = 0 /\ svc = Settings!NoService /\ writer = Settings!NoWriter /\ lan = [state |-> "idle", fd |-> FALSE]
    BY <1>1
  <2>1. asks \in StoredAsks
    <3>1. 0 \in StoredAsks
      BY AsksBounded DEF StoredAsks
    <3>2. QED BY <2>0, <3>1
  <2>2. ask \in StoredAsk /\ svc \in StoredService /\ writer \in StoredWriter /\ lan \in StoredProbe
    BY <2>0 DEF Settings!NoService, Settings!NoWriter, StoredAsk, StoredService, StoredWriter, StoredProbe
  <2>3. task \in StoredTask
    BY <1>1 DEF StoredTask
  <2>4. QED BY <1>3, <1>5, <2>1, <2>2, <2>3 DEF SettingsType
<1>7. SettingsSound /\ SettingsServed
  BY <1>1, <1>3, <1>5 DEF SettingsSound, SettingsServed, Settings!NoService
<1>8. SettingsStored
  BY <1>1, <1>3, <1>5 DEF SettingsStored, Settings!NoService
<1>9. DisplayWritten
  BY <1>1, <1>5 DEF DisplayWritten, Settings!DisplayStored, Settings!NoWriter
<1>10. ProbeClosed
  BY <1>1 DEF ProbeClosed, Settings!SocketClosed, Settings!NoService
<1>11. QED BY <1>6, <1>7, <1>8, <1>9, <1>10 DEF SettingsInv

LEMMA SettingsBoot == ASSUME SettingsInv, NEW how \in {"network", "fallback"}, Settings!Boot(nvs, how), nvs' = nvs, asks' = asks PROVE SettingsInv'
<1> DEFINE net == how = "network"
<1>1. /\ wifi' = Settings!Stored(nvs) /\ disp' = Settings!Fresh(nvs)
      /\ set' = [names |-> Settings!Published(Settings!Stored(nvs).p), pending |-> FALSE, reboot |-> FALSE,
                 restart |-> FALSE, error |-> FALSE, scanError |-> FALSE, available |-> net]
      /\ ask' = [name |-> "", pw |-> 0, forget |-> FALSE] /\ svc' = Settings!NoService
      /\ writer' = Settings!NoWriter /\ lan' = [state |-> "idle", fd |-> FALSE] /\ nvs' = nvs /\ asks' = asks
      /\ task' = [owner |-> how, on |-> IF net THEN "network" ELSE "none"]
  BY DEF Settings!Boot
<1>2. nvs \in StoredFlash /\ ProfileSound(nvs.p) /\ (nvs.blob # "ok" => nvs.p = Settings!Empty) /\ asks \in StoredAsks
  BY DEF SettingsInv, SettingsType, SettingsSound
<1>3. net \in BOOLEAN
  OBVIOUS
<1>4. /\ wifi' \in StoredWifi /\ ProfileSound(wifi'.p) /\ (wifi'.persisted => nvs.blob = "ok" /\ wifi'.p = nvs.p)
      /\ disp' \in StoredDisplay /\ ((~disp'.pending /\ ~disp'.error /\ disp'.saved = disp'.rev) => nvs.disp = disp'.config)
      /\ set' \in StoredSet
      /\ ~set'.pending /\ ~set'.restart
  BY <1>1, <1>2, <1>3, SettingsStart
<1>5. SettingsType'
  <2>0. /\ ask' = [name |-> "", pw |-> 0, forget |-> FALSE] /\ svc' = Settings!NoService /\ writer' = Settings!NoWriter /\ lan' = [state |-> "idle", fd |-> FALSE]
        /\ task' = [owner |-> how, on |-> IF net THEN "network" ELSE "none"]
    BY <1>1
  <2>1. ask' \in StoredAsk /\ svc' \in StoredService /\ writer' \in StoredWriter /\ lan' \in StoredProbe
    BY <2>0 DEF Settings!NoService, Settings!NoWriter, StoredAsk, StoredService, StoredWriter, StoredProbe
  <2>2. task' \in StoredTask
    BY <2>0 DEF StoredTask
  <2>3. QED BY <1>1, <1>2, <1>4, <2>1, <2>2 DEF SettingsType
<1>6. SettingsSound' /\ SettingsServed'
  BY <1>1, <1>2, <1>4 DEF SettingsSound, SettingsServed, Settings!NoService, ProfileSound, Settings!Empty
<1>7. SettingsStored'
  BY <1>1, <1>2, <1>4 DEF SettingsStored, Settings!NoService, ListStored
<1>8. DisplayWritten'
  BY <1>1, <1>4 DEF DisplayWritten, Settings!DisplayStored, Settings!NoWriter
<1>9. ProbeClosed'
  BY <1>1 DEF ProbeClosed, Settings!SocketClosed, Settings!NoService
<1>10. QED BY <1>5, <1>6, <1>7, <1>8, <1>9 DEF SettingsInv

LEMMA SettingsReset == ASSUME SettingsInv, Settings!Reset \/ Settings!Restart PROVE SettingsInv'
<1>1. nvs' = nvs /\ asks' = asks
  BY DEF Settings!Reset, Settings!Restart
<1>2. PICK how \in {"network", "fallback"} : Settings!Boot(nvs, how)
  BY DEF Settings!Reset, Settings!Restart
<1>3. QED BY <1>1, <1>2, SettingsBoot

\* what a request of the screen or the console leaves alone
LEMMA SettingsAsked == ASSUME SettingsInv, Settings!Ask PROVE asks' \in StoredAsks
<1>1. asks < MaxAsks /\ asks' = asks + 1 /\ asks \in Nat
  BY DEF SettingsInv, SettingsType, StoredAsks, Settings!Ask
<1>2. QED BY <1>1, AsksBounded DEF StoredAsks

LEMMA SettingsRequest ==
  ASSUME SettingsInv, Settings!RequestRestart \/ Settings!RequestLan \/ (\E n \in Names : Settings!RequestForget(n) \/ \E pw \in 0 .. 1 : Settings!RequestSave(n, pw))
  PROVE SettingsInv'
<1>1. UNCHANGED <<nvs, wifi, svc, disp, writer, task>> /\ Settings!Ask
  BY DEF Settings!RequestRestart, Settings!RequestLan, Settings!RequestForget, Settings!RequestSave
<1>2. asks' \in StoredAsks
  BY <1>1, SettingsAsked
<1>3. /\ set \in StoredSet
      /\ ask \in StoredAsk
      /\ lan \in StoredProbe
  BY DEF SettingsInv, SettingsType
<1>4. /\ svc.pc # "idle" => task.owner = "network" /\ (set.pending \/ set.restart)
      /\ ~(set.pending /\ set.restart) /\ (set.restart => ~set.error)
      /\ (set.pending => ask.name \in Names)
      /\ (svc.pc \in {"write", "publish"} => set.pending /\ svc.name \in Names)
      /\ (task.on = "network" <=> task.owner = "network")
      /\ (lan.state \in {"idle", "queued"} => ~lan.fd)
      /\ (svc.pc \in {"copy", "write", "check", "restart"} => ~lan.fd /\ lan.state = "idle")
  BY DEF SettingsInv, SettingsServed, ProbeClosed, Settings!SocketClosed
<1>5. /\ set' \in StoredSet
      /\ ask' \in StoredAsk
      /\ lan' \in StoredProbe
      /\ SettingsServed' /\ ProbeClosed'
  <2>1. CASE Settings!RequestRestart
    <3>1. set.available /\ ~set.pending /\ ~set.error /\ set' = [set EXCEPT !.restart = TRUE] /\ ask' = ask /\ lan' = lan
      BY <2>1 DEF Settings!RequestRestart
    <3>2. /\ set' \in StoredSet
          /\ set'.pending = FALSE /\ set'.restart = TRUE /\ set'.error = FALSE
      BY <1>3, <3>1 DEF StoredSet
    <3>3. SettingsServed' /\ ProbeClosed'
      BY <1>1, <1>4, <3>1, <3>2 DEF SettingsServed, ProbeClosed, Settings!SocketClosed
    <3>4. QED BY <1>3, <3>1, <3>2, <3>3
  <2>2. CASE Settings!RequestLan
    <3>1. Settings!LanAdmitted /\ lan' = [lan EXCEPT !.state = "queued"] /\ ask' = ask /\ set' = set
      BY <2>2 DEF Settings!RequestLan
    <3>2. lan.state = "idle" /\ ~set.pending /\ ~set.restart
      BY <3>1 DEF Settings!LanAdmitted
    <3>3. lan' \in StoredProbe /\ lan'.state = "queued" /\ ~lan'.fd
      BY <1>3, <1>4, <3>1, <3>2 DEF StoredProbe
    <3>4. SettingsServed' /\ ProbeClosed'
      BY <1>1, <1>4, <3>1, <3>2, <3>3 DEF SettingsServed, ProbeClosed, Settings!SocketClosed
    <3>5. QED BY <1>3, <3>1, <3>3, <3>4
  <2>3. ASSUME NEW n \in Names, Settings!RequestForget(n) \/ \E pw \in 0 .. 1 : Settings!RequestSave(n, pw)
        PROVE  /\ set' \in StoredSet
               /\ ask' \in StoredAsk
               /\ lan' \in StoredProbe
               /\ SettingsServed' /\ ProbeClosed'
    <3>1. Settings!Open /\ lan' = lan /\ (Settings!Refused \/ \E pw \in 0 .. 1, f \in BOOLEAN : Settings!Asked(n, pw, f))
      <4>1. ASSUME Settings!RequestForget(n) PROVE Settings!Open /\ lan' = lan /\ (Settings!Refused \/ Settings!Asked(n, 0, TRUE))
        BY <4>1 DEF Settings!RequestForget
      <4>2. ASSUME NEW pw \in 0 .. 1, Settings!RequestSave(n, pw) PROVE Settings!Open /\ lan' = lan /\ (Settings!Refused \/ Settings!Asked(n, pw, FALSE))
        BY <4>2 DEF Settings!RequestSave
      <4>3. 0 \in 0 .. 1
        OBVIOUS
      <4>4. QED BY <2>3, <4>1, <4>2, <4>3
    <3>2. ~set.pending /\ ~set.restart
      BY <3>1 DEF Settings!Open
    <3>3. CASE Settings!Refused
      <4>1. set' = [set EXCEPT !.error = TRUE] /\ ask' = ask
        BY <3>3 DEF Settings!Refused
      <4>2. /\ set' \in StoredSet
            /\ set'.pending = FALSE /\ set'.restart = FALSE
        BY <1>3, <3>2, <4>1 DEF StoredSet
      <4>3. SettingsServed' /\ ProbeClosed'
        BY <1>1, <1>4, <3>1, <3>2, <4>1, <4>2 DEF SettingsServed, ProbeClosed, Settings!SocketClosed
      <4>4. QED BY <1>3, <3>1, <4>1, <4>2, <4>3
    <3>4. CASE \E pw \in 0 .. 1, f \in BOOLEAN : Settings!Asked(n, pw, f)
      <4>1. PICK pw \in 0 .. 1, f \in BOOLEAN : Settings!Asked(n, pw, f)
        BY <3>4
      <4>2. ask' = [name |-> n, pw |-> pw, forget |-> f] /\ set' = [set EXCEPT !.pending = TRUE, !.error = FALSE]
        BY <4>1 DEF Settings!Asked
      <4>3. /\ set' \in StoredSet
            /\ set'.pending = TRUE /\ set'.restart = FALSE
            /\ ask' \in StoredAsk /\ ask'.name \in Names
        <5>1. /\ set' \in StoredSet
              /\ set'.pending = TRUE /\ set'.restart = FALSE
          BY <1>3, <3>2, <4>2 DEF StoredSet
        <5>2. pw \in Nat
          OBVIOUS
        <5>3. QED BY <4>2, <5>1, <5>2 DEF StoredAsk
      <4>4. SettingsServed' /\ ProbeClosed'
        BY <1>1, <1>4, <3>1, <3>2, <4>3 DEF SettingsServed, ProbeClosed, Settings!SocketClosed
      <4>5. QED BY <1>3, <3>1, <4>3, <4>4
    <3>5. QED BY <3>1, <3>3, <3>4
  <2>4. QED BY <2>1, <2>2, <2>3
<1>6. SettingsType'
  BY <1>1, <1>2, <1>5 DEF SettingsInv, SettingsType
<1>7. SettingsSound' /\ SettingsStored' /\ DisplayWritten'
  BY <1>1 DEF SettingsInv, SettingsSound, SettingsStored, DisplayWritten, Settings!DisplayStored, Settings!Valid, Settings!Candidate, ListStored
<1>8. QED BY <1>5, <1>6, <1>7 DEF SettingsInv

\* USB writes the flash behind the owner's back, and says so
LEMMA SettingsConfigure == ASSUME SettingsInv, NEW n \in Names, NEW pw \in 0 .. 1, Settings!Configure(n, pw) PROVE SettingsInv'
<1> DEFINE read == IF nvs.blob = "none" THEN Settings!Stored(nvs).p ELSE IF nvs.blob = "ok" THEN nvs.p ELSE Settings!Empty
<1>1. /\ Settings!Upsertable(read, n)
      /\ \/ nvs' = [nvs EXCEPT !.old = n, !.blob = "ok", !.p = Settings!Upsert(read, n, pw)]
         \/ nvs' = [nvs EXCEPT !.old = n]
      /\ wifi' = [wifi EXCEPT !.stray = TRUE]
      /\ Settings!Ask /\ UNCHANGED <<set, ask, svc, disp, writer, task, lan>>
  BY DEF Settings!Configure
<1>2. /\ nvs \in StoredFlash /\ ProfileSound(nvs.p) /\ (nvs.blob # "ok" => nvs.p = Settings!Empty)
      /\ wifi \in StoredWifi /\ ProfileSound(wifi.p) /\ nvs.p \in SettingProfiles
  BY DEF SettingsInv, SettingsType, SettingsSound, StoredWifi, StoredFlash
<1>3. read \in SettingProfiles /\ ProfileSound(read)
  <2>1. Settings!Stored(nvs) \in StoredWifi /\ ProfileSound(Settings!Stored(nvs).p)
    BY <1>2, ProfilesRead
  <2>2. Settings!Stored(nvs).p \in SettingProfiles
    BY <2>1 DEF StoredWifi
  <2>3. QED BY <1>2, <2>1, <2>2, ProfilesEmpty
<1> DEFINE q == Settings!Upsert(read, n, pw)
<1>4. q \in SettingProfiles /\ ProfileSound(q)
  BY <1>1, <1>3, ProfileUpserted
<1> HIDE DEF read
<1> HIDE DEF q
<1>5. nvs' = [nvs EXCEPT !.old = n, !.blob = "ok", !.p = q] \/ nvs' = [nvs EXCEPT !.old = n]
  BY <1>1 DEF q
<1>6. /\ nvs' \in StoredFlash /\ ProfileSound(nvs'.p) /\ (nvs'.blob # "ok" => nvs'.p = Settings!Empty) /\ nvs'.disp = nvs.disp
  BY <1>2, <1>4, <1>5 DEF StoredFlash
<1>7. wifi' \in StoredWifi /\ wifi'.p = wifi.p /\ wifi'.stray = TRUE
  BY <1>1, <1>2 DEF StoredWifi
<1>8. asks' \in StoredAsks
  BY <1>1, SettingsAsked
<1>9. SettingsType'
  BY <1>1, <1>6, <1>7, <1>8 DEF SettingsInv, SettingsType
<1>10. SettingsSound'
  BY <1>2, <1>6, <1>7 DEF SettingsSound, Settings!Empty
<1>11. SettingsServed' /\ ProbeClosed'
  BY <1>1 DEF SettingsInv, SettingsServed, ProbeClosed, Settings!SocketClosed
<1>12. SettingsStored'
  BY <1>1, <1>7 DEF SettingsInv, SettingsStored, Settings!Valid, Settings!Candidate
<1>13. DisplayWritten'
  BY <1>1, <1>6 DEF SettingsInv, DisplayWritten, Settings!DisplayStored
<1>14. QED BY <1>9, <1>10, <1>11, <1>12, <1>13 DEF SettingsInv

LEMMA SettingsProbe ==
  ASSUME SettingsInv, UNCHANGED <<nvs, wifi, set, ask, svc, disp, writer, task, asks>>,
         lan' \in StoredProbe,
         lan'.state \in {"idle", "queued"} => ~lan'.fd,
         svc.pc \notin {"copy", "write", "check", "restart"}
  PROVE  SettingsInv'
<1>1. SettingsType'
  BY DEF SettingsInv, SettingsType
<1>2. SettingsSound' /\ SettingsServed'
  BY DEF SettingsInv, SettingsSound, SettingsServed
<1>3. SettingsStored'
  BY DEF SettingsInv, SettingsStored, Settings!Valid, Settings!Candidate, ListStored
<1>4. DisplayWritten' /\ ProbeClosed'
  BY DEF SettingsInv, DisplayWritten, Settings!DisplayStored, ProbeClosed, Settings!SocketClosed
<1>5. QED BY <1>1, <1>2, <1>3, <1>4 DEF SettingsInv

LEMMA SettingsLan == ASSUME SettingsInv, Settings!ServiceLan \/ Settings!LanWorker PROVE SettingsInv'
<1>1. UNCHANGED <<nvs, wifi, set, ask, svc, disp, writer, task, asks>>
  BY DEF Settings!ServiceLan, Settings!LanWorker
<1>2. /\ lan \in StoredProbe
      /\ (lan.state \in {"idle", "queued"} => ~lan.fd)
      /\ (svc.pc \in {"copy", "write", "check", "restart"} => ~lan.fd /\ lan.state = "idle")
  BY DEF SettingsInv, SettingsType, ProbeClosed, Settings!SocketClosed
<1>3. CASE Settings!ServiceLan
  <2>1. svc.pc = "idle" /\ lan.state = "queued" /\ lan' = [lan EXCEPT !.state = IF set.pending \/ set.restart THEN "idle" ELSE "active"]
    BY <1>3 DEF Settings!ServiceLan
  <2>2. lan' \in StoredProbe /\ lan'.fd = lan.fd /\ ~lan.fd
    BY <1>2, <2>1 DEF StoredProbe
  <2>3. QED BY <1>1, <2>1, <2>2, SettingsProbe
<1>4. CASE Settings!LanWorker
  <2>1. /\ lan.state \in {"active", "cancelled"}
        /\ \/ ~lan.fd /\ lan' \in {[lan EXCEPT !.fd = TRUE], [lan EXCEPT !.state = "idle"]}
           \/ lan' \in {[state |-> "idle", fd |-> FALSE], [lan EXCEPT !.state = "debt"]}
    BY <1>4 DEF Settings!LanWorker
  <2>2. lan' \in StoredProbe /\ (lan'.state \in {"idle", "queued"} => ~lan'.fd)
    <3>1. CASE ~lan.fd /\ lan' = [lan EXCEPT !.fd = TRUE]
      BY <1>2, <2>1, <3>1 DEF StoredProbe
    <3>2. CASE ~lan.fd /\ lan' = [lan EXCEPT !.state = "idle"]
      BY <1>2, <2>1, <3>2 DEF StoredProbe
    <3>3. CASE lan' = [state |-> "idle", fd |-> FALSE]
      BY <3>3 DEF StoredProbe
    <3>4. CASE lan' = [lan EXCEPT !.state = "debt"]
      <4>1. lan'.state = "debt" /\ lan' \in StoredProbe
        BY <1>2, <3>4 DEF StoredProbe
      <4>2. QED BY <4>1
    <3>5. QED BY <2>1, <3>1, <3>2, <3>3, <3>4
  <2>3. svc.pc \notin {"copy", "write", "check", "restart"}
    BY <1>2, <2>1
  <2>4. QED BY <1>1, <2>2, <2>3, SettingsProbe
<1>5. QED BY <1>3, <1>4

\* the owner's steps before it writes change only its place, or the request
LEMMA SettingsAtWork ==
  ASSUME SettingsInv, UNCHANGED <<nvs, wifi, ask, disp, writer, task, asks>>,
         svc' \in StoredService, set' \in StoredSet, lan' \in StoredProbe, lan'.state \in {"idle", "queued"} => ~lan'.fd,
         svc.pc # "publish", svc'.pc # "publish",
         svc'.pc \in {"copy", "write", "check", "restart"} => ~lan'.fd /\ lan'.state = "idle",
         svc'.pc # "idle" => task.owner = "network" /\ (set'.pending \/ set'.restart),
         svc'.pc = "write" => set'.pending /\ svc'.name \in Names,
         ~(set'.pending /\ set'.restart), set'.restart => ~set'.error, set'.pending => ask.name \in Names
  PROVE  SettingsInv'
<1>1. SettingsType'
  BY DEF SettingsInv, SettingsType
<1>2. SettingsSound' /\ SettingsServed'
  BY DEF SettingsInv, SettingsSound, SettingsServed
<1>3. SettingsStored'
  BY DEF SettingsInv, SettingsStored, ListStored
<1>4. DisplayWritten' /\ ProbeClosed'
  BY DEF SettingsInv, DisplayWritten, Settings!DisplayStored, ProbeClosed, Settings!SocketClosed
<1>5. QED BY <1>1, <1>2, <1>3, <1>4 DEF SettingsInv

LEMMA ServiceIdle == Settings!NoService \in StoredService /\ Settings!NoService.pc = "idle"
BY DEF Settings!NoService, StoredService

LEMMA SettingsServes == ASSUME SettingsInv, Settings!ServiceBegin \/ Settings!ServiceQuiesce \/ Settings!ServiceCopy \/ Settings!ServiceRestart PROVE SettingsInv'
<1>1. UNCHANGED <<nvs, wifi, ask, disp, writer, task, asks>>
  BY DEF Settings!ServiceBegin, Settings!ServiceQuiesce, Settings!ServiceCopy, Settings!ServiceRestart
<1>2. /\ svc \in StoredService /\ set \in StoredSet /\ lan \in StoredProbe /\ ask \in StoredAsk
      /\ svc.pc \in {"idle", "quiesce", "copy", "write", "publish", "check", "restart"}
  BY DEF SettingsInv, SettingsType, StoredService
<1>3. /\ svc.pc # "idle" => task.owner = "network" /\ (set.pending \/ set.restart)
      /\ ~(set.pending /\ set.restart) /\ (set.restart => ~set.error)
      /\ (set.pending => ask.name \in Names)
      /\ (task.on = "network" <=> task.owner = "network")
      /\ (lan.state \in {"idle", "queued"} => ~lan.fd)
      /\ (svc.pc \in {"copy", "write", "check", "restart"} => ~lan.fd /\ lan.state = "idle")
  BY DEF SettingsInv, SettingsServed, ProbeClosed, Settings!SocketClosed
<1>4. CASE Settings!ServiceBegin
  <2>1. svc.pc = "idle" /\ task.owner = "network" /\ (set.pending \/ set.restart) /\ svc' = [svc EXCEPT !.pc = "quiesce"] /\ set' = set /\ lan' = lan
    BY <1>3, <1>4 DEF Settings!ServiceBegin, Settings!OwnerFree
  <2>2. svc' \in StoredService /\ svc'.pc = "quiesce"
    BY <1>2, <2>1 DEF StoredService
  <2>3. QED BY <1>1, <1>2, <1>3, <2>1, <2>2, SettingsAtWork
<1>5. CASE Settings!ServiceQuiesce
  <2>1. svc.pc = "quiesce" /\ set' = set
    BY <1>5 DEF Settings!ServiceQuiesce
  <2>2. CASE lan.state \in {"idle", "queued"}
    <3>1. lan' = [lan EXCEPT !.state = "idle"] /\ svc' = [svc EXCEPT !.pc = "copy"]
      BY <1>5, <2>2 DEF Settings!ServiceQuiesce
    <3>2. lan' \in StoredProbe /\ lan'.state = "idle" /\ ~lan'.fd
      BY <1>2, <1>3, <2>2, <3>1 DEF StoredProbe
    <3>3. svc' \in StoredService /\ svc'.pc = "copy"
      BY <1>2, <3>1 DEF StoredService
    <3>4. QED BY <1>1, <1>2, <1>3, <2>1, <3>2, <3>3, SettingsAtWork
  <2>3. CASE lan.state \notin {"idle", "queued"}
    <3>1. lan' = [lan EXCEPT !.state = IF lan.state = "active" THEN "cancelled" ELSE lan.state] /\ svc' = Settings!NoService
      BY <1>5, <2>3 DEF Settings!ServiceQuiesce
    <3>2. lan' \in StoredProbe /\ lan'.state \notin {"idle", "queued"}
      BY <1>2, <2>3, <3>1 DEF StoredProbe
    <3>3. QED BY <1>1, <1>2, <1>3, <2>1, <3>1, <3>2, ServiceIdle, SettingsAtWork
  <2>4. QED BY <2>2, <2>3
<1>6. CASE Settings!ServiceCopy
  <2>1. svc.pc = "copy" /\ set' = set /\ lan' = lan
    BY <1>6 DEF Settings!ServiceCopy
  <2>2. CASE set.restart /\ ~set.pending /\ ~set.error
    <3>1. svc' = [svc EXCEPT !.pc = "check"]
      BY <1>6, <2>2 DEF Settings!ServiceCopy
    <3>2. svc' \in StoredService /\ svc'.pc = "check"
      BY <1>2, <3>1 DEF StoredService
    <3>3. QED BY <1>1, <1>2, <1>3, <2>1, <2>2, <3>2, SettingsAtWork
  <2>3. CASE ~(set.restart /\ ~set.pending /\ ~set.error)
    <3>1. svc' = [pc |-> "write", failed |-> FALSE, forget |-> ask.forget, name |-> ask.name, pw |-> ask.pw]
      BY <1>6, <2>3 DEF Settings!ServiceCopy
    <3>2. set.pending
      BY <1>3, <2>1, <2>3
    <3>3. ask.forget \in BOOLEAN /\ ask.name \in Names /\ ask.pw \in Nat
      BY <1>2, <1>3, <3>2 DEF StoredAsk
    <3>4. svc' \in StoredService /\ svc'.pc = "write" /\ svc'.name \in Names
      BY <3>1, <3>3 DEF StoredService
    <3>5. QED BY <1>1, <1>2, <1>3, <2>1, <3>2, <3>4, SettingsAtWork
  <2>4. QED BY <2>2, <2>3
<1>7. CASE Settings!ServiceRestart
  <2>1. /\ svc.pc = "check" /\ lan' = lan
        /\ \/ set' = [set EXCEPT !.restart = FALSE] /\ svc' = Settings!NoService
           \/ set' = set /\ svc' = Settings!NoService
           \/ set' = set /\ svc' = [svc EXCEPT !.pc = "restart"]
    BY <1>7 DEF Settings!ServiceRestart
  <2>2. CASE set' = [set EXCEPT !.restart = FALSE] /\ svc' = Settings!NoService
    <3>1. set' \in StoredSet /\ set'.pending = set.pending /\ ~set'.restart
      BY <1>2, <2>2 DEF StoredSet
    <3>2. QED BY <1>1, <1>2, <1>3, <2>1, <2>2, <3>1, ServiceIdle, SettingsAtWork
  <2>3. CASE set' = set /\ svc' = Settings!NoService
    BY <1>1, <1>2, <1>3, <2>1, <2>3, ServiceIdle, SettingsAtWork
  <2>4. CASE set' = set /\ svc' = [svc EXCEPT !.pc = "restart"]
    <3>1. svc' \in StoredService /\ svc'.pc = "restart"
      BY <1>2, <2>4 DEF StoredService
    <3>2. QED BY <1>1, <1>2, <1>3, <2>1, <2>4, <3>1, SettingsAtWork
  <2>5. QED BY <2>1, <2>2, <2>3, <2>4
<1>8. QED BY <1>4, <1>5, <1>6, <1>7

\* what the owner is about to store is a sound list, and never an empty one
LEMMA SettingsCandidate ==
  ASSUME SettingsInv, svc.pc \in {"write", "publish"}, Settings!Valid
  PROVE  Settings!Candidate \in SettingProfiles /\ ProfileSound(Settings!Candidate) /\ Len(Settings!Candidate.list) >= 1
<1>1. wifi.p \in SettingProfiles /\ ProfileSound(wifi.p) /\ svc.name \in Names /\ svc.pw \in Nat /\ svc.forget \in BOOLEAN
  BY DEF SettingsInv, SettingsType, SettingsSound, SettingsServed, StoredWifi, StoredService
<1>2. CASE svc.forget
  BY <1>1, <1>2, ProfileForgotten DEF Settings!Candidate, Settings!Valid
<1>3. CASE ~svc.forget
  BY <1>1, <1>3, ProfileUpserted DEF Settings!Candidate, Settings!Valid
<1>4. QED BY <1>2, <1>3

LEMMA SettingsWrites == ASSUME SettingsInv, Settings!ServiceWrite PROVE SettingsInv'
<1>1. svc.pc = "write" /\ UNCHANGED <<set, ask, disp, writer, task, lan, asks>>
  BY DEF Settings!ServiceWrite
<1>2. nvs \in StoredFlash /\ wifi \in StoredWifi /\ svc \in StoredService
  BY DEF SettingsInv, SettingsType
<1>3. /\ wifi.persisted /\ ~wifi.stray => ListStored(wifi.p.list)
      /\ ProfileSound(wifi.p) /\ ProfileSound(nvs.p) /\ (nvs.blob # "ok" => nvs.p = Settings!Empty)
  BY <1>1 DEF SettingsInv, SettingsStored, SettingsSound
<1>4. CASE Settings!Valid /\ (Settings!Changed \/ ~wifi.persisted)
  <2>1. PICK ok \in BOOLEAN, wrote \in BOOLEAN :
            /\ ok => wrote
            /\ nvs' = IF wrote THEN [nvs EXCEPT !.blob = "ok", !.p = Settings!Candidate] ELSE nvs
            /\ svc' = [svc EXCEPT !.pc = "publish", !.failed = ~ok]
            /\ wifi' = [wifi EXCEPT !.stray = @ \/ (wrote /\ ~ok)]
    BY <1>4 DEF Settings!ServiceWrite
  <2> DEFINE q == Settings!Candidate
  <2>2. q \in SettingProfiles /\ ProfileSound(q)
    BY <1>1, <1>4, SettingsCandidate
  <2>3. nvs' = IF wrote THEN [nvs EXCEPT !.blob = "ok", !.p = q] ELSE nvs
    BY <2>1
  <2> HIDE DEF q
  <2>4. /\ nvs' \in StoredFlash /\ nvs'.disp = nvs.disp
        /\ (wrote => nvs'.p = q /\ nvs'.blob = "ok") /\ (~wrote => nvs' = nvs)
    BY <1>2, <2>2, <2>3 DEF StoredFlash
  <2>5. /\ svc' \in StoredService /\ svc'.pc = "publish" /\ svc'.failed = ~ok /\ svc'.forget = svc.forget /\ svc'.name = svc.name
        /\ svc'.pw = svc.pw
    BY <1>2, <2>1 DEF StoredService
  <2>6. wifi' \in StoredWifi /\ wifi'.p = wifi.p /\ wifi'.persisted = wifi.persisted /\ wifi'.stray = (wifi.stray \/ (wrote /\ ~ok))
    BY <1>2, <2>1 DEF StoredWifi
  <2>7. Settings!Candidate' = q /\ Settings!Valid'
    BY <1>4, <2>5, <2>6 DEF Settings!Candidate, Settings!Valid, q
  <2>8. SettingsType'
    BY <1>1, <2>4, <2>5, <2>6 DEF SettingsInv, SettingsType
  <2>9. SettingsSound'
    <3>1. CASE wrote
      BY <1>3, <2>2, <2>4, <2>6, <3>1 DEF SettingsSound
    <3>2. CASE ~wrote
      BY <1>3, <2>4, <2>6, <3>2 DEF SettingsSound, Settings!Empty
    <3>3. QED BY <3>1, <3>2
  <2>10. SettingsServed'
    BY <1>1, <2>5 DEF SettingsInv, SettingsServed
  <2>11. SettingsStored'
    <3>1. ASSUME svc'.failed, wifi'.persisted, ~wifi'.stray PROVE nvs' = nvs /\ ListStored(wifi.p.list)
      BY <1>3, <2>1, <2>4, <2>5, <2>6, <3>1
    <3>2. ASSUME ~svc'.failed PROVE nvs'.p.list = q.list /\ nvs'.blob = "ok"
      BY <2>1, <2>4, <2>5, <3>2
    <3>3. QED BY <2>5, <2>6, <2>7, <3>1, <3>2 DEF SettingsStored, ListStored
  <2>12. DisplayWritten' /\ ProbeClosed'
    BY <1>1, <2>4, <2>5 DEF SettingsInv, DisplayWritten, Settings!DisplayStored, ProbeClosed, Settings!SocketClosed
  <2>13. QED BY <2>8, <2>9, <2>10, <2>11, <2>12 DEF SettingsInv
<1>5. CASE ~(Settings!Valid /\ (Settings!Changed \/ ~wifi.persisted))
  <2> DEFINE bad == ~Settings!Valid
  <2>1. svc' = [svc EXCEPT !.pc = "publish", !.failed = bad] /\ nvs' = nvs /\ wifi' = wifi /\ bad \in BOOLEAN
    BY <1>5 DEF Settings!ServiceWrite
  <2> HIDE DEF bad
  <2>2. /\ svc' \in StoredService /\ svc'.pc = "publish" /\ svc'.failed = bad /\ svc'.forget = svc.forget /\ svc'.name = svc.name
        /\ svc'.pw = svc.pw
    BY <1>2, <2>1 DEF StoredService
  <2>3. Settings!Candidate' = Settings!Candidate /\ Settings!Valid' = Settings!Valid
    BY <2>1, <2>2 DEF Settings!Candidate, Settings!Valid
  <2>4. SettingsType' /\ SettingsSound'
    BY <1>1, <2>1, <2>2 DEF SettingsInv, SettingsType, SettingsSound
  <2>5. SettingsServed'
    BY <1>1, <2>2 DEF SettingsInv, SettingsServed
  <2>6. SettingsStored'
    <3>1. ASSUME ~svc'.failed PROVE Settings!Valid /\ (~wifi.stray => ListStored(Settings!Candidate.list))
      BY <1>3, <1>5, <2>2, <3>1 DEF bad, Settings!Changed
    <3>2. QED BY <1>3, <2>1, <2>2, <2>3, <3>1 DEF SettingsStored, ListStored
  <2>7. DisplayWritten' /\ ProbeClosed'
    BY <1>1, <2>1, <2>2 DEF SettingsInv, DisplayWritten, Settings!DisplayStored, ProbeClosed, Settings!SocketClosed
  <2>8. QED BY <2>4, <2>5, <2>6, <2>7 DEF SettingsInv
<1>6. QED BY <1>4, <1>5

LEMMA SettingsPublishes == ASSUME SettingsInv, Settings!ServicePublish PROVE SettingsInv'
<1>1. /\ svc.pc = "publish" /\ svc' = Settings!NoService /\ ask' = [name |-> "", pw |-> 0, forget |-> FALSE]
      /\ UNCHANGED <<nvs, disp, writer, task, lan, asks>>
  BY DEF Settings!ServicePublish
<1>2. wifi \in StoredWifi /\ set \in StoredSet /\ svc \in StoredService
  BY DEF SettingsInv, SettingsType
<1>3. /\ (svc.failed /\ wifi.persisted /\ ~wifi.stray => ListStored(wifi.p.list))
      /\ (~svc.failed => Settings!Valid /\ (~wifi.stray => ListStored(Settings!Candidate.list)))
      /\ set.pending /\ ~set.restart /\ (nvs.blob # "ok" => nvs.p = Settings!Empty)
      /\ ProfileSound(wifi.p) /\ ProfileSound(nvs.p) /\ svc.failed \in BOOLEAN
  BY <1>1, <1>2 DEF SettingsInv, SettingsStored, SettingsSound, SettingsServed, StoredService
<1>4. ask' \in StoredAsk /\ svc' \in StoredService /\ svc'.pc = "idle"
  BY <1>1, ServiceIdle DEF StoredAsk
<1>5. /\ set' \in StoredSet /\ ~set'.pending /\ ~set'.restart
      /\ wifi' \in StoredWifi /\ ProfileSound(wifi'.p) /\ (wifi'.persisted /\ ~wifi'.stray => nvs.p.list = wifi'.p.list /\ nvs.blob = "ok")
  <2>1. CASE svc.failed
    <3>1. set' = [set EXCEPT !.pending = FALSE, !.error = TRUE] /\ wifi' = wifi
      BY <2>1 DEF Settings!ServicePublish
    <3>2. set' \in StoredSet /\ set'.pending = FALSE /\ set'.restart = FALSE
      BY <1>2, <1>3, <3>1 DEF StoredSet
    <3>3. QED BY <1>2, <1>3, <2>1, <3>1, <3>2 DEF ListStored
  <2>2. CASE ~svc.failed
    <3> DEFINE q == Settings!Candidate
               names == Settings!Published(q)
               changed == Settings!Changed
               ahead == nvs.p # q
    <3>1. q \in SettingProfiles /\ ProfileSound(q) /\ Len(q.list) >= 1
      BY <1>1, <1>3, <2>2, SettingsCandidate
    <3>2. names \in SUBSET Names
      BY <3>1, ProfilesPublished
    <3>3. /\ set' = [set EXCEPT !.pending = FALSE, !.error = FALSE, !.names = names, !.reboot = set.reboot \/ changed]
          /\ wifi' = [p |-> q, persisted |-> TRUE, stray |-> wifi.stray /\ ahead]
      BY <2>2 DEF Settings!ServicePublish
    <3>4. changed \in BOOLEAN /\ ahead \in BOOLEAN
      BY DEF Settings!Changed
    <3>5. ~wifi.stray => ListStored(q.list)
      BY <1>3, <2>2
    <3>6. ~ahead => nvs.p.list = q.list /\ nvs.blob = "ok"
      BY <1>3, <3>1, ProfilesEmpty
    <3> HIDE DEF q, names, changed, ahead
    <3>7. set' \in StoredSet /\ ~set'.pending /\ ~set'.restart
      BY <1>2, <1>3, <3>2, <3>3, <3>4 DEF StoredSet
    <3>8. wifi' \in StoredWifi /\ wifi'.p = q /\ wifi'.stray = (wifi.stray /\ ahead)
      BY <1>2, <3>1, <3>3, <3>4 DEF StoredWifi
    <3>9. QED BY <3>1, <3>5, <3>6, <3>7, <3>8 DEF ListStored
  <2>3. QED BY <1>3, <2>1, <2>2
<1>6. SettingsType'
  BY <1>1, <1>4, <1>5 DEF SettingsInv, SettingsType
<1>7. SettingsSound' /\ SettingsServed'
  BY <1>1, <1>3, <1>4, <1>5 DEF SettingsInv, SettingsSound, SettingsServed, Settings!Empty
<1>8. SettingsStored'
  BY <1>1, <1>4, <1>5 DEF SettingsStored, ListStored
<1>9. DisplayWritten' /\ ProbeClosed'
  BY <1>1, <1>4 DEF SettingsInv, DisplayWritten, Settings!DisplayStored, ProbeClosed, Settings!SocketClosed
<1>10. QED BY <1>6, <1>7, <1>8, <1>9 DEF SettingsInv

LEMMA SettingsSuccess == ASSUME SettingsInv, NEW i \in 1 .. Capacity, Settings!Success(i) PROVE SettingsInv'
<1>1. /\ svc.pc = "idle" /\ i \in 1 .. Len(wifi.p.list) /\ wifi' = [wifi EXCEPT !.p.last = i]
      /\ UNCHANGED <<nvs, set, ask, svc, disp, writer, task, lan, asks>>
  BY DEF Settings!Success, Settings!OwnerFree
<1>2. wifi \in StoredWifi /\ wifi.p \in SettingProfiles /\ Len(wifi.p.list) \in Nat /\ i \in Nat
  BY SettingsConstants DEF SettingsInv, SettingsType, StoredWifi, SettingProfiles, ProfileLists
<1>3. /\ wifi' \in StoredWifi /\ wifi'.p.list = wifi.p.list /\ wifi'.p.last = i
      /\ wifi'.persisted = wifi.persisted /\ wifi'.stray = wifi.stray
  BY <1>1, <1>2 DEF StoredWifi, SettingProfiles
<1>4. SettingsType'
  BY <1>1, <1>3 DEF SettingsInv, SettingsType
<1>5. SettingsSound'
  BY <1>1, <1>2, <1>3 DEF SettingsInv, SettingsSound, ProfileSound, Settings!Empty
<1>6. SettingsServed' /\ ProbeClosed' /\ DisplayWritten'
  BY <1>1 DEF SettingsInv, SettingsServed, ProbeClosed, Settings!SocketClosed, DisplayWritten, Settings!DisplayStored
<1>7. SettingsStored'
  BY <1>1, <1>3 DEF SettingsInv, SettingsStored, ListStored
<1>8. QED BY <1>4, <1>5, <1>6, <1>7 DEF SettingsInv

\* what edits of the display leave alone
LEMMA SettingsDisplay ==
  ASSUME SettingsInv, UNCHANGED <<wifi, set, ask, svc, task, lan>>, asks' \in StoredAsks,
         nvs' \in StoredFlash, nvs'.p = nvs.p, nvs'.blob = nvs.blob, disp' \in StoredDisplay, writer' \in StoredWriter,
         DisplayWritten'
  PROVE  SettingsInv'
<1>1. SettingsType' /\ SettingsSound'
  BY DEF SettingsInv, SettingsType, SettingsSound, Settings!Empty
<1>2. SettingsServed' /\ ProbeClosed'
  BY DEF SettingsInv, SettingsServed, ProbeClosed, Settings!SocketClosed
<1>3. SettingsStored'
  BY DEF SettingsInv, SettingsStored, Settings!Valid, Settings!Candidate, ListStored
<1>4. QED BY <1>1, <1>2, <1>3 DEF SettingsInv

LEMMA DisplayRequested == ASSUME SettingsInv, NEW c \in Configs, disp' = Settings!Requested(disp, c), UNCHANGED <<nvs, writer, task>>
  PROVE disp' \in StoredDisplay /\ DisplayWritten'
<1>1. disp \in StoredDisplay /\ disp.rev \in Nat /\ writer \in StoredWriter /\ writer.rev \in Nat
  BY DEF SettingsInv, SettingsType, StoredDisplay, StoredWriter
<1>2. /\ writer.by # "none" => /\ disp.pending /\ writer.by = task.owner /\ writer.rev <= disp.rev /\ writer.config \in Configs
                               /\ writer.rev = disp.rev => writer.config = disp.config
      /\ (~disp.pending /\ ~disp.error /\ disp.saved = disp.rev) => nvs.disp = disp.config
  BY DEF SettingsInv, DisplayWritten, Settings!DisplayStored
<1>3. CASE c = disp.config /\ ~disp.error
  <2>1. disp' = [disp EXCEPT !.overlay = 0]
    BY <1>3 DEF Settings!Requested
  <2>2. /\ disp' \in StoredDisplay /\ disp'.pending = disp.pending /\ disp'.error = disp.error /\ disp'.rev = disp.rev
        /\ disp'.config = disp.config /\ disp'.saved = disp.saved
    BY <1>1, <2>1 DEF StoredDisplay
  <2>3. QED BY <1>2, <2>2 DEF DisplayWritten, Settings!DisplayStored
<1>4. CASE ~(c = disp.config /\ ~disp.error)
  <2>1. PICK next \in Nat : next = disp.rev + 1
    BY <1>1
  <2>a. disp' = [disp EXCEPT !.overlay = 0, !.config = c, !.rev = next, !.pending = TRUE, !.error = FALSE]
    BY <1>4, <2>1 DEF Settings!Requested
  <2>2. /\ disp' \in StoredDisplay /\ disp'.pending = TRUE /\ disp'.rev = disp.rev + 1
    BY <1>1, <2>1, <2>a DEF StoredDisplay
  <2>3. QED BY <1>1, <1>2, <2>2 DEF DisplayWritten, Settings!DisplayStored
<1>5. QED BY <1>3, <1>4

LEMMA SettingsDisplayed ==
  ASSUME SettingsInv, Settings!EndTemporary \/ Settings!SaveTemporary \/ (\E c \in Configs : Settings!RequestDisplay(c) \/ Settings!SetTemporary(c))
  PROVE  SettingsInv'
<1>1. UNCHANGED <<nvs, wifi, set, ask, svc, writer, task, lan>> /\ (asks' = asks \/ Settings!Ask)
  BY DEF Settings!EndTemporary, Settings!SaveTemporary, Settings!RequestDisplay, Settings!SetTemporary
<1>2. asks' \in StoredAsks
  <2>1. CASE Settings!Ask
    BY <2>1, SettingsAsked
  <2>2. CASE asks' = asks
    BY <2>2 DEF SettingsInv, SettingsType
  <2>3. QED BY <1>1, <2>1, <2>2
<1>3. nvs \in StoredFlash /\ writer \in StoredWriter /\ disp \in StoredDisplay /\ disp.config \in Configs /\ disp.overlay \in Configs \cup {0}
  BY DEF SettingsInv, SettingsType, StoredDisplay
<1>4. disp' \in StoredDisplay /\ DisplayWritten'
  <2>1. ASSUME NEW c \in Configs \cup {0}, disp' = [disp EXCEPT !.overlay = c] PROVE disp' \in StoredDisplay /\ DisplayWritten'
    <3>1. /\ disp' \in StoredDisplay /\ disp'.pending = disp.pending /\ disp'.error = disp.error /\ disp'.rev = disp.rev
          /\ disp'.config = disp.config /\ disp'.saved = disp.saved
      BY <1>3, <2>1 DEF StoredDisplay
    <3>2. QED BY <1>1, <3>1 DEF SettingsInv, DisplayWritten, Settings!DisplayStored
  <2>2. CASE Settings!EndTemporary
    BY <2>1, <2>2 DEF Settings!EndTemporary
  <2>3. CASE Settings!SaveTemporary
    <3>1. PICK c \in Configs : c = IF disp.overlay = 0 THEN disp.config ELSE disp.overlay
      BY <1>3
    <3>2. disp' = Settings!Requested(disp, c)
      BY <2>3, <3>1 DEF Settings!SaveTemporary
    <3>3. QED BY <1>1, <3>2, DisplayRequested
  <2>4. ASSUME NEW c \in Configs, Settings!RequestDisplay(c) PROVE disp' \in StoredDisplay /\ DisplayWritten'
    BY <1>1, <2>4, DisplayRequested DEF Settings!RequestDisplay
  <2>5. ASSUME NEW c \in Configs, Settings!SetTemporary(c) PROVE disp' \in StoredDisplay /\ DisplayWritten'
    BY <2>1, <2>5 DEF Settings!SetTemporary
  <2>6. QED BY <2>2, <2>3, <2>4, <2>5
<1>5. QED BY <1>1, <1>2, <1>3, <1>4, SettingsDisplay

LEMMA SettingsDisplayBegins == ASSUME SettingsInv, NEW who \in {"network", "fallback"}, Settings!DisplayBegin(who) PROVE SettingsInv'
<1>1. /\ writer.by = "none" /\ task.owner = who /\ disp.pending
      /\ disp' = [disp EXCEPT !.tried = disp.rev]
      /\ writer' = [by |-> who, rev |-> disp.rev, config |-> disp.config]
      /\ UNCHANGED <<nvs, wifi, set, ask, svc, task, lan, asks>>
  BY DEF Settings!DisplayBegin
<1>2. nvs \in StoredFlash /\ disp \in StoredDisplay /\ asks \in StoredAsks /\ disp.rev \in Nat /\ disp.config \in Configs
  BY DEF SettingsInv, SettingsType, StoredDisplay
<1>3. /\ disp' \in StoredDisplay /\ disp'.pending = disp.pending /\ disp'.error = disp.error /\ disp'.rev = disp.rev
      /\ disp'.config = disp.config /\ disp'.saved = disp.saved
  BY <1>1, <1>2 DEF StoredDisplay
<1>4. writer' \in StoredWriter
  BY <1>1, <1>2 DEF StoredWriter
<1>5. DisplayWritten'
  BY <1>1, <1>2, <1>3 DEF SettingsInv, DisplayWritten, Settings!DisplayStored
<1>6. QED BY <1>1, <1>2, <1>3, <1>4, <1>5, SettingsDisplay

LEMMA SettingsDisplayEnds == ASSUME SettingsInv, Settings!DisplayEnd PROVE SettingsInv'
<1>1. writer.by # "none" /\ writer' = Settings!NoWriter /\ UNCHANGED <<wifi, set, ask, svc, task, lan, asks>>
  BY DEF Settings!DisplayEnd
<1>2. PICK error \in BOOLEAN, wrote \in BOOLEAN :
       /\ ~error => wrote
       /\ nvs' = IF wrote THEN [nvs EXCEPT !.disp = writer.config] ELSE nvs
       /\ disp' = Settings!Completed(disp, writer.rev, error)
  BY DEF Settings!DisplayEnd
<1>3. nvs \in StoredFlash /\ disp \in StoredDisplay /\ asks \in StoredAsks /\ writer \in StoredWriter /\ writer.rev \in Nat
      /\ disp.saved \in Nat
  BY DEF SettingsInv, SettingsType, StoredDisplay, StoredWriter
<1>4. /\ disp.pending /\ writer.rev <= disp.rev /\ writer.config \in Configs
      /\ writer.rev = disp.rev => writer.config = disp.config
  BY <1>1 DEF SettingsInv, DisplayWritten
<1>5. nvs' \in StoredFlash /\ nvs'.p = nvs.p /\ nvs'.blob = nvs.blob /\ (wrote => nvs'.disp = writer.config)
  BY <1>2, <1>3, <1>4 DEF StoredFlash
<1>6. writer' \in StoredWriter /\ writer'.by = "none"
  BY <1>1 DEF StoredWriter, Settings!NoWriter
<1>7. PICK saved \in Nat : saved = IF error THEN disp.saved ELSE writer.rev
  BY <1>3
<1>8. CASE writer.rev = disp.rev
  <2>1. disp' = [disp EXCEPT !.saved = saved, !.pending = FALSE, !.error = error]
    BY <1>2, <1>7, <1>8 DEF Settings!Completed
  <2>2. disp' \in StoredDisplay /\ disp'.error = error /\ disp'.config = disp.config
    BY <1>3, <2>1 DEF StoredDisplay
  <2>3. DisplayWritten'
    BY <1>2, <1>4, <1>5, <1>6, <1>8, <2>2 DEF DisplayWritten, Settings!DisplayStored
  <2>4. QED BY <1>1, <1>3, <1>5, <1>6, <2>2, <2>3, SettingsDisplay
<1>9. CASE writer.rev # disp.rev
  <2>1. disp' = [disp EXCEPT !.saved = saved]
    BY <1>2, <1>7, <1>9 DEF Settings!Completed
  <2>2. disp' \in StoredDisplay /\ disp'.pending = disp.pending
    BY <1>3, <2>1 DEF StoredDisplay
  <2>3. DisplayWritten'
    BY <1>4, <1>6, <2>2 DEF DisplayWritten, Settings!DisplayStored
  <2>4. QED BY <1>1, <1>3, <1>5, <1>6, <2>2, <2>3, SettingsDisplay
<1>10. QED BY <1>8, <1>9

LEMMA SettingsClaimed == ASSUME SettingsInv, Settings!ClaimNetworkOwner PROVE SettingsInv'
<1>1. /\ task.owner = "fallback" /\ writer.by = "none" /\ nvs.blob = "ok"
      /\ task' = [owner |-> "network", on |-> "network"]
      /\ wifi' = Settings!Stored(nvs) /\ set' = [set EXCEPT !.available = TRUE, !.names = Settings!Published(Settings!Stored(nvs).p)]
      /\ UNCHANGED <<nvs, ask, svc, disp, writer, lan, asks>>
  BY DEF Settings!ClaimNetworkOwner
<1>2. nvs \in StoredFlash /\ ProfileSound(nvs.p) /\ (nvs.blob # "ok" => nvs.p = Settings!Empty) /\ set \in StoredSet
  BY DEF SettingsInv, SettingsType, SettingsSound
<1> DEFINE names == Settings!Published(Settings!Stored(nvs).p)
<1>3. wifi' \in StoredWifi /\ ProfileSound(wifi'.p) /\ (wifi'.persisted => wifi'.p = nvs.p) /\ names \in SUBSET Names
  BY <1>1, <1>2, ProfilesRead
<1>4. set' = [set EXCEPT !.available = TRUE, !.names = names]
  BY <1>1
<1> HIDE DEF names
<1>5. set' \in StoredSet /\ set'.pending = set.pending /\ set'.restart = set.restart /\ set'.error = set.error
  BY <1>2, <1>3, <1>4 DEF StoredSet
<1>6. task' \in StoredTask /\ task'.owner = "network" /\ task'.on = "network"
  BY <1>1 DEF StoredTask
<1>7. svc.pc = "idle"
  BY <1>1 DEF SettingsInv, SettingsServed
<1>8. SettingsType'
  BY <1>1, <1>3, <1>5, <1>6 DEF SettingsInv, SettingsType
<1>9. SettingsSound' /\ SettingsServed'
  BY <1>1, <1>2, <1>3, <1>5, <1>6, <1>7 DEF SettingsInv, SettingsSound, SettingsServed
<1>10. SettingsStored'
  BY <1>1, <1>3, <1>7 DEF SettingsStored, ListStored
<1>11. DisplayWritten' /\ ProbeClosed'
  BY <1>1, <1>7 DEF SettingsInv, DisplayWritten, Settings!DisplayStored, ProbeClosed, Settings!SocketClosed
<1>12. QED BY <1>8, <1>9, <1>10, <1>11 DEF SettingsInv

LEMMA SettingsScanned == ASSUME SettingsInv, Settings!ScanTimesOut PROVE SettingsInv'
<1>1. /\ UNCHANGED <<nvs, wifi, ask, svc, disp, writer, task, lan, asks>>
      /\ set' = [set EXCEPT !.scanError = TRUE]
  BY DEF Settings!ScanTimesOut
<1>2. set \in StoredSet
  BY DEF SettingsInv, SettingsType
<1>3. set' \in StoredSet /\ set'.pending = set.pending /\ set'.restart = set.restart /\ set'.error = set.error
      /\ set'.available = set.available /\ set'.names = set.names
  BY <1>1, <1>2 DEF StoredSet
<1>4. SettingsType'
  BY <1>1, <1>3 DEF SettingsInv, SettingsType
<1>5. SettingsSound' /\ SettingsServed'
  BY <1>1, <1>3 DEF SettingsInv, SettingsSound, SettingsServed
<1>6. SettingsStored'
  BY <1>1, <1>3 DEF SettingsInv, SettingsStored, Settings!Valid, Settings!Candidate, ListStored
<1>7. DisplayWritten' /\ ProbeClosed'
  BY <1>1, <1>3 DEF SettingsInv, DisplayWritten, Settings!DisplayStored, ProbeClosed, Settings!SocketClosed
<1>8. QED BY <1>4, <1>5, <1>6, <1>7 DEF SettingsInv

LEMMA SettingsSteps == ASSUME SettingsInv, Settings!Next PROVE SettingsInv'
<1>1. CASE \E n \in Names : Settings!RequestForget(n) \/ \E pw \in 0 .. 1 : Settings!RequestSave(n, pw) \/ Settings!Configure(n, pw)
  BY <1>1, SettingsRequest, SettingsConfigure
<1>2. CASE Settings!Reset \/ Settings!Restart
  BY <1>2, SettingsReset
<1>3. CASE Settings!RequestRestart \/ Settings!RequestLan
  BY <1>3, SettingsRequest
<1>4. CASE Settings!ServiceLan \/ Settings!LanWorker
  BY <1>4, SettingsLan
<1>5. CASE Settings!ServiceBegin \/ Settings!ServiceQuiesce \/ Settings!ServiceCopy \/ Settings!ServiceRestart
  BY <1>5, SettingsServes
<1>6. CASE Settings!ServiceWrite
  BY <1>6, SettingsWrites
<1>7. CASE Settings!ServicePublish
  BY <1>7, SettingsPublishes
<1>8. CASE \E i \in 1 .. Capacity : Settings!Success(i)
  BY <1>8, SettingsSuccess
<1>9. CASE Settings!EndTemporary \/ Settings!SaveTemporary \/ \E c \in Configs : Settings!RequestDisplay(c) \/ Settings!SetTemporary(c)
  BY <1>9, SettingsDisplayed
<1>10. CASE Settings!DisplayEnd
  BY <1>10, SettingsDisplayEnds
<1>11. CASE Settings!ClaimNetworkOwner
  BY <1>11, SettingsClaimed
<1>12. CASE \E who \in {"network", "fallback"} : Settings!DisplayBegin(who)
  BY <1>12, SettingsDisplayBegins
<1>13. CASE Settings!ScanTimesOut
  BY <1>13, SettingsScanned
<1>14. QED BY <1>1, <1>2, <1>3, <1>4, <1>5, <1>6, <1>7, <1>8, <1>9, <1>10, <1>11, <1>12, <1>13 DEF Settings!Next

LEMMA SettingsSame == ASSUME SettingsInv, UNCHANGED Settings!settingsVars PROVE SettingsInv'
<1>1. UNCHANGED <<nvs, wifi, set, ask, svc, disp, writer, task, lan, asks>>
  BY DEF Settings!settingsVars
<1>2. SettingsType' /\ SettingsSound' /\ SettingsServed'
  BY <1>1 DEF SettingsInv, SettingsType, SettingsSound, SettingsServed
<1>3. SettingsStored'
  BY <1>1 DEF SettingsInv, SettingsStored, Settings!Valid, Settings!Candidate, ListStored
<1>4. DisplayWritten' /\ ProbeClosed'
  BY <1>1 DEF SettingsInv, DisplayWritten, Settings!DisplayStored, ProbeClosed, Settings!SocketClosed
<1>5. QED BY <1>2, <1>3, <1>4 DEF SettingsInv

LEMMA SettingsHold == ASSUME SettingsInv PROVE Settings!SettingsKept
<1>1. Settings!TypeOK
  <2>1. nvs \in StoredFlash /\ lan \in StoredProbe /\ asks \in StoredAsks
    BY DEF SettingsInv, SettingsType
  <2>2. asks \in 0 .. MaxAsks
    BY <2>1, AsksBounded DEF StoredAsks
  <2>3. nvs.blob \in {"none", "bad", "ok"} /\ nvs.disp \in Configs \cup {0, Settings!Unreadable}
    BY <2>1 DEF StoredFlash
  <2>4. lan.state \in {"idle", "queued", "active", "cancelled", "debt"}
    BY <2>1 DEF StoredProbe
  <2>5. QED BY <2>2, <2>3, <2>4 DEF Settings!TypeOK
<1>2. Settings!ProfilesSound
  BY DEF SettingsInv, SettingsSound, ProfileSound, Settings!ProfilesSound
<1>3. Settings!ProfilesStored
  BY DEF SettingsInv, SettingsStored, ListStored, Settings!ProfilesStored
<1>4. Settings!DisplayStored /\ Settings!OneWriter /\ Settings!SocketClosed
  BY DEF SettingsInv, DisplayWritten, ProbeClosed, Settings!OneWriter
<1>5. QED BY <1>1, <1>2, <1>3, <1>4 DEF Settings!SettingsKept


LEMMA SettingsMove == ASSUME SettingsInv, [RecordsNext]_<<part, vars, gaugeVars, scaleVars, settingsVars, inputVars>> PROVE SettingsInv'
<1>1. CASE UNCHANGED settingsVars
  <2>1. UNCHANGED Settings!settingsVars
    BY <1>1 DEF settingsVars, Settings!settingsVars
  <2>2. QED BY <2>1, SettingsSame
<1>2. CASE Settings!Next
  BY <1>2, SettingsSteps
<1>3. QED BY <1>1, <1>2 DEF RecordsNext

(* Wi-Fi profiles and the display's settings are in flash as they were      *)
(* acknowledged, by one task at a time, through commits that fail, edits    *)
(* during a commit, resets and an owner claimed late, and nothing is        *)
(* written or restarted over an open probe: for any networks and capacity.  *)
THEOREM SettingsAreStored == RecordsSpec => []SettingsKept
<1>1. RecordsInit => SettingsInv
  BY SettingsBegin DEF RecordsInit
<1>2. SettingsInv => SettingsKept
  BY SettingsHold DEF SettingsKept
<1>3. QED BY SettingsMove, <1>1, <1>2, PTL DEF RecordsSpec

\* what the ledgers, the gauge and an operation are
ScaleRecords == [phase : {"Missing", "Original", "Pending", "Applied", "Restoring"}, gen : 0 .. MaxSaves]
ScaleSlots == [0 .. 1 -> ScaleRecords]
ScaleGauges == [img : {"source", "mixed", "target", "other"}, sec : 1 .. 3, cfg : BOOLEAN, home : Scale!Ledgers, by : Scale!Ledgers]
ScaleFlags == {"seen", "prepared", "applied", "images", "active", "touched", "sealTried", "untouched", "spaceRejected",
               "keysStarted", "applyTried", "restoreTried", "bootTried", "keyFailed", "fault"}
AtGauge == {"open", "observe", "enter", "write", "exit", "seal", "final"}
Steps == {"admit", "intent", "publish", "protect", "over"} \cup AtGauge
ScaleJobs == [pc : Steps \cup {"boot", "idle"}, led : Scale!Ledgers, mode : {"apply", "restore"}]
ScaleType ==
  /\ slots \in [Scale!Ledgers -> ScaleSlots] /\ gauge \in ScaleGauges /\ rt \in [Scale!Ledgers -> SUBSET ScaleFlags]
  /\ fence \in [Scale!Ledgers -> BOOLEAN] /\ job \in ScaleJobs /\ timer \in 0 .. 2 /\ resets \in 0 .. MaxResets

\* a unit that is held is of the parameters in a sealed gauge
UnitHeld(l, s, flags, g) ==
  /\ Scale!Load(s[l]).phase = "Original" /\ "prepared" \in flags[l] => g.img = "source" /\ g.sec = 3
  /\ Scale!Load(s[l]).phase = "Applied" /\ "applied" \in flags[l] => g.img = "target" /\ g.sec = 3
UnitsHeld == \A l \in Scale!Ledgers : UnitHeld(l, slots, rt, gauge)

\* an operation has a ledger and the fence, and while it is at the gauge its intent on record and no unit
OnRecord(j, s) == Scale!Load(s[j.led]).phase = (IF j.mode = "apply" THEN "Pending" ELSE "Restoring")
Arrived(j, g) == g.img = (IF j.mode = "apply" THEN "target" ELSE "source")
ScaleWork(j, s, f, flags, g) ==
  /\ j.pc \in Steps => Scale!Load(s[j.led]) # Scale!Absent /\ f[j.led]
  /\ j.pc \in AtGauge \cup {"intent", "publish", "protect"} => "prepared" \notin flags[j.led] /\ "applied" \notin flags[j.led]
  /\ j.pc \in AtGauge => OnRecord(j, s)
  /\ j.pc \in {"seal", "final", "publish"} => Arrived(j, g)
  /\ j.pc = "publish" => g.sec = 3 /\ Scale!Load(s[j.led]).phase = (IF j.mode = "apply" THEN "Applied" ELSE "Original")
ScaleAtWork == ScaleWork(job, slots, fence, rt, gauge)

ScaleInv == ScaleType /\ Scale!LedgersRead /\ Scale!Owned /\ UnitsHeld /\ ScaleAtWork
\* what a ledger reads as
LEMMA ScaleRead ==
  ASSUME NEW s \in ScaleSlots
  PROVE  /\ Scale!Load(s) = Scale!Absent <=> s[0] = Scale!Absent /\ s[1] = Scale!Absent
         /\ Scale!Load(s).phase \in {"Missing", "Original", "Pending", "Applied", "Restoring", "Ambiguous"}
         /\ Scale!Load(s).phase # "Ambiguous" => Scale!Load(s) \in ScaleRecords
         /\ Scale!Load(s).phase \notin {"Missing", "Ambiguous"} => Scale!Load(s) # Scale!Absent
<1>1. /\ s[0] \in ScaleRecords /\ s[1] \in ScaleRecords
      /\ \A r \in ScaleRecords : r.phase \in {"Missing", "Original", "Pending", "Applied", "Restoring"}
      /\ Scale!Absent.phase = "Missing"
  BY DEF ScaleSlots, ScaleRecords, Scale!Absent
<1>2. Scale!Newer(s) \in {0, 1} /\ s[Scale!Newer(s)] \in ScaleRecords
  BY <1>1 DEF Scale!Newer
<1>3. \/ s[0] = Scale!Absent /\ s[1] = Scale!Absent /\ Scale!Load(s) = Scale!Absent
      \/ ~(s[0] = Scale!Absent /\ s[1] = Scale!Absent) /\ Scale!Absent \in {s[0], s[1]} /\ s[Scale!Newer(s)] = [phase |-> "Original", gen |-> 1] /\ Scale!Load(s) = s[Scale!Newer(s)]
      \/ s[0] # Scale!Absent /\ s[1] # Scale!Absent /\ Scale!Load(s) = s[Scale!Newer(s)]
      \/ ~(s[0] = Scale!Absent /\ s[1] = Scale!Absent) /\ Scale!Load(s) = [phase |-> "Ambiguous", gen |-> 0]
  BY DEF Scale!Load
<1>4. /\ [phase |-> "Original", gen |-> 1] # Scale!Absent /\ [phase |-> "Ambiguous", gen |-> 0] # Scale!Absent
      /\ [phase |-> "Ambiguous", gen |-> 0].phase = "Ambiguous"
  BY DEF Scale!Absent
<1>5. CASE s[0] = Scale!Absent /\ s[1] = Scale!Absent /\ Scale!Load(s) = Scale!Absent
  BY <1>1, <1>5
<1>6. CASE ~(s[0] = Scale!Absent /\ s[1] = Scale!Absent) /\ Scale!Load(s) = s[Scale!Newer(s)] /\ Scale!Load(s) # Scale!Absent
  BY <1>1, <1>2, <1>6
<1>7. CASE ~(s[0] = Scale!Absent /\ s[1] = Scale!Absent) /\ Scale!Load(s) = [phase |-> "Ambiguous", gen |-> 0]
  BY <1>4, <1>7
<1>8. s[0] # Scale!Absent /\ s[1] # Scale!Absent => s[Scale!Newer(s)] # Scale!Absent
  BY <1>2
<1>9. QED BY <1>3, <1>4, <1>5, <1>6, <1>7, <1>8

\* a record that follows is one with a phase and a generation
LEMMA ScaleFollows ==
  ASSUME NEW a \in ScaleRecords, NEW b, Scale!Follows(a, b)
  PROVE  b.gen >= 1 /\ b.phase \in {"Original", "Pending", "Applied", "Restoring"} /\ b.gen > a.gen
BY DEF Scale!Follows, ScaleRecords

\* and saved over the older slot it is what the ledger reads as
LEMMA ScaleSaved ==
  ASSUME NEW s \in ScaleSlots, Scale!Load(s).phase # "Ambiguous", NEW r \in ScaleRecords,
         Scale!Load(s) = Scale!Absent => r = [phase |-> "Original", gen |-> 1],
         Scale!Load(s) # Scale!Absent => Scale!Follows(Scale!Load(s), r)
  PROVE  /\ [s EXCEPT ![Scale!Target(s)] = r] \in ScaleSlots /\ Scale!Load([s EXCEPT ![Scale!Target(s)] = r]) = r
         /\ r.phase \in {"Original", "Pending", "Applied", "Restoring"}
<1> DEFINE t == [s EXCEPT ![Scale!Target(s)] = r]
<1>1. /\ s[0] \in ScaleRecords /\ s[1] \in ScaleRecords /\ s[0].gen \in Nat /\ s[1].gen \in Nat /\ r.gen \in Nat
      /\ Scale!Absent = [phase |-> "Missing", gen |-> 0] /\ 0 \in 0 .. 1 /\ 1 \in 0 .. 1
  BY DEF ScaleSlots, ScaleRecords, Scale!Absent
<1>2. CASE Scale!Load(s) = Scale!Absent
  <2>1. s[0] = Scale!Absent /\ s[1] = Scale!Absent /\ Scale!Target(s) = 0 /\ r = [phase |-> "Original", gen |-> 1]
    BY <1>2, ScaleRead DEF Scale!Target
  <2>2. t \in ScaleSlots /\ t[0] = r /\ t[1] = Scale!Absent
    BY <1>1, <2>1 DEF ScaleSlots
  <2> HIDE DEF t
  <2>3. t[0].gen = 1 /\ t[1].gen = 0 /\ t[0] # Scale!Absent /\ t[0].phase = "Original"
    BY <1>1, <2>1, <2>2
  <2>4. Scale!Newer(t) = 0
    BY <2>3 DEF Scale!Newer
  <2>5. Scale!Load(t) = r
    BY <2>1, <2>2, <2>3, <2>4 DEF Scale!Load
  <2>6. QED BY <2>1, <2>2, <2>5 DEF t
<1>3. CASE Scale!Load(s) # Scale!Absent
  <2> DEFINE n == Scale!Newer(s)
             o == 1 - Scale!Newer(s)
  <2>1. /\ n \in {0, 1} /\ o \in {0, 1} /\ n # o /\ Scale!Target(s) = o
    BY <1>3 DEF Scale!Newer, Scale!Target
  <2>2. Scale!Load(s) = s[n] /\ s[n] # Scale!Absent
    <3>1. ~(s[0] = Scale!Absent /\ s[1] = Scale!Absent)
      BY <1>3, ScaleRead
    <3>2. Scale!Load(s) = s[n]
      BY <3>1 DEF Scale!Load
    <3>3. QED BY <1>3, <3>2
  <2>3. Scale!Follows(s[n], r) /\ s[n] \in ScaleRecords
    BY <1>1, <1>3, <2>1, <2>2
  <2>4. r.gen >= 1 /\ r.gen > s[n].gen /\ r.phase \in {"Original", "Pending", "Applied", "Restoring"}
    BY <2>3, ScaleFollows
  <2>5. t \in ScaleSlots /\ t[o] = r /\ t[n] = s[n]
    BY <1>1, <2>1 DEF ScaleSlots
  <2> HIDE DEF t
  <2>6. Scale!Newer(t) = o
    BY <1>1, <2>1, <2>4, <2>5 DEF Scale!Newer
  <2>7. t[o] # Scale!Absent /\ t[n] # Scale!Absent
    BY <1>1, <2>2, <2>4, <2>5
  <2>8. t[0] # Scale!Absent /\ t[1] # Scale!Absent /\ 1 - o = n
    BY <2>1, <2>7
  <2>9. Scale!Load(t) = r
    BY <2>3, <2>5, <2>6, <2>8 DEF Scale!Load
  <2>10. QED BY <2>4, <2>5, <2>9 DEF t
<1>4. QED BY <1>2, <1>3

LEMMA ScaleFlagged ==
  ASSUME rt \in [Scale!Ledgers -> SUBSET ScaleFlags], NEW l \in Scale!Ledgers, NEW out, NEW in \in SUBSET ScaleFlags, Scale!Flags(l, out, in)
  PROVE  /\ rt' \in [Scale!Ledgers -> SUBSET ScaleFlags] /\ rt'[l] = (rt[l] \ out) \cup in
         /\ \A k \in Scale!Ledgers : k # l => rt'[k] = rt[k]
<1>1. rt' = [rt EXCEPT ![l] = (rt[l] \ out) \cup in]
  BY DEF Scale!Flags
<1>2. (rt[l] \ out) \cup in \in SUBSET ScaleFlags
  OBVIOUS
<1>3. QED BY <1>1, <1>2

\* the two ledgers: one of them is in use
LEMMA ScaleOther ==
  ASSUME NEW l \in Scale!Ledgers
  PROVE  Scale!Other(l) \in Scale!Ledgers /\ Scale!Other(l) # l /\ \A k \in Scale!Ledgers : k = l \/ k = Scale!Other(l)
BY DEF Scale!Ledgers, Scale!Other

LEMMA ScaleAlone ==
  ASSUME ScaleType, Scale!LedgersRead, NEW l \in Scale!Ledgers, Scale!Load(slots[l]) # Scale!Absent, NEW k \in Scale!Ledgers, k # l
  PROVE  Scale!Load(slots[k]) = Scale!Absent /\ Scale!Load(slots[k]).phase = "Missing"
BY ScaleOther DEF Scale!LedgersRead, Scale!Absent

\* a save, by a ledger that has a record or by the only one
LEMMA ScaleStored ==
  ASSUME ScaleType, Scale!LedgersRead, NEW l \in Scale!Ledgers, NEW r \in ScaleRecords, Scale!Save(l, r),
         Scale!Load(slots[l]) = Scale!Absent => r = [phase |-> "Original", gen |-> 1] /\ Scale!Load(slots[Scale!Other(l)]) = Scale!Absent
  PROVE  /\ slots' \in [Scale!Ledgers -> ScaleSlots] /\ Scale!Load(slots'[l]) = r /\ r # Scale!Absent
         /\ \A k \in Scale!Ledgers : k # l => slots'[k] = slots[k]
         /\ Scale!LedgersRead'
         /\ Scale!Load(slots[l]) # Scale!Absent => Scale!Follows(Scale!Load(slots[l]), r)
<1>1. slots[l] \in ScaleSlots /\ slots \in [Scale!Ledgers -> ScaleSlots]
  BY DEF ScaleType
<1>2. Scale!Load(slots[l]).phase # "Ambiguous"
  BY DEF Scale!LedgersRead
<1> DEFINE t == [slots[l] EXCEPT ![Scale!Target(slots[l])] = r]
<1>3. slots' = [slots EXCEPT ![l] = t] /\ (Scale!Load(slots[l]) # Scale!Absent => Scale!Follows(Scale!Load(slots[l]), r))
  BY DEF Scale!Save
<1>4. t \in ScaleSlots /\ Scale!Load(t) = r /\ r.phase \in {"Original", "Pending", "Applied", "Restoring"}
  BY <1>1, <1>2, <1>3, ScaleSaved
<1> HIDE DEF t
<1>5. slots' \in [Scale!Ledgers -> ScaleSlots] /\ slots'[l] = t /\ \A k \in Scale!Ledgers : k # l => slots'[k] = slots[k]
  BY <1>1, <1>3, <1>4
<1>6. r # Scale!Absent
  BY <1>4 DEF Scale!Absent
<1>7. Scale!LedgersRead'
  <2>1. ASSUME NEW k \in Scale!Ledgers PROVE Scale!Load(slots'[k]).phase # "Ambiguous"
    <3>1. CASE k = l
      BY <1>4, <1>5, <3>1
    <3>2. CASE k # l
      BY <1>5, <3>2 DEF Scale!LedgersRead
    <3>3. QED BY <3>1, <3>2
  <2>2. Scale!Load(slots'[Scale!Other(l)]) = Scale!Absent
    <3>1. Scale!Load(slots[Scale!Other(l)]) = Scale!Absent
      BY ScaleOther, ScaleAlone
    <3>2. QED BY <1>5, <3>1, ScaleOther
  <2>3. QED BY <2>1, <2>2, ScaleOther DEF Scale!LedgersRead
<1>8. QED BY <1>3, <1>4, <1>5, <1>6, <1>7

\* an operation's step at the gauge: no ledger is written and no unit given out
LEMMA ScaleAtGauge ==
  ASSUME ScaleInv, job.pc \in AtGauge \cup {"intent", "protect"}, slots' = slots, timer' = timer, resets' = resets,
         fence' \in [Scale!Ledgers -> BOOLEAN], fence'[job.led], \A k \in Scale!Ledgers : k # job.led => fence'[k] = fence[k],
         rt' \in [Scale!Ledgers -> SUBSET ScaleFlags], \A k \in Scale!Ledgers : k # job.led => rt'[k] = rt[k],
         "prepared" \notin rt'[job.led], "applied" \notin rt'[job.led],
         gauge' \in ScaleGauges,
         \/ gauge'.img = gauge.img /\ gauge'.by = gauge.by
         \/ gauge'.by = job.led /\ job.pc \in AtGauge,
         job' \in ScaleJobs, job'.led = job.led, job'.pc \in AtGauge \cup {"admit", "protect", "over"},
         job'.pc \in AtGauge => OnRecord(job', slots),
         job'.pc \in {"seal", "final"} => Arrived(job', gauge')
  PROVE  ScaleInv'
<1>1. /\ job \in ScaleJobs /\ job.led \in Scale!Ledgers /\ job.mode \in {"apply", "restore"} /\ Scale!Load(slots[job.led]) # Scale!Absent
      /\ (job.pc \in AtGauge => OnRecord(job, slots))
  BY DEF ScaleInv, ScaleType, ScaleJobs, ScaleAtWork, ScaleWork, AtGauge, Steps
<1>2. \A k \in Scale!Ledgers : k # job.led => Scale!Load(slots[k]) = Scale!Absent /\ Scale!Load(slots[k]).phase = "Missing"
  BY <1>1, ScaleAlone DEF ScaleInv
<1>3. ScaleType' /\ Scale!LedgersRead'
  BY DEF ScaleInv, ScaleType, Scale!LedgersRead
<1>4. Scale!Owned'
  <2>1. SUFFICES ASSUME gauge'.img \in {"mixed", "target"}
                 PROVE  Scale!Load(slots[gauge'.by]).phase \in {"Pending", "Applied", "Restoring"} /\ fence'[gauge'.by]
    BY DEF Scale!Owned
  <2>2. CASE gauge'.img = gauge.img /\ gauge'.by = gauge.by
    <3>1. Scale!Load(slots[gauge.by]).phase \in {"Pending", "Applied", "Restoring"} /\ fence[gauge.by] /\ gauge.by \in Scale!Ledgers
      BY <2>1, <2>2 DEF ScaleInv, Scale!Owned, ScaleType, ScaleGauges
    <3>2. gauge.by = job.led
      BY <1>2, <3>1
    <3>3. QED BY <2>2, <3>1, <3>2
  <2>3. CASE gauge'.by = job.led /\ job.pc \in AtGauge
    BY <1>1, <2>3 DEF OnRecord
  <2>4. QED BY <2>2, <2>3
<1>5. UnitsHeld'
  <2>1. ASSUME NEW k \in Scale!Ledgers PROVE UnitHeld(k, slots', rt', gauge')
    <3>1. CASE k = job.led
      BY <3>1 DEF UnitHeld
    <3>2. CASE k # job.led
      BY <1>2, <3>2 DEF UnitHeld
    <3>3. QED BY <3>1, <3>2
  <2>2. QED BY <2>1 DEF UnitsHeld
<1>6. ScaleAtWork'
  BY <1>1 DEF ScaleAtWork, ScaleWork, OnRecord, AtGauge
<1>7. QED BY <1>3, <1>4, <1>5, <1>6 DEF ScaleInv

\* a step that fails
LEMMA ScaleTurned ==
  ASSUME ScaleInv, Scale!Turn, job.pc \in AtGauge \cup {"intent"}
  PROVE  job' \in ScaleJobs /\ job'.led = job.led /\ job'.pc \in {"admit", "protect", "over"}
<1>1. job \in ScaleJobs /\ job.mode \in {"apply", "restore"}
  BY DEF ScaleInv, ScaleType, ScaleJobs
<1>2. \/ job' = [job EXCEPT !.pc = "over", !.mode = "apply"]
      \/ job' = [job EXCEPT !.pc = "admit", !.mode = "restore"]
      \/ job' = [job EXCEPT !.pc = "protect"]
  BY DEF Scale!Turn
<1>3. QED BY <1>1, <1>2 DEF ScaleJobs, Steps

LEMMA ScaleGone ==
  ASSUME ScaleInv, NEW p \in Steps, Scale!Go(p)
  PROVE  job' \in ScaleJobs /\ job'.led = job.led /\ job'.pc = p /\ job'.mode = job.mode
<1>1. job \in ScaleJobs /\ job' = [job EXCEPT !.pc = p]
  BY DEF ScaleInv, ScaleType, Scale!Go
<1>2. QED BY <1>1 DEF ScaleJobs

\* what holds of an operation at the gauge
LEMMA ScaleAt ==
  ASSUME ScaleInv, job.pc \in AtGauge \cup {"intent", "protect"}
  PROVE  /\ job.led \in Scale!Ledgers /\ job.mode \in {"apply", "restore"} /\ fence[job.led] /\ fence \in [Scale!Ledgers -> BOOLEAN]
         /\ rt \in [Scale!Ledgers -> SUBSET ScaleFlags] /\ "prepared" \notin rt[job.led] /\ "applied" \notin rt[job.led]
         /\ gauge \in ScaleGauges /\ (job.pc \in AtGauge => OnRecord(job, slots))
         /\ (job.pc \in {"seal", "final"} => Arrived(job, gauge)) /\ Scale!Load(slots[job.led]) # Scale!Absent
BY DEF ScaleInv, ScaleType, ScaleJobs, ScaleAtWork, ScaleWork, AtGauge, Steps

\* its flags
LEMMA ScaleFlaggedAt ==
  ASSUME ScaleInv, job.pc \in AtGauge \cup {"intent", "protect"}, NEW out, NEW in \in SUBSET (ScaleFlags \ {"prepared", "applied"}),
         Scale!Flags(job.led, out, in) \/ rt' = rt
  PROVE  /\ rt' \in [Scale!Ledgers -> SUBSET ScaleFlags] /\ \A k \in Scale!Ledgers : k # job.led => rt'[k] = rt[k]
         /\ "prepared" \notin rt'[job.led] /\ "applied" \notin rt'[job.led]
<1>1. CASE Scale!Flags(job.led, out, in)
  BY <1>1, ScaleAt, ScaleFlagged
<1>2. CASE rt' = rt
  BY <1>2, ScaleAt
<1>3. QED BY <1>1, <1>2

LEMMA ScaleStops == ASSUME ScaleInv, Scale!Stop PROVE ScaleInv'
<1>1. job.pc \in AtGauge \cup {"intent"} /\ Scale!Turn /\ UNCHANGED <<slots, gauge, rt, ver, fence, timer, resets>>
  BY DEF Scale!Stop, AtGauge
<1>2. job' \in ScaleJobs /\ job'.led = job.led /\ job'.pc \in {"admit", "protect", "over"}
  BY <1>1, ScaleTurned
<1>3. job'.pc \notin AtGauge
  BY <1>2 DEF AtGauge
<1>4. QED BY <1>1, <1>2, <1>3, ScaleAt, ScaleAtGauge

LEMMA ScaleOpens == ASSUME ScaleInv, Scale!Open PROVE ScaleInv'
<1>1. job.pc = "open" /\ job.pc \in AtGauge /\ UNCHANGED <<slots, ver, fence, timer, resets>>
  BY DEF Scale!Open, AtGauge
<1>2. /\ gauge' \in ScaleGauges /\ gauge'.img = gauge.img /\ gauge'.by = gauge.by
  <2>1. gauge' = gauge \/ \E sec \in 1 .. 3 : gauge' = [gauge EXCEPT !.sec = sec]
    BY DEF Scale!Open
  <2>2. QED BY <1>1, <2>1, ScaleAt DEF ScaleGauges
<1>3. \E out \in {{}, {"sealTried"}} : \E in \in SUBSET {"restoreTried", "bootTried", "touched", "spaceRejected", "keysStarted", "keyFailed"} :
         Scale!Flags(job.led, out, in)
  <2> DEFINE tried == IF job.mode = "restore" THEN {"restoreTried", "bootTried"} ELSE {}
  <2>1. \/ Scale!Flags(Scale!Ours, {}, tried \cup {"touched"})
        \/ Scale!Flags(Scale!Ours, {"sealTried"}, {"touched", "spaceRejected"})
        \/ Scale!Flags(Scale!Ours, {"sealTried"}, tried \cup {"touched", "keysStarted"})
        \/ Scale!Flags(Scale!Ours, {"sealTried"}, tried \cup {"touched", "keysStarted", "keyFailed"})
    BY DEF Scale!Open
  <2>2. tried \subseteq {"restoreTried", "bootTried"} /\ Scale!Ours = job.led
    BY DEF Scale!Ours
  <2> HIDE DEF tried
  <2>3. QED BY <2>1, <2>2
<1>4. /\ rt' \in [Scale!Ledgers -> SUBSET ScaleFlags] /\ \A k \in Scale!Ledgers : k # job.led => rt'[k] = rt[k]
      /\ "prepared" \notin rt'[job.led] /\ "applied" \notin rt'[job.led]
  <2>1. PICK out \in {{}, {"sealTried"}} : \E in \in SUBSET {"restoreTried", "bootTried", "touched", "spaceRejected", "keysStarted", "keyFailed"} :
         Scale!Flags(job.led, out, in)
    BY <1>3
  <2>2. PICK in \in SUBSET {"restoreTried", "bootTried", "touched", "spaceRejected", "keysStarted", "keyFailed"} : Scale!Flags(job.led, out, in)
    BY <2>1
  <2>3. in \in SUBSET (ScaleFlags \ {"prepared", "applied"})
    BY DEF ScaleFlags
  <2>4. QED BY <1>1, <2>2, <2>3, ScaleFlaggedAt
<1>5. /\ job' \in ScaleJobs /\ job'.led = job.led /\ job'.pc \in {"observe", "admit", "protect", "over"}
      /\ (job'.pc = "observe" => job'.mode = job.mode)
  <2>1. Scale!Go("observe") \/ Scale!Turn
    BY DEF Scale!Open
  <2>2. CASE Scale!Turn
    BY <1>1, <2>2, ScaleTurned
  <2>3. CASE Scale!Go("observe")
    BY <2>3, ScaleGone DEF Steps, AtGauge
  <2>4. QED BY <2>1, <2>2, <2>3
<1>6. /\ job'.pc \in AtGauge => OnRecord(job', slots)
      /\ job'.pc \notin {"seal", "final"} /\ job'.pc \in AtGauge \cup {"admit", "protect", "over"}
  BY <1>1, <1>5, ScaleAt DEF OnRecord, AtGauge
<1>7. QED BY <1>1, <1>2, <1>4, <1>5, <1>6, ScaleAt, ScaleAtGauge

LEMMA ScaleObserves == ASSUME ScaleInv, Scale!Observe PROVE ScaleInv'
<1>1. job.pc = "observe" /\ job.pc \in AtGauge /\ UNCHANGED <<slots, gauge, ver, fence, timer, resets>>
  BY DEF Scale!Observe, AtGauge
<1>2. rt' = rt \/ Scale!Flags(job.led, {}, {"untouched"}) \/ Scale!Flags(job.led, {}, {"fault"})
  BY DEF Scale!Observe, Scale!Ours
<1>3. /\ rt' \in [Scale!Ledgers -> SUBSET ScaleFlags] /\ \A k \in Scale!Ledgers : k # job.led => rt'[k] = rt[k]
      /\ "prepared" \notin rt'[job.led] /\ "applied" \notin rt'[job.led]
  <2>1. {"untouched"} \in SUBSET (ScaleFlags \ {"prepared", "applied"}) /\ {"fault"} \in SUBSET (ScaleFlags \ {"prepared", "applied"})
    BY DEF ScaleFlags
  <2>2. QED BY <1>1, <1>2, <2>1, ScaleFlaggedAt
<1>4. /\ job' \in ScaleJobs /\ job'.led = job.led /\ job'.pc \in {"enter", "admit", "protect", "over"}
      /\ (job'.pc = "enter" => job'.mode = job.mode)
  <2>1. Scale!Go("enter") \/ Scale!Turn
    BY DEF Scale!Observe
  <2>2. CASE Scale!Turn
    BY <1>1, <2>2, ScaleTurned
  <2>3. CASE Scale!Go("enter")
    BY <2>3, ScaleGone DEF Steps, AtGauge
  <2>4. QED BY <2>1, <2>2, <2>3
<1>5. /\ job'.pc \in AtGauge => OnRecord(job', slots)
      /\ job'.pc \notin {"seal", "final"} /\ job'.pc \in AtGauge \cup {"admit", "protect", "over"}
  BY <1>1, <1>4, ScaleAt DEF OnRecord, AtGauge
<1>6. QED BY <1>1, <1>3, <1>4, <1>5, ScaleAt, ScaleAtGauge

LEMMA ScaleEnters == ASSUME ScaleInv, Scale!Enter PROVE ScaleInv'
<1>1. job.pc = "enter" /\ job.pc \in AtGauge /\ UNCHANGED <<slots, rt, ver, fence, timer, resets>>
  BY DEF Scale!Enter, AtGauge
<1>2. gauge' \in ScaleGauges /\ gauge'.img = gauge.img /\ gauge'.by = gauge.by
  <2>1. gauge' = gauge \/ \E cfg \in BOOLEAN : gauge' = [gauge EXCEPT !.cfg = cfg]
    BY DEF Scale!Enter
  <2>2. QED BY <1>1, <2>1, ScaleAt DEF ScaleGauges
<1>3. /\ job' \in ScaleJobs /\ job'.led = job.led /\ job'.pc \in {"write", "admit", "protect", "over"}
      /\ (job'.pc = "write" => job'.mode = job.mode)
  <2>1. Scale!Go("write") \/ Scale!Turn
    BY DEF Scale!Enter
  <2>2. CASE Scale!Turn
    BY <1>1, <2>2, ScaleTurned
  <2>3. CASE Scale!Go("write")
    BY <2>3, ScaleGone DEF Steps, AtGauge
  <2>4. QED BY <2>1, <2>2, <2>3
<1>4. /\ job'.pc \in AtGauge => OnRecord(job', slots)
      /\ job'.pc \notin {"seal", "final"} /\ job'.pc \in AtGauge \cup {"admit", "protect", "over"}
  BY <1>1, <1>3, ScaleAt DEF OnRecord, AtGauge
<1>5. QED BY <1>1, <1>2, <1>3, <1>4, ScaleAt, ScaleAtGauge

LEMMA ScaleWrites == ASSUME ScaleInv, Scale!Write PROVE ScaleInv'
<1>1. job.pc = "write" /\ job.pc \in AtGauge /\ UNCHANGED <<slots, rt, ver, fence, timer, resets>>
  BY DEF Scale!Write, AtGauge
<1>2. gauge' \in ScaleGauges /\ ((gauge'.img = gauge.img /\ gauge'.by = gauge.by) \/ gauge'.by = job.led)
  <2>1. \/ gauge' = gauge
        \/ \E img \in {gauge.img, "mixed", "source", "target"} : gauge' = [gauge EXCEPT !.img = img, !.by = job.led]
    BY DEF Scale!Write, Scale!Wanted, Scale!Ours
  <2>2. CASE gauge' = gauge
    BY <1>1, <2>2, ScaleAt
  <2>3. ASSUME NEW img \in {gauge.img, "mixed", "source", "target"}, gauge' = [gauge EXCEPT !.img = img, !.by = job.led]
        PROVE  gauge' \in ScaleGauges /\ gauge'.by = job.led
    <3>1. gauge \in ScaleGauges /\ job.led \in Scale!Ledgers
      BY <1>1, ScaleAt
    <3>2. img \in {"source", "mixed", "target", "other"}
      BY <3>1 DEF ScaleGauges
    <3>3. QED BY <2>3, <3>1, <3>2 DEF ScaleGauges
  <2>4. QED BY <2>1, <2>2, <2>3
<1>3. /\ job' \in ScaleJobs /\ job'.led = job.led /\ job'.pc \in {"exit", "admit", "protect", "over"}
      /\ (job'.pc = "exit" => job'.mode = job.mode)
  <2>1. Scale!Go("exit") \/ Scale!Turn
    BY DEF Scale!Write
  <2>2. CASE Scale!Turn
    BY <1>1, <2>2, ScaleTurned
  <2>3. CASE Scale!Go("exit")
    BY <2>3, ScaleGone DEF Steps, AtGauge
  <2>4. QED BY <2>1, <2>2, <2>3
<1>4. /\ job'.pc \in AtGauge => OnRecord(job', slots)
      /\ job'.pc \notin {"seal", "final"} /\ job'.pc \in AtGauge \cup {"admit", "protect", "over"}
  BY <1>1, <1>3, ScaleAt DEF OnRecord, AtGauge
<1>5. QED BY <1>1, <1>2, <1>3, <1>4, ScaleAt, ScaleAtGauge

LEMMA ScaleExits == ASSUME ScaleInv, Scale!Exit PROVE ScaleInv'
<1>1. job.pc = "exit" /\ job.pc \in AtGauge /\ Arrived(job, gauge) /\ UNCHANGED <<slots, rt, ver, fence, timer, resets>>
  BY DEF Scale!Exit, AtGauge, Scale!Verified, Scale!Wanted, Arrived
<1>2. gauge' \in ScaleGauges /\ gauge'.img = gauge.img /\ gauge'.by = gauge.by
  <2>1. gauge' = gauge \/ (\E cfg \in BOOLEAN : gauge' = [gauge EXCEPT !.cfg = cfg]) \/ \E sec \in {gauge.sec, 3} : gauge' = [gauge EXCEPT !.cfg = FALSE, !.sec = sec]
    BY DEF Scale!Exit
  <2>2. gauge \in ScaleGauges /\ gauge.sec \in 1 .. 3
    BY <1>1, ScaleAt DEF ScaleGauges
  <2>3. CASE \E sec \in {gauge.sec, 3} : gauge' = [gauge EXCEPT !.cfg = FALSE, !.sec = sec]
    <3>1. PICK sec \in {gauge.sec, 3} : gauge' = [gauge EXCEPT !.cfg = FALSE, !.sec = sec]
      BY <2>3
    <3>2. sec \in 1 .. 3
      BY <2>2
    <3>3. QED BY <2>2, <3>1, <3>2 DEF ScaleGauges
  <2>4. CASE gauge' = gauge \/ \E cfg \in BOOLEAN : gauge' = [gauge EXCEPT !.cfg = cfg]
    BY <2>2, <2>4 DEF ScaleGauges
  <2>5. QED BY <2>1, <2>3, <2>4
<1>3. /\ job' \in ScaleJobs /\ job'.led = job.led /\ job'.pc \in {"seal", "admit", "protect", "over"}
      /\ (job'.pc = "seal" => job'.mode = job.mode)
  <2>1. Scale!Go("seal") \/ Scale!Turn
    BY DEF Scale!Exit
  <2>2. CASE Scale!Turn
    BY <1>1, <2>2, ScaleTurned
  <2>3. CASE Scale!Go("seal")
    BY <2>3, ScaleGone DEF Steps, AtGauge
  <2>4. QED BY <2>1, <2>2, <2>3
<1>4. /\ job'.pc \in AtGauge => OnRecord(job', slots)
      /\ (job'.pc \in {"seal", "final"} => Arrived(job', gauge')) /\ job'.pc \in AtGauge \cup {"admit", "protect", "over"}
  BY <1>1, <1>2, <1>3, ScaleAt DEF OnRecord, AtGauge, Arrived
<1>5. QED BY <1>1, <1>2, <1>3, <1>4, ScaleAt, ScaleAtGauge

LEMMA ScaleSeals == ASSUME ScaleInv, Scale!Seal PROVE ScaleInv'
<1>1. job.pc = "seal" /\ job.pc \in AtGauge /\ UNCHANGED <<slots, ver, fence, timer, resets>>
  BY DEF Scale!Seal, AtGauge
<1>2. gauge' \in ScaleGauges /\ gauge'.img = gauge.img /\ gauge'.by = gauge.by
  <2>1. gauge' = gauge \/ \E sec \in 1 .. 3 : gauge' = [gauge EXCEPT !.sec = sec]
    BY DEF Scale!Seal
  <2>2. QED BY <1>1, <2>1, ScaleAt DEF ScaleGauges
<1>3. /\ rt' \in [Scale!Ledgers -> SUBSET ScaleFlags] /\ \A k \in Scale!Ledgers : k # job.led => rt'[k] = rt[k]
      /\ "prepared" \notin rt'[job.led] /\ "applied" \notin rt'[job.led]
  <2>1. rt' = rt \/ Scale!Flags(job.led, {}, {"sealTried"})
    BY DEF Scale!Seal, Scale!Ours
  <2>2. {"sealTried"} \in SUBSET (ScaleFlags \ {"prepared", "applied"})
    BY DEF ScaleFlags
  <2>3. QED BY <1>1, <2>1, <2>2, ScaleFlaggedAt
<1>4. /\ job' \in ScaleJobs /\ job'.led = job.led /\ job'.pc \in {"final", "admit", "protect", "over"}
      /\ (job'.pc = "final" => job'.mode = job.mode)
  <2>1. Scale!Go("final") \/ Scale!Turn
    BY DEF Scale!Seal
  <2>2. CASE Scale!Turn
    BY <1>1, <2>2, ScaleTurned
  <2>3. CASE Scale!Go("final")
    BY <2>3, ScaleGone DEF Steps, AtGauge
  <2>4. QED BY <2>1, <2>2, <2>3
<1>5. /\ job'.pc \in AtGauge => OnRecord(job', slots)
      /\ (job'.pc \in {"seal", "final"} => Arrived(job', gauge')) /\ job'.pc \in AtGauge \cup {"admit", "protect", "over"}
  BY <1>1, <1>2, <1>4, ScaleAt DEF OnRecord, AtGauge, Arrived
<1>6. QED BY <1>1, <1>2, <1>3, <1>4, <1>5, ScaleAt, ScaleAtGauge

LEMMA ScaleProtects == ASSUME ScaleInv, Scale!Protect PROVE ScaleInv'
<1>1. job.pc = "protect" /\ Scale!Go("over") /\ fence' = [fence EXCEPT ![job.led] = TRUE] /\ UNCHANGED <<slots, ver, timer, resets>>
  BY DEF Scale!Protect, Scale!Ours
<1>2. gauge' \in ScaleGauges /\ gauge'.img = gauge.img /\ gauge'.by = gauge.by
  <2>1. gauge' = gauge \/ \E sec \in {gauge.sec, 3} : gauge' = [gauge EXCEPT !.sec = sec]
    BY DEF Scale!Protect
  <2>2. QED BY <1>1, <2>1, ScaleAt DEF ScaleGauges
<1>3. /\ rt' \in [Scale!Ledgers -> SUBSET ScaleFlags] /\ \A k \in Scale!Ledgers : k # job.led => rt'[k] = rt[k]
      /\ "prepared" \notin rt'[job.led] /\ "applied" \notin rt'[job.led]
  <2>1. rt' = rt \/ Scale!Flags(job.led, {}, {"sealTried"})
    BY DEF Scale!Protect, Scale!Ours
  <2>2. {"sealTried"} \in SUBSET (ScaleFlags \ {"prepared", "applied"})
    BY DEF ScaleFlags
  <2>3. QED BY <1>1, <2>1, <2>2, ScaleFlaggedAt
<1>4. job' \in ScaleJobs /\ job'.led = job.led /\ job'.pc = "over" /\ "over" \notin AtGauge
  BY <1>1, ScaleGone DEF Steps, AtGauge
<1>5. fence' \in [Scale!Ledgers -> BOOLEAN] /\ fence'[job.led] /\ \A k \in Scale!Ledgers : k # job.led => fence'[k] = fence[k]
  BY <1>1, ScaleAt
<1>6. QED BY <1>1, <1>2, <1>3, <1>4, <1>5, ScaleAtGauge

LEMMA ScaleRecorded ==
  ASSUME NEW l \in Scale!Ledgers, Scale!Ready(l), slots[l] \in ScaleSlots
  PROVE  Scale!Rec(l) = Scale!Load(slots[l]) /\ Scale!Load(slots[l]) # Scale!Absent /\ Scale!Load(slots[l]) \in ScaleRecords
         /\ Scale!Load(slots[l]).phase \in {"Original", "Pending", "Applied", "Restoring"}
<1>1. Scale!Load(slots[l]).phase \in {"Missing", "Original", "Pending", "Applied", "Restoring", "Ambiguous"}
      /\ (Scale!Load(slots[l]).phase # "Ambiguous" => Scale!Load(slots[l]) \in ScaleRecords)
      /\ (Scale!Load(slots[l]).phase \notin {"Missing", "Ambiguous"} => Scale!Load(slots[l]) # Scale!Absent)
  BY ScaleRead
<1>2. Scale!Absent.phase = "Missing" /\ [phase |-> "Ambiguous", gen |-> 0].phase = "Ambiguous"
  BY DEF Scale!Absent
<1>3. Scale!Rec(l).phase \notin {"Missing", "Ambiguous"}
  BY DEF Scale!Ready
<1>4. Scale!Rec(l) = Scale!Load(slots[l])
  BY <1>2, <1>3 DEF Scale!Rec
<1>5. QED BY <1>1, <1>3, <1>4

\* a record written by an operation that then goes on, or fails
LEMMA ScaleRecords1 ==
  ASSUME ScaleInv, NEW l \in Scale!Ledgers, Scale!Ready(l), NEW r, r.phase \in {"Original", "Pending", "Applied", "Restoring"}, Scale!Save(l, r),
         r = [phase |-> r.phase, gen |-> Scale!Rec(l).gen + 1]
  PROVE  /\ slots' \in [Scale!Ledgers -> ScaleSlots] /\ Scale!Load(slots'[l]) = r /\ r # Scale!Absent /\ Scale!LedgersRead'
         /\ \A k \in Scale!Ledgers : k # l => slots'[k] = slots[k]
<1>1. slots[l] \in ScaleSlots /\ ScaleType /\ Scale!LedgersRead
  BY DEF ScaleInv, ScaleType
<1>2. Scale!Rec(l) = Scale!Load(slots[l]) /\ Scale!Load(slots[l]) # Scale!Absent /\ Scale!Load(slots[l]) \in ScaleRecords
  BY <1>1, ScaleRecorded
<1>3. r.gen <= MaxSaves /\ r.gen = Scale!Rec(l).gen + 1 /\ Scale!Rec(l).gen \in Nat
  <2>1. r.gen <= MaxSaves
    BY DEF Scale!Save
  <2>2. [phase |-> r.phase, gen |-> Scale!Rec(l).gen + 1].gen = Scale!Rec(l).gen + 1
    OBVIOUS
  <2>3. QED BY <1>2, <2>1, <2>2 DEF ScaleRecords
<1>4. r.gen \in 0 .. MaxSaves
  BY <1>3, ScaleConstants
<1>5. r \in ScaleRecords
  <2> DEFINE p == r.phase
             g == r.gen
  <2>1. r = [phase |-> p, gen |-> g]
    BY <1>3
  <2>2. p \in {"Missing", "Original", "Pending", "Applied", "Restoring"} /\ g \in 0 .. MaxSaves
    BY <1>4
  <2> HIDE DEF p, g
  <2>3. QED BY <2>1, <2>2 DEF ScaleRecords
<1>6. QED BY <1>1, <1>2, <1>5, ScaleStored

\* a step of an operation that records an intent
LEMMA ScaleIntends ==
  ASSUME ScaleInv, job.pc \in {"intent", "final"}, Scale!Ready(job.led), NEW phase \in {"Pending", "Restoring", "Applied", "Original"},
         NEW p \in {"open", "publish"}, Scale!Intend(phase, p), UNCHANGED <<gauge, rt, timer, resets>>,
         p = "open" => phase = (IF job.mode = "apply" THEN "Pending" ELSE "Restoring"),
         p = "publish" => Arrived(job, gauge) /\ gauge.sec = 3 /\ phase = (IF job.mode = "apply" THEN "Applied" ELSE "Original"),
         phase = "Original" => gauge.img \notin {"mixed", "target"}
  PROVE  ScaleInv'
<1> DEFINE r == [phase |-> phase, gen |-> Scale!Rec(job.led).gen + 1]
<1>1. /\ fence' = [fence EXCEPT ![job.led] = TRUE]
      /\ \/ Scale!Save(job.led, r) /\ Scale!Go(p)
         \/ Scale!Save(job.led, r) /\ Scale!Turn
         \/ slots' = slots /\ Scale!Turn
  BY DEF Scale!Intend, Scale!Ours
<1>2. /\ job.led \in Scale!Ledgers /\ job.mode \in {"apply", "restore"} /\ fence[job.led] /\ fence \in [Scale!Ledgers -> BOOLEAN]
      /\ rt \in [Scale!Ledgers -> SUBSET ScaleFlags] /\ "prepared" \notin rt[job.led] /\ "applied" \notin rt[job.led]
      /\ gauge \in ScaleGauges /\ Scale!Load(slots[job.led]) # Scale!Absent /\ job.pc \in AtGauge \cup {"intent"}
  BY ScaleAt DEF AtGauge
<1>3. fence' = fence
  BY <1>1, <1>2
<1>4. CASE slots' = slots /\ Scale!Turn
  <2>1. job' \in ScaleJobs /\ job'.led = job.led /\ job'.pc \in {"admit", "protect", "over"} /\ job'.pc \notin AtGauge
    BY <1>2, <1>4, ScaleTurned DEF AtGauge
  <2>2. QED BY <1>2, <1>3, <1>4, <2>1, ScaleAtGauge
<1>5. CASE Scale!Save(job.led, r) /\ (Scale!Go(p) \/ Scale!Turn)
  <2>1. r.phase = phase /\ r = [phase |-> r.phase, gen |-> Scale!Rec(job.led).gen + 1]
    OBVIOUS
  <2>2. /\ slots' \in [Scale!Ledgers -> ScaleSlots] /\ Scale!Load(slots'[job.led]) = r /\ r # Scale!Absent /\ Scale!LedgersRead'
        /\ \A k \in Scale!Ledgers : k # job.led => slots'[k] = slots[k]
    BY <1>2, <1>5, <2>1, ScaleRecords1
  <2>3. /\ job' \in ScaleJobs /\ job'.led = job.led /\ job'.pc \in {p, "admit", "protect", "over"}
        /\ (job'.pc = p => job'.mode = job.mode)
    <3>1. CASE Scale!Turn
      BY <1>2, <3>1, ScaleTurned
    <3>2. CASE Scale!Go(p)
      BY <3>2, ScaleGone DEF Steps, AtGauge
    <3>3. QED BY <1>5, <3>1, <3>2
  <2> HIDE DEF r
  <2>4. ScaleType'
    BY <1>3, <2>2, <2>3 DEF ScaleInv, ScaleType
  <2>5. \A k \in Scale!Ledgers : k # job.led => Scale!Load(slots[k]) = Scale!Absent /\ Scale!Load(slots[k]).phase = "Missing"
    BY <1>2, ScaleAlone DEF ScaleInv
  <2>6. Scale!Owned'
    <3>1. SUFFICES ASSUME gauge.img \in {"mixed", "target"}
                   PROVE  Scale!Load(slots'[gauge.by]).phase \in {"Pending", "Applied", "Restoring"} /\ fence[gauge.by]
      BY <1>3 DEF Scale!Owned
    <3>2. Scale!Load(slots[gauge.by]).phase \in {"Pending", "Applied", "Restoring"} /\ fence[gauge.by] /\ gauge.by \in Scale!Ledgers
      BY <1>2, <3>1 DEF ScaleInv, Scale!Owned, ScaleGauges
    <3>3. gauge.by = job.led
      BY <2>5, <3>2
    <3>4. QED BY <2>1, <2>2, <3>1, <3>2, <3>3
  <2>7. UnitsHeld'
    <3>1. ASSUME NEW k \in Scale!Ledgers PROVE UnitHeld(k, slots', rt, gauge)
      <4>1. CASE k = job.led
        BY <1>2, <4>1 DEF UnitHeld
      <4>2. CASE k # job.led
        BY <2>2, <2>5, <4>2 DEF UnitHeld
      <4>3. QED BY <4>1, <4>2
    <3>2. QED BY <3>1 DEF UnitsHeld
  <2>8. ScaleAtWork'
    <3>1. CASE job'.pc = p
      BY <1>2, <1>3, <2>1, <2>2, <2>3, <3>1 DEF ScaleAtWork, ScaleWork, OnRecord, Arrived, AtGauge
    <3>2. CASE job'.pc \in {"admit", "protect", "over"}
      BY <1>2, <1>3, <2>2, <2>3, <3>2 DEF ScaleAtWork, ScaleWork, AtGauge
    <3>3. QED BY <2>3, <3>1, <3>2
  <2>9. QED BY <2>2, <2>4, <2>6, <2>7, <2>8 DEF ScaleInv
<1>6. QED BY <1>1, <1>4, <1>5

LEMMA ScaleIntent == ASSUME ScaleInv, Scale!Intent PROVE ScaleInv'
<1>1. job.pc = "intent" /\ Scale!Ready(job.led) /\ UNCHANGED <<gauge, rt, ver, timer, resets>> /\ job.mode \in {"apply", "restore"} /\ job.led \in Scale!Ledgers
  BY ScaleAt DEF Scale!Intent, Scale!Ours
<1>2. CASE job.mode = "restore" /\ Scale!Rec(job.led).phase = "Restoring"
  <2>1. Scale!Go("open") /\ UNCHANGED <<slots, fence>>
    BY <1>2 DEF Scale!Intent, Scale!Ours
  <2>2. Scale!Load(slots[job.led]).phase = "Restoring"
    BY <1>1, <1>2, ScaleRecorded DEF ScaleInv, ScaleType
  <2>3. job' \in ScaleJobs /\ job'.led = job.led /\ job'.pc = "open" /\ job'.mode = "restore" /\ "open" \in AtGauge
    BY <1>2, <2>1, ScaleGone DEF Steps, AtGauge
  <2>4. OnRecord(job', slots)
    BY <2>2, <2>3 DEF OnRecord
  <2>5. job'.pc \in AtGauge \cup {"admit", "protect", "over"} /\ job'.pc \notin {"seal", "final"}
    BY <2>3
  <2>6. QED BY <1>1, <2>1, <2>3, <2>4, <2>5, ScaleAt, ScaleAtGauge
<1>3. CASE ~(job.mode = "restore" /\ Scale!Rec(job.led).phase = "Restoring")
  <2>1. PICK phase \in {"Pending", "Restoring"} : phase = (IF job.mode = "apply" THEN "Pending" ELSE "Restoring")
    OBVIOUS
  <2>2. Scale!Intend(phase, "open")
    BY <1>1, <1>3, <2>1 DEF Scale!Intent, Scale!Ours
  <2>3. QED BY <1>1, <2>1, <2>2, ScaleIntends
<1>4. QED BY <1>2, <1>3

LEMMA ScaleCompletes == ASSUME ScaleInv, Scale!Complete PROVE ScaleInv'
<1>1. /\ job.pc = "final" /\ gauge.sec = 3 /\ Scale!Ready(job.led) /\ UNCHANGED <<gauge, rt, ver, timer, resets>>
      /\ Arrived(job, gauge) /\ job.mode \in {"apply", "restore"} /\ job.led \in Scale!Ledgers
  <2>1. job.pc = "final" /\ gauge.sec = 3 /\ Scale!Ready(job.led) /\ UNCHANGED <<gauge, rt, ver, timer, resets>>
    BY DEF Scale!Complete, Scale!Ours
  <2>2. job.pc \in AtGauge \cup {"intent", "protect"} /\ job.pc \in {"seal", "final"}
    BY <2>1 DEF AtGauge
  <2>3. QED BY <2>1, <2>2, ScaleAt
<1>2. PICK phase \in {"Original", "Applied"} : phase = (IF job.mode = "apply" THEN "Applied" ELSE "Original")
  OBVIOUS
<1>3. Scale!Intend(phase, "publish")
  BY <1>1, <1>2 DEF Scale!Complete
<1>4. phase = "Original" => gauge.img \notin {"mixed", "target"}
  BY <1>1, <1>2 DEF Arrived
<1>5. QED BY <1>1, <1>2, <1>3, <1>4, ScaleIntends

\* steps that leave the ledgers and the gauge alone
LEMMA ScaleFlagsOnly ==
  ASSUME ScaleInv, slots' = slots, gauge' = gauge, resets' = resets, timer' \in 0 .. 2,
         fence' \in [Scale!Ledgers -> BOOLEAN], gauge.img \in {"mixed", "target"} => (fence[gauge.by] => fence'[gauge.by]),
         rt' \in [Scale!Ledgers -> SUBSET ScaleFlags], \A k \in Scale!Ledgers : UnitHeld(k, slots, rt', gauge),
         job' \in ScaleJobs, ScaleWork(job', slots, fence', rt', gauge)
  PROVE  ScaleInv'
<1>1. ScaleType' /\ Scale!LedgersRead'
  BY DEF ScaleInv, ScaleType, Scale!LedgersRead
<1>2. Scale!Owned'
  BY DEF ScaleInv, Scale!Owned
<1>3. UnitsHeld' /\ ScaleAtWork'
  BY DEF UnitsHeld, ScaleAtWork
<1>4. QED BY <1>1, <1>2, <1>3 DEF ScaleInv

\* units can be dropped
LEMMA ScaleDropped ==
  ASSUME ScaleInv, rt' \in [Scale!Ledgers -> SUBSET ScaleFlags], NEW l \in Scale!Ledgers,
         \A k \in Scale!Ledgers : ("prepared" \in rt'[k] => "prepared" \in rt[k]) /\ ("applied" \in rt'[k] => "applied" \in rt[k])
  PROVE  \A k \in Scale!Ledgers : UnitHeld(k, slots, rt', gauge)
BY DEF ScaleInv, UnitsHeld, UnitHeld

LEMMA ScaleFlagsDropped ==
  ASSUME ScaleInv, NEW l \in Scale!Ledgers, NEW out, NEW in \in SUBSET (ScaleFlags \ {"prepared", "applied"}), Scale!Flags(l, out, in)
  PROVE  /\ rt' \in [Scale!Ledgers -> SUBSET ScaleFlags] /\ \A k \in Scale!Ledgers : UnitHeld(k, slots, rt', gauge)
         /\ rt'[l] = (rt[l] \ out) \cup in
<1>1. rt \in [Scale!Ledgers -> SUBSET ScaleFlags]
  BY DEF ScaleInv, ScaleType
<1>2. rt' \in [Scale!Ledgers -> SUBSET ScaleFlags] /\ rt'[l] = (rt[l] \ out) \cup in /\ \A k \in Scale!Ledgers : k # l => rt'[k] = rt[k]
  BY <1>1, ScaleFlagged
<1>3. QED BY <1>2, ScaleDropped

LEMMA ScaleAdmits == ASSUME ScaleInv, Scale!Admit PROVE ScaleInv'
<1>1. job.pc = "admit" /\ UNCHANGED <<slots, gauge, ver, fence, timer, resets>>
  BY DEF Scale!Admit
<1>2. /\ job \in ScaleJobs /\ job.led \in Scale!Ledgers /\ fence \in [Scale!Ledgers -> BOOLEAN] /\ timer \in 0 .. 2
      /\ Scale!Load(slots[job.led]) # Scale!Absent /\ fence[job.led] /\ rt \in [Scale!Ledgers -> SUBSET ScaleFlags]
  BY <1>1 DEF ScaleInv, ScaleType, ScaleJobs, ScaleAtWork, ScaleWork, Steps, AtGauge
<1>3. CASE rt' = rt /\ Scale!Go("over")
  <2>1. job' \in ScaleJobs /\ job'.led = job.led /\ job'.pc = "over"
    BY <1>3, ScaleGone DEF Steps, AtGauge
  <2>2. ScaleWork(job', slots, fence', rt', gauge)
    BY <1>1, <1>2, <2>1 DEF ScaleWork, AtGauge
  <2>3. \A k \in Scale!Ledgers : UnitHeld(k, slots, rt', gauge)
    BY <1>3 DEF ScaleInv, UnitsHeld
  <2>4. QED BY <1>1, <1>2, <1>3, <2>1, <2>2, <2>3, ScaleFlagsOnly
<1>4. CASE (Scale!Go("intent") \/ Scale!Go("protect")) /\ \E in \in SUBSET (ScaleFlags \ {"prepared", "applied"}) : Scale!Flags(job.led, {"prepared", "applied"}, in)
  <2>1. PICK in \in SUBSET (ScaleFlags \ {"prepared", "applied"}) : Scale!Flags(job.led, {"prepared", "applied"}, in)
    BY <1>4
  <2>2. /\ rt' \in [Scale!Ledgers -> SUBSET ScaleFlags] /\ \A k \in Scale!Ledgers : UnitHeld(k, slots, rt', gauge)
        /\ "prepared" \notin rt'[job.led] /\ "applied" \notin rt'[job.led]
    BY <1>2, <2>1, ScaleFlagsDropped
  <2>3. job' \in ScaleJobs /\ job'.led = job.led /\ job'.pc \in {"intent", "protect"}
    BY <1>4, ScaleGone DEF Steps, AtGauge
  <2>4. ScaleWork(job', slots, fence', rt', gauge)
    BY <1>1, <1>2, <2>2, <2>3 DEF ScaleWork, AtGauge
  <2>5. QED BY <1>1, <1>2, <2>2, <2>3, <2>4, ScaleFlagsOnly
<1>5. {"applyTried"} \in SUBSET (ScaleFlags \ {"prepared", "applied"}) /\ {} \in SUBSET (ScaleFlags \ {"prepared", "applied"})
  BY DEF ScaleFlags
<1>6. \/ rt' = rt /\ Scale!Go("over")
      \/ Scale!Go("intent") /\ Scale!Flags(job.led, {"prepared", "applied"}, {"applyTried"})
      \/ (Scale!Go("intent") \/ Scale!Go("protect")) /\ Scale!Flags(job.led, {"prepared", "applied"}, {})
  BY DEF Scale!Admit, Scale!Ours
<1>7. QED BY <1>3, <1>4, <1>5, <1>6

\* the unit of what the gauge holds
LEMMA ScalePublishes == ASSUME ScaleInv, Scale!Publish PROVE ScaleInv'
<1>1. job.pc = "publish" /\ Scale!Go("over") /\ timer' = 0 /\ UNCHANGED <<slots, gauge, fence, resets>>
  BY DEF Scale!Publish
<1>2. /\ job \in ScaleJobs /\ job.led \in Scale!Ledgers /\ job.mode \in {"apply", "restore"} /\ fence \in [Scale!Ledgers -> BOOLEAN]
      /\ Scale!Load(slots[job.led]) # Scale!Absent /\ fence[job.led] /\ rt \in [Scale!Ledgers -> SUBSET ScaleFlags]
      /\ "prepared" \notin rt[job.led] /\ "applied" \notin rt[job.led] /\ Arrived(job, gauge) /\ gauge.sec = 3
      /\ Scale!Load(slots[job.led]).phase = (IF job.mode = "apply" THEN "Applied" ELSE "Original")
  BY <1>1 DEF ScaleInv, ScaleType, ScaleJobs, ScaleAtWork, ScaleWork, Steps, AtGauge
<1>3. job' \in ScaleJobs /\ job'.led = job.led /\ job'.pc = "over"
  BY <1>1, ScaleGone DEF Steps, AtGauge
<1>4. ScaleWork(job', slots, fence', rt', gauge)
  BY <1>1, <1>2, <1>3 DEF ScaleWork, AtGauge
<1>5. CASE job.mode = "apply"
  <2>1. Scale!Flags(job.led, {"prepared"}, {"applied", "active"}) /\ {"applied", "active"} \in SUBSET ScaleFlags
    BY <1>1, <1>5 DEF Scale!Publish, Scale!Ours, ScaleFlags
  <2>2. /\ rt' \in [Scale!Ledgers -> SUBSET ScaleFlags] /\ rt'[job.led] = (rt[job.led] \ {"prepared"}) \cup {"applied", "active"}
        /\ \A k \in Scale!Ledgers : k # job.led => rt'[k] = rt[k]
    BY <1>2, <2>1, ScaleFlagged
  <2>3. ASSUME NEW k \in Scale!Ledgers PROVE UnitHeld(k, slots, rt', gauge)
    <3>1. CASE k = job.led
      BY <1>2, <1>5, <3>1 DEF UnitHeld, Arrived
    <3>2. CASE k # job.led
      BY <2>2, <3>2 DEF UnitHeld, ScaleInv, UnitsHeld
    <3>3. QED BY <3>1, <3>2
  <2>4. QED BY <1>1, <1>2, <1>3, <1>4, <2>2, <2>3, ScaleFlagsOnly
<1>6. CASE job.mode = "restore"
  <2>1. PICK in \in {{}, {"prepared"}} : Scale!Flags(job.led, {"applied", "active"}, in)
    BY <1>6 DEF Scale!Publish, Scale!Ours
  <2>2. in \in SUBSET ScaleFlags
    BY DEF ScaleFlags
  <2>3. /\ rt' \in [Scale!Ledgers -> SUBSET ScaleFlags] /\ rt'[job.led] = (rt[job.led] \ {"applied", "active"}) \cup in
        /\ \A k \in Scale!Ledgers : k # job.led => rt'[k] = rt[k]
    BY <1>2, <2>1, <2>2, ScaleFlagged
  <2>4. ASSUME NEW k \in Scale!Ledgers PROVE UnitHeld(k, slots, rt', gauge)
    <3>1. CASE k = job.led
      BY <1>2, <1>6, <3>1 DEF UnitHeld, Arrived
    <3>2. CASE k # job.led
      BY <2>3, <3>2 DEF UnitHeld, ScaleInv, UnitsHeld
    <3>3. QED BY <3>1, <3>2
  <2>5. QED BY <1>1, <1>2, <1>3, <1>4, <2>3, <2>4, ScaleFlagsOnly
<1>7. QED BY <1>2, <1>5, <1>6

LEMMA ScaleOver == ASSUME ScaleInv, Scale!Over PROVE ScaleInv'
<1>1. job.pc = "over" /\ Scale!Go("idle") /\ Scale!Fenced(job.led, Scale!Rec(job.led).phase) /\ UNCHANGED <<slots, gauge, rt, ver, timer, resets>>
  BY DEF Scale!Over, Scale!Ours
<1>2. /\ job \in ScaleJobs /\ job.led \in Scale!Ledgers /\ fence \in [Scale!Ledgers -> BOOLEAN]
      /\ Scale!Load(slots[job.led]) # Scale!Absent /\ rt \in [Scale!Ledgers -> SUBSET ScaleFlags] /\ timer \in 0 .. 2
  BY <1>1 DEF ScaleInv, ScaleType, ScaleJobs, ScaleAtWork, ScaleWork, Steps, AtGauge
<1>3. job' = [job EXCEPT !.pc = "idle"]
  BY <1>1 DEF Scale!Go
<1>4. job' \in ScaleJobs /\ job'.pc = "idle"
  BY <1>2, <1>3 DEF ScaleJobs
<1>5. ScaleWork(job', slots, fence', rt', gauge)
  BY <1>4 DEF ScaleWork, AtGauge, Steps
<1>6. Scale!Rec(job.led) = Scale!Load(slots[job.led])
  BY <1>2 DEF Scale!Rec
<1>7. fence' = [fence EXCEPT ![job.led] = Scale!Load(slots[job.led]).phase \notin {"Missing", "Original"}]
  BY <1>1, <1>6 DEF Scale!Fenced
<1>8. fence' \in [Scale!Ledgers -> BOOLEAN]
  BY <1>2, <1>7
<1>9. gauge.img \in {"mixed", "target"} => (fence[gauge.by] => fence'[gauge.by])
  <2>1. SUFFICES ASSUME gauge.img \in {"mixed", "target"} PROVE fence[gauge.by] => fence'[gauge.by]
    OBVIOUS
  <2>2. Scale!Load(slots[gauge.by]).phase \in {"Pending", "Applied", "Restoring"} /\ gauge.by \in Scale!Ledgers
    BY <2>1 DEF ScaleInv, Scale!Owned, ScaleType, ScaleGauges
  <2>3. CASE gauge.by = job.led
    BY <1>2, <1>7, <2>2, <2>3
  <2>4. CASE gauge.by # job.led
    BY <1>2, <1>7, <2>2, <2>4
  <2>5. QED BY <2>3, <2>4
<1>10. \A k \in Scale!Ledgers : UnitHeld(k, slots, rt', gauge)
  BY <1>1 DEF ScaleInv, UnitsHeld
<1>11. QED BY <1>1, <1>2, <1>4, <1>5, <1>8, <1>9, <1>10, ScaleFlagsOnly

\* boots
LEMMA ScaleBoots ==
  ASSUME ScaleInv, NEW f \in [Scale!Ledgers -> BOOLEAN], slots' = slots, fence' = f, rt' \in [Scale!Ledgers -> SUBSET ScaleFlags], 
         \A k \in Scale!Ledgers : rt'[k] \subseteq {"seen"},
         job' \in ScaleJobs, job'.pc \in {"boot", "idle"}, timer' \in 0 .. 2, resets' \in 0 .. MaxResets, gauge' \in ScaleGauges,
         gauge'.img \in {"mixed", "target"} => gauge'.img = gauge.img /\ gauge'.by = gauge.by,
         \A k \in Scale!Ledgers : Scale!Load(slots[k]).phase \in {"Pending", "Applied", "Restoring"} => f[k]
  PROVE  ScaleInv'
<1>1. ScaleType' /\ Scale!LedgersRead'
  BY DEF ScaleInv, ScaleType, Scale!LedgersRead
<1>2. Scale!Owned'
  BY DEF ScaleInv, Scale!Owned, ScaleType, ScaleGauges
<1>3. UnitsHeld'
  BY DEF UnitsHeld, UnitHeld
<1>4. ScaleAtWork'
  BY DEF ScaleAtWork, ScaleWork, AtGauge, Steps
<1>5. QED BY <1>1, <1>2, <1>3, <1>4 DEF ScaleInv

LEMMA ScaleResets == ASSUME ScaleInv, Scale!Reset PROVE ScaleInv'
<1>1. /\ resets' = resets + 1 /\ resets < MaxResets /\ rt' = [l \in Scale!Ledgers |-> {}] /\ fence' = [l \in Scale!Ledgers |-> TRUE]
      /\ job' = Scale!NoJob /\ timer' = 0 /\ slots' = slots
  BY DEF Scale!Reset
<1>2. gauge \in ScaleGauges /\ resets \in 0 .. MaxResets /\ MaxResets \in Nat
  BY ScaleConstants DEF ScaleInv, ScaleType
<1>3. \/ gauge' = gauge
      \/ \E img \in {"source", "other"} : gauge' = [gauge EXCEPT !.sec = 3, !.cfg = FALSE, !.img = img]
  BY DEF Scale!Reset
<1>4. gauge' \in ScaleGauges /\ (gauge'.img \in {"mixed", "target"} => gauge'.img = gauge.img /\ gauge'.by = gauge.by)
  <2>1. CASE gauge' = gauge
    BY <1>2, <2>1
  <2>2. CASE \E img \in {"source", "other"} : gauge' = [gauge EXCEPT !.sec = 3, !.cfg = FALSE, !.img = img]
    <3>1. PICK img \in {"source", "other"} : gauge' = [gauge EXCEPT !.sec = 3, !.cfg = FALSE, !.img = img]
      BY <2>2
    <3>2. img \in {"source", "mixed", "target", "other"} /\ img \notin {"mixed", "target"}
      OBVIOUS
    <3>3. gauge' = [img |-> img, sec |-> 3, cfg |-> FALSE, home |-> gauge.home, by |-> gauge.by] /\ gauge.home \in Scale!Ledgers /\ gauge.by \in Scale!Ledgers
      BY <1>2, <3>1 DEF ScaleGauges
    <3>4. gauge' \in ScaleGauges /\ gauge'.img = img
      BY <3>2, <3>3 DEF ScaleGauges
    <3>5. QED BY <3>2, <3>4
  <2>3. QED BY <1>3, <2>1, <2>2
<1>5. Scale!NoJob \in ScaleJobs /\ Scale!NoJob.pc = "boot"
  BY DEF Scale!NoJob, ScaleJobs, Scale!Ledgers
<1>6. fence' \in [Scale!Ledgers -> BOOLEAN] /\ rt' \in [Scale!Ledgers -> SUBSET ScaleFlags] /\ \A k \in Scale!Ledgers : rt'[k] \subseteq {"seen"} /\ fence'[k]
  BY <1>1
<1>7. timer' \in 0 .. 2 /\ resets' \in 0 .. MaxResets
  BY <1>1, <1>2
<1>8. QED BY <1>1, <1>4, <1>5, <1>6, <1>7, ScaleBoots

LEMMA ScaleBootFence == ASSUME ScaleInv, Scale!BootFence PROVE ScaleInv'
<1>1. /\ job' = [job EXCEPT !.pc = "idle"] /\ UNCHANGED <<slots, ver, timer, resets>>
      /\ fence' = [l \in Scale!Ledgers |-> Scale!Rec(l).phase \notin {"Missing", "Original"}]
      /\ rt' = [l \in Scale!Ledgers |-> IF Scale!Rec(l) = Scale!Absent THEN {} ELSE {"seen"}]
  BY DEF Scale!BootFence
<1>2. gauge \in ScaleGauges /\ resets \in 0 .. MaxResets /\ timer \in 0 .. 2 /\ job \in ScaleJobs
  BY DEF ScaleInv, ScaleType
<1>3. gauge' = gauge \/ gauge' = [gauge EXCEPT !.img = "source"]
  BY DEF Scale!BootFence
<1>4. gauge' \in ScaleGauges /\ (gauge'.img \in {"mixed", "target"} => gauge'.img = gauge.img /\ gauge'.by = gauge.by)
  BY <1>2, <1>3 DEF ScaleGauges
<1>5. job' \in ScaleJobs /\ job'.pc = "idle"
  BY <1>1, <1>2 DEF ScaleJobs
<1>6. fence' \in [Scale!Ledgers -> BOOLEAN] /\ rt' \in [Scale!Ledgers -> SUBSET ScaleFlags] /\ \A k \in Scale!Ledgers : rt'[k] \subseteq {"seen"}
  BY <1>1 DEF ScaleFlags
<1>7. ASSUME NEW k \in Scale!Ledgers, Scale!Load(slots[k]).phase \in {"Pending", "Applied", "Restoring"} PROVE fence'[k]
  <2>1. Scale!Load(slots[k]) # Scale!Absent
    BY <1>7 DEF Scale!Absent
  <2>2. Scale!Rec(k) = Scale!Load(slots[k])
    BY <2>1 DEF Scale!Rec
  <2>3. QED BY <1>1, <1>7, <2>2
<1>8. timer' \in 0 .. 2 /\ resets' \in 0 .. MaxResets /\ slots' = slots
  BY <1>1, <1>2
<1>9. QED BY <1>4, <1>5, <1>6, <1>7, <1>8, ScaleBoots

LEMMA ScaleLater == ASSUME ScaleInv, Scale!Later PROVE ScaleInv'
<1>1. UNCHANGED <<slots, gauge, rt, ver, fence, job, resets>> /\ timer' \in 0 .. 2
  BY DEF Scale!Later, ScaleInv, ScaleType
<1>2. ScaleType /\ ScaleAtWork /\ UnitsHeld
  BY DEF ScaleInv
<1>3. /\ fence' \in [Scale!Ledgers -> BOOLEAN] /\ rt' \in [Scale!Ledgers -> SUBSET ScaleFlags] /\ job' \in ScaleJobs
      /\ ScaleWork(job', slots, fence', rt', gauge) /\ \A k \in Scale!Ledgers : UnitHeld(k, slots, rt', gauge)
  BY <1>1, <1>2 DEF ScaleType, ScaleAtWork, UnitsHeld
<1>4. QED BY <1>1, <1>3, ScaleFlagsOnly

\* a step of no operation: the flags of one ledger, and the fence of one
LEMMA ScaleNoWork ==
  ASSUME NEW j, j.pc = "idle", NEW s, NEW f, NEW flags, NEW g
  PROVE  ScaleWork(j, s, f, flags, g)
BY DEF ScaleWork, AtGauge, Steps

\* Prepare records the source once, and gives its unit
LEMMA ScalePrepares == ASSUME ScaleInv, NEW l \in Scale!Ledgers, Scale!Prepare(l) PROVE ScaleInv'
<1> DEFINE first == [phase |-> "Original", gen |-> 1]
           dropped == IF l = "factory" THEN {"prepared"} ELSE {}
<1>1. /\ job.pc = "idle" /\ job' = job /\ gauge' = gauge /\ timer' = timer /\ resets' = resets
      /\ Scale!Rec(Scale!Other(l)) = Scale!Absent /\ Scale!Rec(l).phase \in {"Missing", "Original"}
  BY DEF Scale!Prepare, Scale!Idle
<1>2. /\ job \in ScaleJobs /\ fence \in [Scale!Ledgers -> BOOLEAN] /\ rt \in [Scale!Ledgers -> SUBSET ScaleFlags] /\ timer \in 0 .. 2
      /\ slots \in [Scale!Ledgers -> ScaleSlots] /\ ScaleType /\ Scale!LedgersRead
  BY DEF ScaleInv, ScaleType
<1>3. ScaleWork(job', slots', fence', rt', gauge')
  BY <1>1, ScaleNoWork
<1>4. Scale!Load(slots[Scale!Other(l)]) = Scale!Absent
  <2>1. [phase |-> "Ambiguous", gen |-> 0] # Scale!Absent
    BY DEF Scale!Absent
  <2>2. QED BY <1>1, <2>1 DEF Scale!Rec
<1>5. gauge.img \in {"mixed", "target"} => gauge.by = l /\ Scale!Load(slots[l]).phase \in {"Pending", "Applied", "Restoring"}
  <2>1. SUFFICES ASSUME gauge.img \in {"mixed", "target"} PROVE gauge.by = l /\ Scale!Load(slots[l]).phase \in {"Pending", "Applied", "Restoring"}
    OBVIOUS
  <2>2. Scale!Load(slots[gauge.by]).phase \in {"Pending", "Applied", "Restoring"} /\ gauge.by \in Scale!Ledgers
    BY <2>1 DEF ScaleInv, Scale!Owned, ScaleType, ScaleGauges
  <2>3. Scale!Absent.phase = "Missing"
    BY DEF Scale!Absent
  <2>4. gauge.by # Scale!Other(l)
    BY <1>4, <2>2, <2>3
  <2>5. QED BY <2>2, <2>4, ScaleOther
<1>6. gauge.img \notin {"mixed", "target"}
  <2>1. SUFFICES ASSUME gauge.img \in {"mixed", "target"} PROVE FALSE
    OBVIOUS
  <2>2. Scale!Load(slots[l]).phase \in {"Pending", "Applied", "Restoring"} /\ Scale!Load(slots[l]) # Scale!Absent
    BY <1>5, <2>1 DEF Scale!Absent
  <2>3. Scale!Rec(l) = Scale!Load(slots[l])
    BY <2>2 DEF Scale!Rec
  <2>4. QED BY <1>1, <2>2, <2>3
<1>7. CASE slots' = slots /\ fence' = fence /\ \E out \in {dropped, {"prepared", "applied"}} : Scale!Flags(l, out, {})
  <2>1. PICK out \in {dropped, {"prepared", "applied"}} : Scale!Flags(l, out, {})
    BY <1>7
  <2>2. {} \in SUBSET (ScaleFlags \ {"prepared", "applied"})
    OBVIOUS
  <2>3. rt' \in [Scale!Ledgers -> SUBSET ScaleFlags] /\ \A k \in Scale!Ledgers : UnitHeld(k, slots, rt', gauge)
    BY <2>1, <2>2, ScaleFlagsDropped
  <2>4. QED BY <1>1, <1>2, <1>3, <1>7, <2>3, ScaleFlagsOnly
<1>8. CASE /\ gauge.img = "source" /\ gauge.sec = 3 /\ (Scale!Load(slots[l]) = Scale!Absent \/ slots' = slots)
           /\ Scale!Save(l, first) \/ slots' = slots
           /\ \E b \in BOOLEAN : fence' = [fence EXCEPT ![l] = b]
           /\ \E out \in SUBSET ScaleFlags : \E in \in SUBSET ScaleFlags : Scale!Flags(l, out, in) /\ ("applied" \in out \/ "applied" \notin in)
           /\ Scale!Load(slots'[l]).phase \in {"Missing", "Original"}
  <2>1. PICK b \in BOOLEAN : fence' = [fence EXCEPT ![l] = b]
    BY <1>8
  <2>2. fence' \in [Scale!Ledgers -> BOOLEAN]
    BY <1>2, <2>1
  <2>3. PICK out \in SUBSET ScaleFlags, in \in SUBSET ScaleFlags : Scale!Flags(l, out, in)
    BY <1>8
  <2>4. rt' \in [Scale!Ledgers -> SUBSET ScaleFlags] /\ \A k \in Scale!Ledgers : k # l => rt'[k] = rt[k]
    BY <1>2, <2>3, ScaleFlagged
  <2>5. slots' \in [Scale!Ledgers -> ScaleSlots] /\ Scale!LedgersRead' /\ \A k \in Scale!Ledgers : k # l => slots'[k] = slots[k]
    <3>1. CASE slots' = slots
      BY <1>2, <3>1 DEF Scale!LedgersRead
    <3>2. CASE Scale!Save(l, first) /\ Scale!Load(slots[l]) = Scale!Absent
      <4>1. first.gen <= MaxSaves
        BY <3>2 DEF Scale!Save
      <4>2. first \in ScaleRecords
        BY <4>1, ScaleConstants DEF ScaleRecords
      <4>3. QED BY <1>2, <1>4, <3>2, <4>2, ScaleStored
    <3>3. QED BY <1>8, <3>1, <3>2
  <2>6. ScaleType'
    BY <1>1, <1>2, <2>2, <2>4, <2>5 DEF ScaleType
  <2>7. Scale!Owned'
    BY <1>1, <1>6 DEF Scale!Owned
  <2>8. UnitsHeld'
    <3>1. ASSUME NEW k \in Scale!Ledgers PROVE UnitHeld(k, slots', rt', gauge)
      <4>1. CASE k = l
        BY <1>8, <4>1 DEF UnitHeld
      <4>2. CASE k # l
        BY <2>4, <2>5, <4>2 DEF UnitHeld, ScaleInv, UnitsHeld
      <4>3. QED BY <4>1, <4>2
    <3>2. QED BY <1>1, <3>1 DEF UnitsHeld
  <2>9. QED BY <1>3, <2>5, <2>6, <2>7, <2>8 DEF ScaleInv, ScaleAtWork
<1>9. Scale!Load(slots'[l]).phase \in {"Missing", "Original"} \/ ~(Scale!Save(l, first) \/ slots' = slots) \/ ~(Scale!Load(slots[l]) = Scale!Absent \/ slots' = slots)
  <2>1. CASE Scale!Save(l, first) /\ Scale!Load(slots[l]) = Scale!Absent
    <3>1. first.gen <= MaxSaves
      BY <2>1 DEF Scale!Save
    <3>2. first \in ScaleRecords
      BY <3>1, ScaleConstants DEF ScaleRecords
    <3>3. Scale!Load(slots'[l]) = first
      BY <1>2, <1>4, <2>1, <3>2, ScaleStored
    <3>4. QED BY <3>3
  <2>2. CASE slots' = slots
    <3>1. CASE Scale!Load(slots[l]) = Scale!Absent
      BY <2>2, <3>1 DEF Scale!Absent
    <3>2. CASE Scale!Load(slots[l]) # Scale!Absent
      <4>1. Scale!Rec(l) = Scale!Load(slots[l])
        BY <3>2 DEF Scale!Rec
      <4>2. QED BY <1>1, <2>2, <4>1
    <3>3. QED BY <3>1, <3>2
  <2>3. QED BY <2>1, <2>2
<1>10. Scale!Rec(l) = Scale!Absent => Scale!Load(slots[l]) = Scale!Absent
  <2>1. [phase |-> "Ambiguous", gen |-> 0] # Scale!Absent
    BY DEF Scale!Absent
  <2>2. QED BY <2>1 DEF Scale!Rec
<1>11. \/ slots' = slots /\ fence' = fence /\ (Scale!Flags(l, dropped, {}) \/ Scale!Flags(l, {"prepared", "applied"}, {}))
       \/ /\ Scale!Rec(l) = Scale!Absent /\ gauge.img = "source" /\ gauge.sec = 3 /\ (Scale!Save(l, first) \/ slots' = slots)
          /\ Scale!Flags(l, {"prepared"}, IF l = "factory" THEN {"seen"} ELSE {}) /\ fence' = [fence EXCEPT ![l] = TRUE]
       \/ /\ gauge.img = "source" /\ gauge.sec = 3 /\ (IF Scale!Rec(l) = Scale!Absent THEN Scale!Save(l, first) ELSE slots' = slots)
          /\ Scale!Flags(l, {"applied"}, {"prepared", "seen"}) /\ fence' = [fence EXCEPT ![l] = FALSE]
  BY DEF Scale!Prepare
<1>12. /\ {"prepared"} \in SUBSET ScaleFlags /\ {"seen"} \in SUBSET ScaleFlags /\ {} \in SUBSET ScaleFlags
       /\ {"applied"} \in SUBSET ScaleFlags /\ {"prepared", "seen"} \in SUBSET ScaleFlags
       /\ "applied" \notin {} /\ "applied" \notin {"seen"} /\ "applied" \in {"applied"}
  BY DEF ScaleFlags
<1>13. CASE /\ Scale!Rec(l) = Scale!Absent /\ gauge.img = "source" /\ gauge.sec = 3 /\ (Scale!Save(l, first) \/ slots' = slots)
            /\ Scale!Flags(l, {"prepared"}, IF l = "factory" THEN {"seen"} ELSE {}) /\ fence' = [fence EXCEPT ![l] = TRUE]
  <2>1. PICK in \in {{}, {"seen"}} : Scale!Flags(l, {"prepared"}, in)
    BY <1>13
  <2>2. in \in SUBSET ScaleFlags /\ "applied" \notin in
    BY <1>12
  <2>3. \E out \in SUBSET ScaleFlags : \E i \in SUBSET ScaleFlags : Scale!Flags(l, out, i) /\ ("applied" \in out \/ "applied" \notin i)
    BY <1>12, <2>1, <2>2
  <2>4. QED BY <1>8, <1>9, <1>10, <1>13, <2>3
<1>14. CASE /\ gauge.img = "source" /\ gauge.sec = 3 /\ (IF Scale!Rec(l) = Scale!Absent THEN Scale!Save(l, first) ELSE slots' = slots)
            /\ Scale!Flags(l, {"applied"}, {"prepared", "seen"}) /\ fence' = [fence EXCEPT ![l] = FALSE]
  <2>1. \E out \in SUBSET ScaleFlags : \E i \in SUBSET ScaleFlags : Scale!Flags(l, out, i) /\ ("applied" \in out \/ "applied" \notin i)
    BY <1>12, <1>14
  <2>2. QED BY <1>8, <1>9, <1>10, <1>14, <2>1
<1>15. QED BY <1>7, <1>11, <1>13, <1>14

LEMMA ScaleImages == ASSUME ScaleInv, NEW l \in Scale!Ledgers, Scale!Images(l) PROVE ScaleInv'
<1>1. job.pc = "idle" /\ UNCHANGED <<slots, gauge, ver, fence, job, timer, resets>>
  BY DEF Scale!Images, Scale!Idle
<1>2. PICK in \in {{}, {"images"}} : Scale!Flags(l, {"images"}, in)
  BY DEF Scale!Images
<1>3. in \in SUBSET (ScaleFlags \ {"prepared", "applied"})
  BY DEF ScaleFlags
<1>4. rt' \in [Scale!Ledgers -> SUBSET ScaleFlags] /\ \A k \in Scale!Ledgers : UnitHeld(k, slots, rt', gauge)
  BY <1>2, <1>3, ScaleFlagsDropped
<1>5. /\ job \in ScaleJobs /\ fence \in [Scale!Ledgers -> BOOLEAN] /\ timer \in 0 .. 2
      /\ ScaleWork(job', slots, fence', rt', gauge)
  BY <1>1, ScaleNoWork DEF ScaleInv, ScaleType
<1>6. QED BY <1>1, <1>4, <1>5, ScaleFlagsOnly

LEMMA ScaleBegins ==
  ASSUME ScaleInv, NEW l \in Scale!Ledgers, NEW mode \in {"apply", "restore"}, NEW out, Scale!Begin(l, mode, out),
         UNCHANGED <<slots, gauge, ver, timer, resets>>
  PROVE  ScaleInv'
<1>1. Scale!Ready(l) /\ fence' = [fence EXCEPT ![l] = TRUE] /\ job' = [pc |-> "admit", led |-> l, mode |-> mode]
  BY DEF Scale!Begin
<1>2. PICK away : Scale!Flags(l, away, {"seen"})
  BY DEF Scale!Begin
<1>3. {"seen"} \in SUBSET (ScaleFlags \ {"prepared", "applied"})
  BY DEF ScaleFlags
<1>4. rt' \in [Scale!Ledgers -> SUBSET ScaleFlags] /\ \A k \in Scale!Ledgers : UnitHeld(k, slots, rt', gauge)
  BY <1>2, <1>3, ScaleFlagsDropped
<1>5. slots \in [Scale!Ledgers -> ScaleSlots] /\ fence \in [Scale!Ledgers -> BOOLEAN] /\ timer \in 0 .. 2 /\ gauge \in ScaleGauges
  BY DEF ScaleInv, ScaleType
<1>6. Scale!Load(slots[l]) # Scale!Absent
  BY <1>1, <1>5, ScaleRecorded
<1>7. fence' \in [Scale!Ledgers -> BOOLEAN] /\ fence'[l] /\ (gauge.img \in {"mixed", "target"} => (fence[gauge.by] => fence'[gauge.by]))
  BY <1>1, <1>5 DEF ScaleGauges
<1>8. job' \in ScaleJobs /\ job'.pc = "admit" /\ job'.led = l
  BY <1>1 DEF ScaleJobs, Steps
<1>9. ScaleWork(job', slots, fence', rt', gauge)
  BY <1>6, <1>7, <1>8 DEF ScaleWork, AtGauge
<1>10. QED BY <1>4, <1>5, <1>7, <1>8, <1>9, ScaleFlagsOnly

LEMMA ScalePolls == ASSUME ScaleInv, NEW l \in Scale!Ledgers, Scale!Apply(l) \/ Scale!Restore(l) \/ Scale!Poll(l) PROVE ScaleInv'
<1>1. "apply" \in {"apply", "restore"} /\ "restore" \in {"apply", "restore"}
  OBVIOUS
<1>2. CASE \E mode \in {"apply", "restore"} : \E out \in {{}, {"active"}, {"active", "prepared", "applied"}} :
             Scale!Begin(l, mode, out) /\ UNCHANGED <<slots, gauge, ver, timer, resets>>
  BY <1>2, ScaleBegins
<1>3. CASE /\ job.pc = "idle" /\ UNCHANGED <<slots, gauge, ver, timer, resets, fence, job>>
           /\ Scale!Flags(l, {"active", "prepared", "applied"}, {})
  <2>1. {} \in SUBSET (ScaleFlags \ {"prepared", "applied"})
    OBVIOUS
  <2>2. rt' \in [Scale!Ledgers -> SUBSET ScaleFlags] /\ \A k \in Scale!Ledgers : UnitHeld(k, slots, rt', gauge)
    BY <1>3, <2>1, ScaleFlagsDropped
  <2>3. /\ job \in ScaleJobs /\ fence \in [Scale!Ledgers -> BOOLEAN] /\ timer \in 0 .. 2
        /\ ScaleWork(job', slots, fence', rt', gauge)
    BY <1>3, ScaleNoWork DEF ScaleInv, ScaleType
  <2>4. QED BY <1>3, <2>2, <2>3, ScaleFlagsOnly
<1>4. Scale!Apply(l) => \E mode \in {"apply", "restore"} : \E out \in {{}, {"active"}, {"active", "prepared", "applied"}} :
             Scale!Begin(l, mode, out) /\ UNCHANGED <<slots, gauge, ver, timer, resets>>
  BY <1>1 DEF Scale!Apply
<1>5. Scale!Restore(l) => \E mode \in {"apply", "restore"} : \E out \in {{}, {"active"}, {"active", "prepared", "applied"}} :
             Scale!Begin(l, mode, out) /\ UNCHANGED <<slots, gauge, ver, timer, resets>>
  BY <1>1 DEF Scale!Restore
<1>6. Scale!Poll(l) =>
                 \/ Scale!Begin(l, "restore", {"active"}) /\ UNCHANGED <<slots, gauge, ver, timer, resets>>
                 \/ Scale!Begin(l, "restore", {"active", "prepared", "applied"}) /\ UNCHANGED <<slots, gauge, ver, timer, resets>>
                 \/ /\ job.pc = "idle" /\ UNCHANGED <<slots, gauge, ver, timer, resets, fence, job>>
                    /\ Scale!Flags(l, {"active", "prepared", "applied"}, {})
  BY DEF Scale!Poll, Scale!Idle
<1>7. QED BY <1>1, <1>2, <1>3, <1>4, <1>5, <1>6

LEMMA ScaleStarts == Scale!Init => ScaleInv
<1> SUFFICES ASSUME Scale!Init PROVE ScaleInv
  OBVIOUS
<1>1. /\ slots = [l \in Scale!Ledgers |-> [i \in 0 .. 1 |-> Scale!Absent]] /\ rt = [l \in Scale!Ledgers |-> {}] /\ fence = [l \in Scale!Ledgers |-> TRUE]
      /\ job = Scale!NoJob /\ timer = 0 /\ resets = 0 /\ gauge \in ScaleGauges /\ gauge.img = "source"
  <2>1. gauge \in [img : {"source"}, sec : {3}, cfg : {FALSE}, home : Scale!Ledgers, by : {"scale"}]
    BY DEF Scale!Init
  <2>2. PICK h \in Scale!Ledgers : gauge = [img |-> "source", sec |-> 3, cfg |-> FALSE, home |-> h, by |-> "scale"]
    BY <2>1
  <2>3. "scale" \in Scale!Ledgers
    BY DEF Scale!Ledgers
  <2>4. gauge \in ScaleGauges /\ gauge.img = "source"
    BY <2>2, <2>3 DEF ScaleGauges
  <2>5. QED BY <2>4 DEF Scale!Init
<1>2. Scale!Absent \in ScaleRecords /\ [i \in 0 .. 1 |-> Scale!Absent] \in ScaleSlots
  BY ScaleConstants DEF Scale!Absent, ScaleRecords, ScaleSlots
<1>3. Scale!NoJob \in ScaleJobs /\ Scale!NoJob.pc = "boot"
  BY DEF Scale!NoJob, ScaleJobs, Scale!Ledgers
<1>4. ScaleType
  BY <1>1, <1>2, <1>3, ScaleConstants DEF ScaleType
<1>5. Scale!LedgersRead
  <2>1. \A l \in Scale!Ledgers : Scale!Load(slots[l]) = Scale!Absent
    BY <1>1 DEF Scale!Load
  <2>2. QED BY <2>1 DEF Scale!LedgersRead, Scale!Absent, Scale!Ledgers
<1>6. Scale!Owned /\ UnitsHeld
  BY <1>1 DEF Scale!Owned, UnitsHeld, UnitHeld
<1>7. ScaleAtWork
  BY <1>1, <1>3 DEF ScaleAtWork, ScaleWork, AtGauge, Steps
<1>8. QED BY <1>4, <1>5, <1>6, <1>7 DEF ScaleInv

LEMMA ScaleRests == ASSUME ScaleInv, UNCHANGED Scale!scaleVars PROVE ScaleInv'
<1>1. UNCHANGED <<slots, gauge, rt, ver, fence, job, timer, resets>>
  BY DEF Scale!scaleVars
<1>2. ScaleType' /\ Scale!LedgersRead' /\ Scale!Owned' /\ UnitsHeld' /\ ScaleAtWork'
  BY <1>1 DEF ScaleInv, ScaleType, Scale!LedgersRead, Scale!Owned, UnitsHeld, ScaleAtWork
<1>3. QED BY <1>2 DEF ScaleInv

LEMMA ScaleSteps == ASSUME ScaleInv, Scale!Next PROVE ScaleInv'
<1>1. CASE \E l \in Scale!Ledgers : Scale!Prepare(l) \/ Scale!Images(l) \/ Scale!Apply(l) \/ Scale!Restore(l) \/ Scale!Poll(l)
  BY <1>1, ScalePrepares, ScaleImages, ScalePolls
<1>2. CASE Scale!Reset \/ Scale!BootFence \/ Scale!Later
  BY <1>2, ScaleResets, ScaleBootFence, ScaleLater
<1>3. CASE Scale!Stop \/ Scale!Admit \/ Scale!Intent \/ Scale!Open \/ Scale!Observe \/ Scale!Enter \/ Scale!Write
  BY <1>3, ScaleStops, ScaleAdmits, ScaleIntent, ScaleOpens, ScaleObserves, ScaleEnters, ScaleWrites
<1>4. CASE Scale!Exit \/ Scale!Seal \/ Scale!Complete \/ Scale!Publish \/ Scale!Protect \/ Scale!Over
  BY <1>4, ScaleExits, ScaleSeals, ScaleCompletes, ScalePublishes, ScaleProtects, ScaleOver
<1>5. QED BY <1>1, <1>2, <1>3, <1>4 DEF Scale!Next

LEMMA ScaleOwns == ScaleInv => Scale!ScaleIsOwned
<1> SUFFICES ASSUME ScaleInv PROVE Scale!ScaleIsOwned
  OBVIOUS
<1>1. Scale!TypeOK
  BY DEF ScaleInv, ScaleType, Scale!TypeOK, ScaleSlots, ScaleRecords, ScaleGauges
<1>2. Scale!LedgersRead /\ Scale!Owned
  BY DEF ScaleInv
<1>3. Scale!UnitsTrue
  <2>1. SUFFICES ASSUME NEW l \in Scale!Ledgers, Scale!Unit(l) # 0
                 PROVE  gauge.img = (IF Scale!Unit(l) = 1 THEN "source" ELSE "target") /\ gauge.sec = 3
    BY DEF Scale!UnitsTrue
  <2>2. Scale!Ready(l) /\ UnitHeld(l, slots, rt, gauge) /\ slots[l] \in ScaleSlots
    BY <2>1 DEF Scale!Unit, ScaleInv, UnitsHeld, ScaleType
  <2>3. Scale!Rec(l) = Scale!Load(slots[l])
    BY <2>2, ScaleRecorded
  <2>4. \/ Scale!Unit(l) = 1 /\ Scale!Rec(l).phase = "Original" /\ "prepared" \in rt[l]
        \/ Scale!Unit(l) = 2 /\ Scale!Rec(l).phase = "Applied" /\ "applied" \in rt[l]
    BY <2>1 DEF Scale!Unit
  <2>5. QED BY <2>2, <2>3, <2>4 DEF UnitHeld
<1>4. QED BY <1>1, <1>2, <1>3 DEF Scale!ScaleIsOwned

LEMMA ScaleMoves == ASSUME ScaleInv, [RecordsNext]_<<part, vars, gaugeVars, scaleVars, settingsVars, inputVars>> PROVE ScaleInv'
<1>1. CASE UNCHANGED scaleVars
  <2>1. UNCHANGED Scale!scaleVars
    BY <1>1 DEF scaleVars, Scale!scaleVars
  <2>2. QED BY <2>1, ScaleRests
<1>2. CASE Scale!Next
  BY <1>2, ScaleSteps
<1>3. QED BY <1>1, <1>2 DEF RecordsNext

(* However often the board resets, neither scale trial changes the battery  *)
(* gauge without a ledger that says so and a fence, leaves a ledger no boot *)
(* can read, or publishes a unit that is not that of the parameters sealed  *)
(* in the gauge.                                                            *)
THEOREM ScaleUnitsAreOwned == RecordsSpec => []ScaleIsOwned
<1>1. RecordsInit => ScaleInv
  BY ScaleStarts DEF RecordsInit
<1>2. ScaleInv => ScaleIsOwned
  BY ScaleOwns DEF ScaleIsOwned
<1>3. QED BY ScaleMoves, <1>1, <1>2, PTL DEF RecordsSpec
=============================================================================
