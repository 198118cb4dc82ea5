------------------------- MODULE StorageLease_proofs -------------------------
(* Proofs about the storage lease, for every set of tasks and every depth  *)
(* of nesting; about the owner of the radio, which runs beside it, for     *)
(* every number of attempts and of profiles; and about the trials of TWT   *)
(* that owner runs, for every number of trials, of events and of losses.   *)
EXTENDS MCBoard, SequenceTheorems, TLAPS

(* A guard taken becomes the innermost of those held.                      *)
LEMMA Pushed ==
  ASSUME NEW h \in Seq(Guards), NEW g \in Guards
  PROVE  /\ Append(h, g) \in Seq(Guards)
         /\ Append(h, g) # <<>>
         /\ Len(Append(h, g)) = Len(h) + 1
         /\ DOMAIN Append(h, g) = 1..(Len(h) + 1)
         /\ DOMAIN h = 1..Len(h)
         /\ \A i \in 1..Len(h) : Append(h, g)[i] = h[i]
         /\ Append(h, g)[Len(h) + 1] = g
         /\ Len(h) \in Nat
<1>1. Len(h) \in Nat /\ DOMAIN h = 1..Len(h)
  BY LenProperties
<1>2. /\ Append(h, g) \in Seq(Guards)
      /\ Append(h, g) # <<>>
      /\ Len(Append(h, g)) = Len(h) + 1
      /\ \A i \in 1..Len(h) : Append(h, g)[i] = h[i]
      /\ Append(h, g)[Len(h) + 1] = g
  BY AppendProperties
<1>3. DOMAIN Append(h, g) = 1..(Len(h) + 1)
  BY <1>2, LenProperties
<1> QED BY <1>1, <1>2, <1>3

(* A guard given back leaves those outside of it as they were.             *)
LEMMA Popped ==
  ASSUME NEW h \in Seq(Guards), h # <<>>
  PROVE  /\ Outer(h) \in Seq(Guards)
         /\ Len(Outer(h)) = Len(h) - 1
         /\ DOMAIN Outer(h) = 1..(Len(h) - 1)
         /\ DOMAIN h = 1..Len(h)
         /\ \A i \in 1..(Len(h) - 1) : Outer(h)[i] = h[i]
         /\ Len(h) \in Nat \ {0}
<1>1. Len(h) \in Nat \ {0} /\ DOMAIN h = 1..Len(h)
  BY EmptySeq, LenProperties
<1>2. Len(h) - 1 \in Int /\ 1 \in Int
      /\ \A i \in 1..(Len(h) - 1) : h[i] \in Guards
  BY <1>1, ElementOfSeq
<1>3. /\ Outer(h) \in Seq(Guards)
      /\ Len(Outer(h)) = IF 1 <= Len(h) - 1 THEN Len(h) - 1 - 1 + 1 ELSE 0
      /\ \A i \in 1..(Len(h) - 1 - 1 + 1) : Outer(h)[i] = h[1 + i - 1]
  BY <1>2, SubSeqProperties DEF Outer
<1>4. Len(Outer(h)) = Len(h) - 1
  <2>1. ASSUME NEW n \in Nat \ {0}
        PROVE  (IF 1 <= n - 1 THEN n - 1 - 1 + 1 ELSE 0) = n - 1
    OBVIOUS
  <2> QED BY <1>1, <1>3, <2>1
<1>5. ASSUME NEW i \in 1..(Len(h) - 1)
      PROVE  Outer(h)[i] = h[i]
  <2>1. i \in 1..(Len(h) - 1 - 1 + 1) /\ 1 + i - 1 = i
    BY <1>1
  <2> QED BY <1>3, <2>1
<1>6. DOMAIN Outer(h) = 1..(Len(h) - 1)
  BY <1>3, <1>4, LenProperties
<1> QED BY <1>1, <1>3, <1>4, <1>5, <1>6

-----------------------------------------------------------------------------
(* What is held, said of its guards one by one.                            *)
LEMMA NoLeases ==
  ASSUME NEW h \in Seq(Guards)
  PROVE  Leases(h) = {} <=> \A i \in DOMAIN h : h[i] = "admission"
  BY DEF Leases

LEMMA LeaseKept ==
  ASSUME NEW h \in Seq(Guards), NEW g \in Guards
  PROVE  Leases(Append(h, g)) = {} <=> Leases(h) = {} /\ g = "admission"
<1>1. \A i \in DOMAIN Append(h, g) : i \in DOMAIN h \/ i = Len(h) + 1
  BY Pushed
<1>2. DOMAIN h \subseteq DOMAIN Append(h, g)
      /\ Len(h) + 1 \in DOMAIN Append(h, g)
  BY Pushed
<1>3. \A i \in DOMAIN h : Append(h, g)[i] = h[i]
  BY Pushed
<1>4. Append(h, g)[Len(h) + 1] = g
  BY Pushed
<1> QED BY <1>1, <1>2, <1>3, <1>4 DEF Leases

LEMMA LeaseLeft ==
  ASSUME NEW h \in Seq(Guards), h # <<>>
  PROVE  Leases(h) = {} <=> Leases(Outer(h)) = {} /\ Innermost(h) = "admission"
<1>1. \A i \in DOMAIN h : i \in DOMAIN Outer(h) \/ i = Len(h)
  BY Popped
<1>2. DOMAIN Outer(h) \subseteq DOMAIN h /\ Len(h) \in DOMAIN h
  BY Popped
<1>3. \A i \in DOMAIN Outer(h) : Outer(h)[i] = h[i]
  BY Popped
<1> QED BY <1>1, <1>2, <1>3 DEF Leases, Innermost

(* The admissions of a stack stay outside of its leases.                   *)
LEMMA AdmittedOutside ==
  ASSUME NEW h \in Seq(Guards), NEW g \in Guards, Outside(h),
         g = "admission" => Leases(h) = {}
  PROVE  Outside(Append(h, g))
<1> SUFFICES ASSUME NEW i \in DOMAIN Append(h, g), NEW j \in DOMAIN Append(h, g),
                    i < j, Append(h, g)[j] = "admission"
             PROVE  Append(h, g)[i] = "admission"
  BY DEF Outside
<1>1. i \in DOMAIN h /\ Append(h, g)[i] = h[i]
  BY Pushed
<1>2. CASE j \in DOMAIN h
  <2>1. Append(h, g)[j] = h[j]
    BY <1>2, Pushed
  <2> QED BY <1>1, <1>2, <2>1 DEF Outside
<1>3. CASE j = Len(h) + 1
  <2>1. g = "admission"
    BY <1>3, Pushed
  <2> QED BY <2>1, <1>1, NoLeases
<1>4. j \in DOMAIN h \/ j = Len(h) + 1
  BY Pushed
<1> QED BY <1>2, <1>3, <1>4

LEMMA LeftOutside ==
  ASSUME NEW h \in Seq(Guards), h # <<>>, Outside(h)
  PROVE  Outside(Outer(h))
<1>1. DOMAIN Outer(h) \subseteq DOMAIN h
  BY Popped
<1>2. \A i \in DOMAIN Outer(h) : Outer(h)[i] = h[i]
  BY Popped
<1> QED BY <1>1, <1>2 DEF Outside

(* Whoever is about to leave an admission has no lease.                    *)
LEMMA AdmittedHasNoLease ==
  ASSUME NEW h \in Seq(Guards), h # <<>>, Outside(h), Innermost(h) = "admission"
  PROVE  Leases(h) = {}
<1>1. Len(h) \in DOMAIN h /\ \A i \in DOMAIN h : i < Len(h) \/ i = Len(h)
  BY Popped
<1>2. \A i \in DOMAIN h : h[i] = "admission"
  BY <1>1 DEF Outside, Innermost
<1> QED BY <1>2, NoLeases

-----------------------------------------------------------------------------
LEMMA InitLease == Init => LeaseInv
<1> SUFFICES ASSUME Init PROVE LeaseInv
  OBVIOUS
<1>1. held \in Seq(Guards) /\ Len(held) = 0
  BY EmptySeq DEF Init
<1>2. DOMAIN held = {}
  <2>1. DOMAIN held = 1..0
    BY <1>1, LenProperties
  <2> QED BY <2>1
<1>3. TypeOK
  <2>1. Len(held) <= MaxNesting
    BY <1>1, StorageLeaseAssumption
  <2> QED BY <1>1, <2>1 DEF Init, TypeOK
<1>4. LeaseExcludesUpdate
  BY <1>2 DEF LeaseExcludesUpdate
<1>5. OwnerIsHolder
  BY <1>2 DEF OwnerIsHolder, Leases, Init
<1>6. AdmissionsOutside
  BY <1>2 DEF AdmissionsOutside, Outside
<1> QED BY <1>3, <1>4, <1>5, <1>6 DEF LeaseInv

(* Taking a guard: a lease only for an idle updater, or for the radio; an  *)
(* admission only outside of every lease.                                  *)
LEMMA PushKeeps ==
  ASSUME LeaseInv, NEW t \in Tasks, NEW g \in Guards, Push(t, g),
         g = "storage" => ~working,
         g = "admission" => Leases(held) = {} /\ owner' = owner,
         g # "admission" => owner' = t
  PROVE  LeaseInv'
<1>1. /\ held \in Seq(Guards) /\ held' = Append(held, g) /\ holder' = t
      /\ working' = working /\ booting' = booting
  BY DEF Push, LeaseInv, TypeOK
<1>2. TypeOK'
  <2>1. held' \in Seq(Guards) /\ held' # <<>>
    BY <1>1, Pushed
  <2>2. Len(held') <= MaxNesting
    <3>1. Len(held) \in Nat /\ Len(held') = Len(held) + 1 /\ Len(held) < MaxNesting
      BY <1>1, Pushed DEF Push
    <3> QED BY <3>1, StorageLeaseAssumption
  <2>3. holder' \in Tasks /\ holder' # NoTask
    BY <1>1, StorageLeaseAssumption
  <2>4. owner' \in Tasks \cup {NoTask}
    BY DEF LeaseInv, TypeOK
  <2>5. working' \in BOOLEAN
    BY <1>1 DEF LeaseInv, TypeOK
  <2>6. booting' \in BOOLEAN
    BY <1>1 DEF LeaseInv, TypeOK
  <2> QED BY <2>1, <2>2, <2>3, <2>4, <2>5, <2>6 DEF TypeOK
<1>3. LeaseExcludesUpdate'
  <2> SUFFICES ASSUME NEW i \in DOMAIN held', held'[i] = "storage"
               PROVE  ~working
    BY <1>1 DEF LeaseExcludesUpdate
  <2>1. i \in DOMAIN held \/ i = Len(held) + 1
    BY <1>1, Pushed
  <2>2. CASE i \in DOMAIN held
    <3>1. held[i] = "storage"
      BY <1>1, <2>2, Pushed
    <3> QED BY <2>2, <3>1 DEF LeaseInv, LeaseExcludesUpdate
  <2>3. CASE i = Len(held) + 1
    <3>1. g = "storage"
      BY <1>1, <2>3, Pushed
    <3> QED BY <3>1
  <2> QED BY <2>1, <2>2, <2>3
<1>4. OwnerIsHolder'
  <2>1. CASE g = "admission"
    <3>1. Leases(held') = {}
      BY <1>1, <2>1, LeaseKept
    <3>2. owner = NoTask
      BY <2>1 DEF LeaseInv, OwnerIsHolder
    <3> QED BY <2>1, <3>1, <3>2 DEF OwnerIsHolder
  <2>2. CASE g # "admission"
    <3>1. Leases(held') # {}
      BY <1>1, <2>2, LeaseKept
    <3> QED BY <1>1, <2>2, <3>1 DEF OwnerIsHolder
  <2> QED BY <2>1, <2>2
<1>5. AdmissionsOutside'
  <2>1. Outside(held)
    BY DEF LeaseInv, AdmissionsOutside
  <2>2. Outside(Append(held, g))
    BY <1>1, <2>1, AdmittedOutside
  <2> QED BY <1>1, <2>2 DEF AdmissionsOutside
<1> QED BY <1>2, <1>3, <1>4, <1>5 DEF LeaseInv

(* Giving one back; the owner goes with the last lease.                    *)
LEMMA PopKeeps ==
  ASSUME LeaseInv, NEW t \in Tasks, Pop(t),
         Innermost(held) = "admission" => owner' = owner,
         Innermost(held) # "admission" => owner' = Disown(t)
  PROVE  LeaseInv'
<1>1. /\ held \in Seq(Guards) /\ held # <<>> /\ held' = Outer(held) /\ holder = t
      /\ holder' = (IF held' = <<>> THEN NoTask ELSE t)
      /\ working' = working /\ booting' = booting
  BY DEF Pop, LeaseInv, TypeOK
<1>2. TypeOK'
  <2>1. held' \in Seq(Guards)
    BY <1>1, Popped
  <2>2. Len(held') <= MaxNesting
    <3>1. Len(held) \in Nat /\ Len(held') = Len(held) - 1 /\ Len(held) <= MaxNesting
      BY <1>1, Popped DEF LeaseInv, TypeOK
    <3> QED BY <3>1, StorageLeaseAssumption
  <2>3. holder' \in Tasks \cup {NoTask} /\ (holder' = NoTask <=> held' = <<>>)
    BY <1>1, StorageLeaseAssumption
  <2>4. owner' \in Tasks \cup {NoTask}
    BY DEF LeaseInv, TypeOK, Disown
  <2>5. working' \in BOOLEAN
    BY <1>1 DEF LeaseInv, TypeOK
  <2>6. booting' \in BOOLEAN
    BY <1>1 DEF LeaseInv, TypeOK
  <2> QED BY <2>1, <2>2, <2>3, <2>4, <2>5, <2>6 DEF TypeOK
<1>3. LeaseExcludesUpdate'
  <2> SUFFICES ASSUME NEW i \in DOMAIN held', held'[i] = "storage"
               PROVE  ~working
    BY <1>1 DEF LeaseExcludesUpdate
  <2>1. i \in DOMAIN held
    BY <1>1, Popped
  <2>2. held[i] = "storage"
    BY <1>1, Popped
  <2> QED BY <2>1, <2>2 DEF LeaseInv, LeaseExcludesUpdate
<1>4. OwnerIsHolder'
  <2>1. CASE Innermost(held) = "admission"
    <3>1. Leases(held) = {}
      BY <1>1, <2>1, AdmittedHasNoLease DEF LeaseInv, AdmissionsOutside
    <3>2. Leases(held') = {}
      BY <1>1, <3>1, LeaseLeft
    <3> QED BY <2>1, <3>1, <3>2 DEF LeaseInv, OwnerIsHolder
  <2>2. CASE Innermost(held) # "admission"
    <3>1. CASE Leases(held') = {}
      BY <1>1, <2>2, <3>1 DEF OwnerIsHolder, Disown
    <3>2. CASE Leases(held') # {}
      <4>1. held' # <<>>
        <5>1. DOMAIN held' # {}
          BY <3>2 DEF Leases
        <5>2. Len(held') \in Nat \ {0}
          BY <1>1, <5>1, Popped
        <5> QED BY <5>2, EmptySeq
      <4>2. owner' = t
        BY <1>1, <2>2, <3>2 DEF Disown
      <4> QED BY <1>1, <4>1, <4>2, <3>2 DEF OwnerIsHolder
    <3> QED BY <3>1, <3>2
  <2> QED BY <2>1, <2>2
<1>5. AdmissionsOutside'
  BY <1>1, LeftOutside DEF LeaseInv, AdmissionsOutside
<1> QED BY <1>2, <1>3, <1>4, <1>5 DEF LeaseInv

LEMMA NextLease == LeaseInv /\ [Next]_vars => LeaseInv'
<1> SUFFICES ASSUME LeaseInv, [Next]_vars PROVE LeaseInv'
  OBVIOUS
<1>1. "admission" \in Guards /\ "storage" \in Guards /\ "radio" \in Guards
  BY DEF Guards
<1>2. ASSUME NEW t \in Tasks, Admit(t) PROVE LeaseInv'
  BY <1>1, <1>2, PushKeeps DEF Admit
<1>3. ASSUME NEW t \in Tasks, LeaveAdmission(t) PROVE LeaseInv'
  BY <1>3, PopKeeps DEF LeaveAdmission
<1>4. ASSUME NEW t \in Tasks, Work(t) PROVE LeaseInv'
  <2>1. /\ held \in Seq(Guards) /\ held # <<>> /\ Innermost(held) = "admission"
        /\ Outside(held)
    BY <1>4 DEF Work, LeaseInv, TypeOK, AdmissionsOutside
  <2>2. Leases(held) = {}
    BY <2>1, AdmittedHasNoLease
  <2>3. LeaseExcludesUpdate'
    BY <1>4, <2>2 DEF Work, Leases, LeaseExcludesUpdate
  <2>4. TypeOK'
    <3>1. working' \in BOOLEAN
      BY <1>4 DEF Work
    <3> QED BY <1>4, <3>1 DEF Work, LeaseInv, TypeOK
  <2>5. OwnerIsHolder' /\ AdmissionsOutside'
    BY <1>4 DEF Work, LeaseInv, OwnerIsHolder, AdmissionsOutside
  <2> QED BY <2>3, <2>4, <2>5 DEF LeaseInv
<1>5. ASSUME NEW t \in Tasks, TryStorageLease(t) PROVE LeaseInv'
  BY <1>1, <1>5, PushKeeps DEF TryStorageLease, Busy
<1>6. ASSUME NEW t \in Tasks, TryNetworkStartLease(t) PROVE LeaseInv'
  BY <1>1, <1>6, PushKeeps DEF TryNetworkStartLease
<1>7. ASSUME NEW t \in Tasks, ReleaseStorageLease(t) PROVE LeaseInv'
  BY <1>7, PopKeeps DEF ReleaseStorageLease
<1>8. CASE WorkEnds
  <2>1. TypeOK'
    BY <1>8 DEF WorkEnds, LeaseInv, TypeOK
  <2>2. LeaseExcludesUpdate' /\ OwnerIsHolder' /\ AdmissionsOutside'
    BY <1>8 DEF WorkEnds, LeaseInv, LeaseExcludesUpdate, OwnerIsHolder, AdmissionsOutside
  <2> QED BY <2>1, <2>2 DEF LeaseInv
<1>9. CASE Health
  <2>1. booting' \in BOOLEAN
    BY <1>9 DEF Health
  <2>2. TypeOK'
    BY <1>9, <2>1 DEF Health, LeaseInv, TypeOK
  <2>3. LeaseExcludesUpdate' /\ OwnerIsHolder' /\ AdmissionsOutside'
    BY <1>9 DEF Health, LeaseInv, LeaseExcludesUpdate, OwnerIsHolder, AdmissionsOutside
  <2> QED BY <2>2, <2>3 DEF LeaseInv
<1>10. CASE UNCHANGED vars
  BY <1>10 DEF vars, LeaseInv, TypeOK, LeaseExcludesUpdate, OwnerIsHolder,
               AdmissionsOutside
<1> QED BY <1>2, <1>3, <1>4, <1>5, <1>6, <1>7, <1>8, <1>9, <1>10 DEF Next

(* The strengthened invariant holds of the lease for every set of tasks.   *)
THEOREM LeaseInvariant == Spec => []LeaseInv
  BY InitLease, NextLease, PTL DEF Spec

(* Every variable of the lease keeps its type, and the mutex is held       *)
(* exactly while a guard is.                                               *)
THEOREM LeaseTypeCorrect == Spec => []TypeOK
<1>1. LeaseInv => TypeOK
  BY DEF LeaseInv
<1> QED BY <1>1, LeaseInvariant, PTL

(* No update is begun or carried on by anyone, the lease's own task        *)
(* included, while a storage lease is out (StorageAdmission,               *)
(* tryStorageLease).                                                       *)
THEOREM LeaseAndUpdateExclude == Spec => []LeaseExcludesUpdate
<1>1. LeaseInv => LeaseExcludesUpdate
  BY DEF LeaseInv
<1> QED BY <1>1, LeaseInvariant, PTL

(* The owner of a lease is inside the mutex until the last release         *)
(* (releaseStorageLease).                                                  *)
THEOREM LeaseNeverOrphaned == Spec => []OwnerIsHolder
<1>1. LeaseInv => OwnerIsHolder
  BY DEF LeaseInv
<1> QED BY <1>1, LeaseInvariant, PTL

\* where the owner's loop stands, and what it goes by
OnAir == {"link", "retry", "select", "tail", "fetch", "quota", "good", "bad", "good+history", "bad+history"}
OwnerPlaces == {"top", "pause", "stop", "off", "slow", "apply", "clock", "lease", "radio"} \cup OnAir
OwnerWindows == [open : BOOLEAN, locked : BOOLEAN, first : BOOLEAN]
OwnerRetries == [n : 0 .. Attempts, runs : BOOLEAN, made : 0 .. Attempts]
OwnerRadios == [on : BOOLEAN, up : BOOLEAN, dial : BOOLEAN]
Candidates(c) == Seq(1 .. c)
OwnerScans(c) == [started : BOOLEAN, cancelled : BOOLEAN, done : {"no", "good", "bad"}, complete : BOOLEAN, fault : BOOLEAN,
                  cands : Candidates(c), drv : {"none", "scans"}]
OwnerTails == [client : {"lan", "none", "up", "ready"}, paused : BOOLEAN]
OwnerScreens == [locked : BOOLEAN, forced : BOOLEAN, boost : BOOLEAN]
OwnerClocks == [mhz : {"full", "slow"}, next : {"none", "full", "slow"}]
OwnerGauges == [hold : BOOLEAN, lease : {"none", "owner", "gauge"}]
OwnerRequests == [locked : BOOLEAN, leaked : BOOLEAN]

\* a window's connections are among its attempts, and one attempted is one left
OwnerBudget ==
  /\ win \in OwnerWindows /\ clock \in 0 .. 2 /\ retry \in OwnerRetries
  /\ retry.made <= retry.n /\ (~win.locked => retry.made = 0)
  /\ at = "select" /\ win.locked => retry.n < Attempts
\* a scan of the driver is one begun, whose end is not yet told
ScanHeld(s, c) == s \in OwnerScans(c) /\ (s.drv = "scans" => s.started /\ s.done = "no")
OwnerScan == count \in 0 .. Profiles /\ ScanHeld(scan, count)
\* what needs the radio has it
OwnerAir ==
  /\ at \in OwnerPlaces /\ radio \in OwnerRadios /\ tail \in OwnerTails /\ gauge \in OwnerGauges /\ Owner!RadioOwned
  /\ at \in OnAir => radio.on
  /\ at = "stop" => tail.paused
\* a slow clock is a locked screen's, or about to be raised by who unlocked it
OwnerSpeed ==
  /\ ui \in OwnerScreens /\ cpu \in OwnerClocks
  /\ at = "apply" => cpu.next # "none"
  /\ cpu.next = "slow" => ui.locked \/ ui.boost
  /\ cpu.next = "none" /\ cpu.mhz = "slow" => ui.locked \/ ui.boost
\* and a request one of a window
OwnerAsks ==
  /\ began \in OwnerRequests /\ ~began.leaked
  /\ at \in {"quota", "good", "bad"} => win.open \/ ~win.locked

OwnerInv == OwnerBudget /\ OwnerScan /\ OwnerAir /\ OwnerSpeed /\ OwnerAsks
\* steps of a scan
LEMMA ScanDrained ==
  ASSUME NEW c \in Nat, NEW s, ScanHeld(s, c), NEW t \in Owner!Drains(s)
  PROVE  ScanHeld(t, c)
<1>1. <<>> \in Candidates(c)
  BY EmptySeq DEF Candidates
<1>2. CASE ~s.started \/ ~s.cancelled
  BY <1>2 DEF Owner!Drains
<1>3. CASE s.started /\ s.cancelled /\ s.done # "no"
  <2>1. t = [s EXCEPT !.started = FALSE, !.cancelled = FALSE, !.done = "no", !.cands = <<>>, !.complete = TRUE]
    BY <1>3 DEF Owner!Drains
  <2>2. s.drv = "none"
    BY <1>3 DEF ScanHeld, OwnerScans
  <2>3. QED BY <1>1, <2>1, <2>2 DEF ScanHeld, OwnerScans
<1>4. CASE s.started /\ s.cancelled /\ s.done = "no"
  <2>1. t = s \/ t = [s EXCEPT !.fault = TRUE]
    BY <1>4 DEF Owner!Drains
  <2>2. QED BY <2>1 DEF ScanHeld, OwnerScans
<1>5. QED BY <1>2, <1>3, <1>4 DEF ScanHeld, OwnerScans

LEMMA ScanCancelled ==
  ASSUME NEW c \in Nat, NEW s, ScanHeld(s, c), NEW t \in Owner!Cancels(s)
  PROVE  ScanHeld(t, c)
<1>1. ScanHeld([s EXCEPT !.cancelled = TRUE], c)
  BY DEF ScanHeld, OwnerScans
<1>2. t = s \/ t = [s EXCEPT !.cancelled = TRUE] \/ t \in Owner!Drains([s EXCEPT !.cancelled = TRUE])
  BY DEF Owner!Cancels
<1>3. QED BY <1>1, <1>2, ScanDrained

\* the candidates of a scan are profiles
LEMMA ScanRanked ==
  ASSUME count \in Nat, NEW c \in Owner!Seen
  PROVE  c \in Candidates(count)
<1>1. PICK m \in 0 .. Profiles : c \in [1 .. m -> 1 .. count]
  BY DEF Owner!Seen, Owner!SeqOf
<1>2. QED BY <1>1, OwnerConstants DEF Candidates

LEMMA ScanNotTaken ==
  ASSUME NEW s, count \in Nat, ScanHeld(s, count), Owner!NotSelected(s)
  PROVE  ScanHeld(scan', count) /\ at' = "top" /\ radio' = radio
<1>1. scan' = [s EXCEPT !.complete = s.complete /\ win.locked] /\ at' = "top" /\ radio' = radio
  BY DEF Owner!NotSelected, Owner!Go
<1>2. CASE scan' = [s EXCEPT !.complete = TRUE]
  BY <1>1, <1>2 DEF ScanHeld, OwnerScans
<1>3. CASE scan' = [s EXCEPT !.complete = FALSE]
  BY <1>1, <1>3 DEF ScanHeld, OwnerScans
<1>4. s.complete \in BOOLEAN
  BY DEF ScanHeld, OwnerScans
<1>5. QED BY <1>1, <1>2, <1>3, <1>4

LEMMA ScanTaken ==
  ASSUME NEW s, count \in Nat, ScanHeld(s, count), Owner!Selects(s)
  PROVE  ScanHeld(scan', count) /\ at' = "top"
<1> DEFINE cands == IF s.cands = <<>> THEN s.cands ELSE Tail(s.cands)
           rest == [s EXCEPT !.cands = cands]
<1>1. cands \in Candidates(count)
  <2>1. s.cands \in Candidates(count)
    BY DEF ScanHeld, OwnerScans
  <2>2. QED BY <2>1, HeadTailProperties DEF Candidates
<1>2. ScanHeld(rest, count)
  <2> HIDE DEF cands
  <2>1. QED BY <1>1 DEF ScanHeld, OwnerScans
<1>3. Owner!NotSelected(rest) \/ (scan' = rest /\ at' = "top")
  BY DEF Owner!Selects, Owner!Go
<1> HIDE DEF rest
<1>4. QED BY <1>2, <1>3, ScanNotTaken

LEMMA OwnerSelects ==
  ASSUME count \in 0 .. Profiles, ScanHeld(scan, count), Owner!Select
  PROVE  ScanHeld(scan', count) /\ count' = count /\ at' = "top"
<1>1. count \in Nat /\ count' = count
  BY OwnerConstants DEF Owner!Select
<1>2. PICK s \in Owner!Drains(scan) :
       IF s.fault \/ (s.started /\ s.cancelled) THEN Owner!NotSelected(s)
       ELSE IF count = 0 THEN Owner!NotSelected([s EXCEPT !.cands = <<>>, !.complete = TRUE])
       ELSE IF s.complete THEN Owner!Selects(s)
       ELSE IF ~s.started
       THEN \/ Owner!NotSelected([s EXCEPT !.started = TRUE, !.done = "no", !.cands = <<>>, !.drv = "scans"])
            \/ Owner!NotSelected([s EXCEPT !.done = "no", !.cands = <<>>, !.complete = TRUE])
       ELSE IF s.done = "no" THEN \E t \in {s} \cup Owner!Cancels(s) : Owner!NotSelected(t)
       ELSE \E t \in Owner!Result(s) : Owner!Selects(t)
  BY DEF Owner!Select
<1>3. ScanHeld(s, count) /\ <<>> \in Candidates(count)
  BY <1>1, <1>2, ScanDrained, EmptySeq DEF Candidates
<1>4. CASE Owner!NotSelected(s) \/ Owner!Selects(s)
  BY <1>1, <1>3, <1>4, ScanNotTaken, ScanTaken
<1>5. CASE Owner!NotSelected([s EXCEPT !.cands = <<>>, !.complete = TRUE])
  <2>1. ScanHeld([s EXCEPT !.cands = <<>>, !.complete = TRUE], count)
    BY <1>3 DEF ScanHeld, OwnerScans
  <2>2. QED BY <1>1, <1>5, <2>1, ScanNotTaken
<1>6. CASE Owner!NotSelected([s EXCEPT !.started = TRUE, !.done = "no", !.cands = <<>>, !.drv = "scans"])
  <2>1. ScanHeld([s EXCEPT !.started = TRUE, !.done = "no", !.cands = <<>>, !.drv = "scans"], count)
    BY <1>3 DEF ScanHeld, OwnerScans
  <2>2. QED BY <1>1, <1>6, <2>1, ScanNotTaken
<1>7. CASE ~s.started /\ Owner!NotSelected([s EXCEPT !.done = "no", !.cands = <<>>, !.complete = TRUE])
  <2>1. ScanHeld([s EXCEPT !.done = "no", !.cands = <<>>, !.complete = TRUE], count)
    BY <1>3 DEF ScanHeld, OwnerScans
  <2>2. QED BY <1>1, <1>7, <2>1, ScanNotTaken
<1>8. CASE \E t \in {s} \cup Owner!Cancels(s) : Owner!NotSelected(t)
  BY <1>1, <1>3, <1>8, ScanCancelled, ScanNotTaken
<1>9. CASE s.done # "no" /\ \E t \in Owner!Result(s) : Owner!Selects(t)
  <2>1. PICK t \in Owner!Result(s) : Owner!Selects(t)
    BY <1>9
  <2>2. s.drv = "none"
    BY <1>3, <1>9 DEF ScanHeld, OwnerScans
  <2>3. ScanHeld(t, count)
    <3>1. CASE \E c \in Owner!Seen : t = [s EXCEPT !.started = FALSE, !.done = "no", !.complete = TRUE, !.cands = c]
      <4>1. PICK c \in Owner!Seen : t = [s EXCEPT !.started = FALSE, !.done = "no", !.complete = TRUE, !.cands = c]
        BY <3>1
      <4>2. c \in Candidates(count)
        BY <1>1, ScanRanked
      <4>3. QED BY <1>3, <2>2, <4>1, <4>2 DEF ScanHeld, OwnerScans
    <3>2. CASE t = [s EXCEPT !.started = FALSE, !.done = "no", !.complete = TRUE]
      BY <1>3, <2>2, <3>2 DEF ScanHeld, OwnerScans
    <3>3. QED BY <2>1, <3>1, <3>2 DEF Owner!Result
  <2>4. QED BY <1>1, <2>1, <2>3, ScanTaken
<1>10. QED BY <1>2, <1>4, <1>5, <1>6, <1>7, <1>8, <1>9

\* no step loses a scan
LEMMA OwnerScanKept == ASSUME OwnerInv, Owner!Next PROVE OwnerScan'
<1>1. count \in 0 .. Profiles /\ ScanHeld(scan, count) /\ count \in Nat /\ Profiles \in Nat
  BY OwnerConstants DEF OwnerInv, OwnerScan
<1>2. CASE scan' = scan /\ count' = count
  BY <1>1, <1>2 DEF OwnerScan
<1>3. CASE Owner!Driver
  <2>1. count' = count
    BY <1>3 DEF Owner!Driver
  <2>2. CASE scan' = [scan EXCEPT !.drv = "none"]
    BY <1>1, <2>1, <2>2 DEF OwnerScan, ScanHeld, OwnerScans
  <2>3. CASE \E done \in {"good", "bad"} : scan' = [scan EXCEPT !.drv = "none", !.done = done]
    BY <1>1, <2>1, <2>3 DEF OwnerScan, ScanHeld, OwnerScans
  <2>4. QED BY <1>2, <1>3, <2>1, <2>2, <2>3 DEF Owner!Driver
<1>4. CASE Owner!Settings
  <2>1. count' \in 0 .. Profiles
    <3>1. count' \in (IF count = 0 THEN 1 ELSE count - 1) .. Profiles
      BY <1>4 DEF Owner!Settings
    <3>2. (IF count = 0 THEN 1 ELSE count - 1) \in Nat
      BY <1>1
    <3>3. QED BY <1>1, <3>1, <3>2
  <2>2. PICK s \in Owner!Cancels(scan) : scan' = [s EXCEPT !.cands = <<>>, !.complete = TRUE]
    BY <1>4 DEF Owner!Settings
  <2>3. ScanHeld(s, count) /\ <<>> \in Candidates(count')
    BY <1>1, <2>1, <2>2, ScanCancelled, EmptySeq DEF Candidates
  <2>4. ScanHeld(scan', count')
    BY <2>2, <2>3 DEF ScanHeld, OwnerScans
  <2>5. QED BY <2>1, <2>4 DEF OwnerScan
<1>5. CASE Owner!Turn
  <2>1. PICK s \in Owner!Drains(scan) : scan' = s \/ scan' = [s EXCEPT !.complete = FALSE]
    BY <1>5 DEF Owner!Turn
  <2>2. ScanHeld(s, count) /\ count' = count
    BY <1>1, <1>5, <2>1, ScanDrained DEF Owner!Turn
  <2>3. ScanHeld(scan', count)
    BY <2>1, <2>2 DEF ScanHeld, OwnerScans
  <2>4. QED BY <1>1, <2>2, <2>3 DEF OwnerScan
<1>6. CASE Owner!Stop
  <2>1. count' = count /\ (scan' = scan \/ \E s \in Owner!Cancels(scan) : scan' \in Owner!Drains(s))
    BY <1>6 DEF Owner!Stop
  <2>2. ScanHeld(scan', count)
    BY <1>1, <2>1, ScanCancelled, ScanDrained
  <2>3. QED BY <1>1, <2>1, <2>2 DEF OwnerScan
<1>7. CASE Owner!Select
  BY <1>1, <1>7, OwnerSelects DEF OwnerScan
<1>8. Owner!Lock(TRUE) \/ Owner!Lock(FALSE) \/ Owner!Boost \/ Owner!Force \/ Owner!Tick \/ Owner!Tailnet \/ Owner!GaugeTask => scan' = scan /\ count' = count
  BY DEF Owner!Lock, Owner!Boost, Owner!Force, Owner!Tick, Owner!Tailnet, Owner!GaugeTask
<1>9. Owner!Pause \/ Owner!Off \/ Owner!Slow \/ Owner!Apply \/ Owner!Clock \/ Owner!Lease \/ Owner!Radio \/ Owner!Link \/ Owner!Retry => scan' = scan /\ count' = count
  BY DEF Owner!Pause, Owner!Off, Owner!Slow, Owner!Apply, Owner!Clock, Owner!Lease, Owner!Radio, Owner!Link, Owner!Retry
<1>10. Owner!Start \/ Owner!Fetch \/ Owner!History \/ (\E ok \in BOOLEAN : Owner!Quota(ok) \/ Owner!HistoryEnd(ok)) => scan' = scan /\ count' = count
  BY DEF Owner!Start, Owner!Fetch, Owner!History, Owner!Quota, Owner!HistoryEnd
<1>11. QED BY <1>2, <1>3, <1>4, <1>5, <1>6, <1>7, <1>8, <1>9, <1>10 DEF Owner!Next

\* the budget of a window
LEMMA OwnerTurnsBudget == ASSUME OwnerInv, Owner!Turn PROVE OwnerBudget'
<1> DEFINE locked == ui.locked \/ gauge.hold
           edge == locked /\ ~win.locked
           first == edge /\ ~win.first
           due == IF edge THEN first ELSE clock = 2
           kept == win.open /\ ~edge /\ ~gauge.hold
           asked == locked /\ ~gauge.hold /\ ~kept
           opened == asked /\ (ui.forced \/ due)
           fresh == opened \/ (~locked /\ win.locked)
           open == opened \/ (kept /\ ~(locked /\ clock >= 1))
<1>1. /\ win \in OwnerWindows /\ clock \in 0 .. 2 /\ retry \in OwnerRetries /\ retry.made <= retry.n
      /\ (~win.locked => retry.made = 0) /\ ui.locked \in BOOLEAN /\ gauge.hold \in BOOLEAN
  BY DEF OwnerInv, OwnerBudget, OwnerAir, OwnerSpeed, OwnerScreens, OwnerGauges
<1>2. /\ win' = [win EXCEPT !.open = open, !.locked = locked, !.first = @ \/ edge]
      /\ clock' = IF opened \/ ~locked THEN 0 ELSE IF edge THEN IF first THEN 2 ELSE 0 ELSE clock
      /\ retry' = IF fresh THEN [n |-> 0, runs |-> FALSE, made |-> 0] ELSE retry
  BY DEF Owner!Turn
<1>3. at' \in {"clock", "pause", "off"}
  BY DEF Owner!Turn, Owner!Go
<1>4. open \in BOOLEAN /\ locked \in BOOLEAN /\ edge \in BOOLEAN /\ fresh \in BOOLEAN /\ opened \in BOOLEAN /\ first \in BOOLEAN
  BY <1>1
<1>5. locked <=> win'.locked
  BY <1>1, <1>2 DEF OwnerWindows
<1>6. ~win'.locked /\ ~fresh => ~win.locked
  BY <1>5
<1> HIDE DEF locked, edge, first, due, kept, asked, opened, fresh, open
<1>7. win' \in OwnerWindows /\ clock' \in 0 .. 2
  <2>1. clock' \in 0 .. 2
    BY <1>1, <1>2
  <2>2. PICK f \in BOOLEAN : win' = [win EXCEPT !.open = open, !.locked = locked, !.first = f]
    <3>1. (win.first \/ edge) \in BOOLEAN
      OBVIOUS
    <3>2. QED BY <1>2, <3>1
  <2>3. QED BY <1>1, <1>4, <2>1, <2>2 DEF OwnerWindows
<1>8. [n |-> 0, runs |-> FALSE, made |-> 0] \in OwnerRetries
  BY OwnerConstants DEF OwnerRetries
<1>9. retry' \in OwnerRetries /\ retry'.made <= retry'.n
  BY <1>1, <1>2, <1>8
<1>10. ~win'.locked => retry'.made = 0
  BY <1>1, <1>2, <1>6
<1>11. QED BY <1>3, <1>7, <1>9, <1>10 DEF OwnerBudget

\* a connection spends an attempt
LEMMA OwnerSpends ==
  ASSUME OwnerInv, Owner!Select
  PROVE  /\ at = "select" /\ at' = "top" /\ clock' = clock
         /\ win' = win \/ win' = [win EXCEPT !.open = FALSE]
         /\ \/ retry' = retry \/ retry' = Owner!Attempted
            \/ retry' = [Owner!Attempted EXCEPT !.made = retry.made + (IF win.locked THEN 1 ELSE 0)]
<1>1. \A s : Owner!NotSelected(s) =>
         /\ at' = "top" /\ (win' = win \/ win' = [win EXCEPT !.open = FALSE])
         /\ retry' = retry \/ retry' = Owner!Attempted
  BY DEF Owner!NotSelected, Owner!Go, Owner!Close
<1>2. Owner!Attempted.made = retry.made
  BY DEF Owner!Attempted, OwnerInv, OwnerBudget, OwnerRetries
<1>3. \A s : Owner!Selects(s) =>
         /\ at' = "top" /\ (win' = win \/ win' = [win EXCEPT !.open = FALSE])
         /\ \/ retry' = retry \/ retry' = Owner!Attempted
            \/ retry' = [Owner!Attempted EXCEPT !.made = retry.made + (IF win.locked THEN 1 ELSE 0)]
  BY <1>1, <1>2 DEF Owner!Selects, Owner!Go
<1>4. \E s : Owner!NotSelected(s) \/ Owner!Selects(s)
  BY DEF Owner!Select
<1>5. QED BY <1>1, <1>3, <1>4 DEF Owner!Select

LEMMA OwnerBudgetKept == ASSUME OwnerInv, Owner!Next PROVE OwnerBudget'
<1>1. /\ win \in OwnerWindows /\ clock \in 0 .. 2 /\ retry \in OwnerRetries /\ retry.made <= retry.n
      /\ (~win.locked => retry.made = 0) /\ (at = "select" /\ win.locked => retry.n < Attempts)
      /\ Attempts \in Nat
  BY OwnerConstants DEF OwnerInv, OwnerBudget
<1>2. CASE win' = win /\ clock' = clock /\ retry' = retry /\ (at' # "select" \/ at' = at)
  BY <1>1, <1>2 DEF OwnerBudget
<1>3. CASE Owner!Tick
  <2>1. win' = win /\ at' = at /\ clock' \in 0 .. 2
    BY <1>1, <1>3 DEF Owner!Tick
  <2>2. retry' = retry \/ retry' = [retry EXCEPT !.runs = FALSE]
    BY <1>3 DEF Owner!Tick
  <2>3. retry' \in OwnerRetries /\ retry'.n = retry.n /\ retry'.made = retry.made
    BY <1>1, <2>2 DEF OwnerRetries
  <2>4. QED BY <1>1, <2>1, <2>3 DEF OwnerBudget
<1>4. CASE Owner!Turn
  BY <1>4, OwnerTurnsBudget
<1>5. CASE Owner!Link
  <2>1. win' = [win EXCEPT !.open = win.open /\ win.locked] /\ clock' = clock /\ at' \in {"tail", "retry"}
    BY <1>5 DEF Owner!Link, Owner!Go
  <2>2. retry' = retry \/ (~win.locked /\ retry' = [retry EXCEPT !.n = 0, !.runs = FALSE])
    BY <1>5 DEF Owner!Link, Owner!Reset
  <2>3. win' \in OwnerWindows /\ win'.locked = win.locked
    BY <1>1, <2>1 DEF OwnerWindows
  <2>4. retry' \in OwnerRetries /\ retry'.made = retry.made /\ (retry' = retry \/ ~win.locked)
    BY <1>1, <2>2 DEF OwnerRetries
  <2>5. retry'.made <= retry'.n
    BY <1>1, <2>4 DEF OwnerRetries
  <2>6. QED BY <1>1, <2>1, <2>3, <2>4, <2>5 DEF OwnerBudget
<1>6. CASE Owner!Retry
  <2>1. clock' = clock /\ retry' = retry /\ (win' = win \/ win' = [win EXCEPT !.open = FALSE])
    BY <1>6 DEF Owner!Retry, Owner!Close
  <2>2. at' = "top" \/ (at' = "select" /\ ~Owner!Exhausted)
    BY <1>6 DEF Owner!Retry, Owner!Go
  <2>3. win' \in OwnerWindows /\ win'.locked = win.locked
    BY <1>1, <2>1 DEF OwnerWindows
  <2>4. ~Owner!Exhausted /\ win.locked => retry.n < Attempts
    BY <1>1 DEF Owner!Exhausted, OwnerRetries
  <2>5. QED BY <1>1, <2>1, <2>2, <2>3, <2>4 DEF OwnerBudget
<1>7. CASE Owner!Select
  <2>1. win' \in OwnerWindows /\ win'.locked = win.locked /\ clock' = clock /\ at' = "top"
    BY <1>1, <1>7, OwnerSpends DEF OwnerWindows
  <2>2. Owner!Attempted \in OwnerRetries /\ Owner!Attempted.made = retry.made /\ Owner!Attempted.n >= retry.n /\ (retry.n < Attempts => Owner!Attempted.n = retry.n + 1)
    <3>1. retry.n \in 0 .. Attempts /\ retry.n \in Nat /\ retry.made \in 0 .. Attempts /\ Attempts \in Nat
      BY <1>1 DEF OwnerRetries
    <3>2. PICK m \in 0 .. Attempts : m >= retry.n /\ (retry.n < Attempts => m = retry.n + 1) /\ m = IF retry.n < Attempts THEN retry.n + 1 ELSE retry.n
      <4>1. CASE retry.n < Attempts
        <5>1. retry.n + 1 \in 0 .. Attempts /\ retry.n + 1 >= retry.n
          BY <3>1, <4>1
        <5>2. QED BY <4>1, <5>1
      <4>2. CASE ~(retry.n < Attempts)
        <5>1. retry.n >= retry.n
          BY <3>1
        <5>2. QED BY <3>1, <4>2, <5>1
      <4>3. QED BY <4>1, <4>2
    <3>3. retry = [n |-> retry.n, runs |-> retry.runs, made |-> retry.made]
      BY <1>1 DEF OwnerRetries
    <3>4. Owner!Attempted = [n |-> m, runs |-> TRUE, made |-> retry.made]
      <4>1. Owner!Attempted = [retry EXCEPT !.n = m, !.runs = TRUE]
        BY <3>2 DEF Owner!Attempted
      <4>2. PICK x, y, z : retry = [n |-> x, runs |-> y, made |-> z]
        BY <3>3
      <4>3. QED BY <4>1, <4>2
    <3>5. QED BY <3>1, <3>2, <3>4 DEF OwnerRetries
  <2>3. (win.locked => retry.n < Attempts)
    BY <1>1, <1>7 DEF Owner!Select
  <2>4. CASE retry' = retry
    BY <1>1, <2>1, <2>4 DEF OwnerBudget
  <2>5. CASE retry' = Owner!Attempted \/ (~win.locked /\ retry' = [Owner!Attempted EXCEPT !.made = retry.made + 0])
    <3>1. Owner!Attempted.made \in Nat /\ Owner!Attempted.n \in Nat /\ retry.made \in Nat /\ retry.n \in Nat
      BY <1>1, <2>2 DEF OwnerRetries
    <3>2. retry' \in OwnerRetries /\ retry'.made = retry.made /\ retry'.n = Owner!Attempted.n
      BY <2>2, <2>5, <3>1 DEF OwnerRetries
    <3>3. QED BY <1>1, <2>1, <2>2, <3>1, <3>2 DEF OwnerBudget
  <2>6. CASE win.locked /\ retry' = [Owner!Attempted EXCEPT !.made = retry.made + 1]
    <3>1. Owner!Attempted.made \in Nat /\ Owner!Attempted.n \in Nat /\ retry.made \in Nat /\ retry.n \in Nat /\ retry.n < Attempts
      BY <1>1, <2>2, <2>3, <2>6 DEF OwnerRetries
    <3>2. retry.made + 1 \in 0 .. Attempts
      BY <1>1, <3>1
    <3>3. retry' \in OwnerRetries /\ retry'.made = retry.made + 1 /\ retry'.n = retry.n + 1
      BY <2>2, <2>6, <3>1, <3>2 DEF OwnerRetries
    <3>4. QED BY <1>1, <2>1, <2>6, <3>1, <3>3 DEF OwnerBudget
  <2>7. QED BY <1>7, <2>4, <2>5, <2>6, OwnerSpends
<1>8. CASE \E ok \in BOOLEAN : Owner!Quota(ok)
  <2>1. PICK ok \in BOOLEAN : Owner!Quota(ok)
    BY <1>8
  <2>2. win' = [win EXCEPT !.first = win.first \/ ok] /\ clock' = clock /\ retry' = retry /\ at' # "select"
    BY <2>1 DEF Owner!Quota, Owner!Go
  <2>3. win' \in OwnerWindows /\ win'.locked = win.locked
    BY <1>1, <2>2 DEF OwnerWindows
  <2>4. QED BY <1>1, <2>2, <2>3 DEF OwnerBudget
<1>9. CASE Owner!History \/ \E ok \in BOOLEAN : Owner!HistoryEnd(ok)
  <2>1. /\ clock' = clock /\ retry' = retry /\ at' \in {"top", "good+history", "bad+history"}
        /\ win' = win \/ win' = [win EXCEPT !.open = FALSE]
    BY <1>9 DEF Owner!History, Owner!HistoryEnd, Owner!Success, Owner!Close, Owner!Go
  <2>2. win' \in OwnerWindows /\ win'.locked = win.locked
    BY <1>1, <2>1 DEF OwnerWindows
  <2>3. QED BY <1>1, <2>1, <2>2 DEF OwnerBudget
<1>10. Owner!Lock(TRUE) \/ Owner!Lock(FALSE) \/ Owner!Boost \/ Owner!Force \/ Owner!Tailnet \/ Owner!GaugeTask \/ Owner!Driver \/ Owner!Settings
         => win' = win /\ clock' = clock /\ retry' = retry /\ at' = at
  BY DEF Owner!Lock, Owner!Boost, Owner!Force, Owner!Tailnet, Owner!GaugeTask, Owner!Driver, Owner!Settings
<1>11. Owner!Pause \/ Owner!Stop \/ Owner!Off \/ Owner!Slow \/ Owner!Apply => win' = win /\ clock' = clock /\ retry' = retry /\ at' # "select"
  BY DEF Owner!Pause, Owner!Stop, Owner!Off, Owner!Slow, Owner!Apply, Owner!Go
<1>12. Owner!Clock \/ Owner!Lease \/ Owner!Radio \/ Owner!Start \/ Owner!Fetch => win' = win /\ clock' = clock /\ retry' = retry /\ at' # "select"
  BY DEF Owner!Clock, Owner!Lease, Owner!Radio, Owner!Start, Owner!Fetch, Owner!Go
<1>13. QED BY <1>2, <1>3, <1>4, <1>5, <1>6, <1>7, <1>8, <1>9, <1>10, <1>11, <1>12 DEF Owner!Next

\* the radio
LEMMA OwnerAirKept == ASSUME OwnerInv, Owner!Next PROVE OwnerAir'
<1>1. /\ at \in OwnerPlaces /\ radio \in OwnerRadios /\ tail \in OwnerTails /\ gauge \in OwnerGauges
      /\ (gauge.hold => ~radio.on) /\ (~radio.on => tail.paused \/ tail.client \in {"lan", "none"})
      /\ (at \in OnAir => radio.on) /\ (at = "stop" => tail.paused)
  BY DEF OwnerInv, OwnerAir, Owner!RadioOwned
<1>2. CASE radio' = radio /\ tail' = tail /\ gauge' = gauge /\ at' \in OwnerPlaces /\ at' # "stop" /\ (at' \in OnAir => at \in OnAir)
  BY <1>1, <1>2 DEF OwnerAir, Owner!RadioOwned
<1>3. CASE radio' = radio /\ tail' = tail /\ gauge' = gauge /\ at' = at
  BY <1>1, <1>3 DEF OwnerAir, Owner!RadioOwned
<1>4. CASE Owner!Driver
  <2>1. at' = at /\ tail' = tail /\ gauge' = gauge
    BY <1>4 DEF Owner!Driver
  <2>2. radio' = radio \/ radio' = [radio EXCEPT !.up = TRUE, !.dial = FALSE] \/ radio' = [radio EXCEPT !.up = FALSE]
    BY <1>4 DEF Owner!Driver
  <2>3. radio' \in OwnerRadios /\ radio'.on = radio.on
    BY <1>1, <2>2 DEF OwnerRadios
  <2>4. QED BY <1>1, <2>1, <2>3 DEF OwnerAir, Owner!RadioOwned
<1>5. CASE Owner!Tailnet
  <2>1. at' = at /\ radio' = radio /\ gauge' = gauge /\ \E c \in {"up", "ready"} : tail' = [tail EXCEPT !.client = c]
    BY <1>5 DEF Owner!Tailnet
  <2>2. tail' \in OwnerTails /\ tail'.paused = tail.paused
    BY <1>1, <2>1 DEF OwnerTails
  <2>3. ~radio.on => tail.paused
    BY <1>1, <1>5 DEF Owner!Tailnet
  <2>4. QED BY <1>1, <2>1, <2>2, <2>3 DEF OwnerAir, Owner!RadioOwned
<1>6. CASE Owner!GaugeTask
  <2>1. at' = at /\ radio' = radio /\ tail' = tail
    BY <1>6 DEF Owner!GaugeTask
  <2>2. \/ gauge' = [gauge EXCEPT !.lease = "gauge"] /\ ~gauge.hold
        \/ gauge' = [gauge EXCEPT !.lease = "none", !.hold = ~radio.on]
        \/ gauge' = [gauge EXCEPT !.hold = FALSE]
    BY <1>6 DEF Owner!GaugeTask
  <2>3. radio.on \in BOOLEAN
    BY <1>1 DEF OwnerRadios
  <2>4. gauge' \in OwnerGauges /\ (gauge'.hold => ~radio.on)
    BY <1>1, <2>2, <2>3 DEF OwnerGauges
  <2>5. QED BY <1>1, <2>1, <2>4 DEF OwnerAir, Owner!RadioOwned
<1>7. CASE Owner!Pause
  <2>1. radio' = radio /\ gauge' = gauge /\ at' \in {"stop", "top"}
    BY <1>7 DEF Owner!Pause, Owner!Go
  <2>2. \E c \in {"up", tail.client} : tail' = [tail EXCEPT !.paused = TRUE, !.client = c]
    BY <1>7 DEF Owner!Pause
  <2>3. tail' \in OwnerTails /\ tail'.paused
    <3>1. PICK c \in {"up", tail.client} : tail' = [tail EXCEPT !.paused = TRUE, !.client = c]
      BY <2>2
    <3>2. c \in {"lan", "none", "up", "ready"}
      BY <1>1 DEF OwnerTails
    <3>3. QED BY <1>1, <3>1, <3>2 DEF OwnerTails
  <2>4. QED BY <1>1, <2>1, <2>3 DEF OwnerAir, Owner!RadioOwned, OwnerPlaces, OnAir
<1>8. CASE Owner!Stop
  <2>1. at = "stop" /\ tail' = tail /\ gauge' = gauge /\ tail.paused /\ at' \in {"top", "off"}
    BY <1>1, <1>8 DEF Owner!Stop, Owner!Go
  <2>2. \/ radio' = radio \/ radio' = [radio EXCEPT !.up = FALSE, !.dial = FALSE]
        \/ radio' = [on |-> FALSE, up |-> FALSE, dial |-> FALSE]
    BY <1>8 DEF Owner!Stop
  <2>3. radio' \in OwnerRadios /\ (radio'.on => radio.on)
    <3>1. CASE radio' = radio \/ radio' = [radio EXCEPT !.up = FALSE, !.dial = FALSE]
      BY <1>1, <3>1 DEF OwnerRadios
    <3>2. CASE radio' = [on |-> FALSE, up |-> FALSE, dial |-> FALSE]
      BY <3>2 DEF OwnerRadios
    <3>3. QED BY <2>2, <3>1, <3>2
  <2>4. QED BY <1>1, <2>1, <2>3 DEF OwnerAir, Owner!RadioOwned, OwnerPlaces, OnAir
<1>9. CASE Owner!Clock
  <2>1. radio' = radio /\ tail' = tail /\ gauge' = gauge /\ (at' = "lease" \/ (at' = "link" /\ radio.on))
    BY <1>9 DEF Owner!Clock, Owner!Go
  <2>2. QED BY <1>1, <2>1 DEF OwnerAir, Owner!RadioOwned, OwnerPlaces, OnAir
<1>10. CASE Owner!Lease
  <2>1. radio' = radio /\ tail' = tail /\ at' \in {"radio", "top"} /\ (gauge' = gauge \/ gauge' = [gauge EXCEPT !.lease = "owner"])
    BY <1>10 DEF Owner!Lease, Owner!Go
  <2>2. gauge' \in OwnerGauges /\ gauge'.hold = gauge.hold
    BY <1>1, <2>1 DEF OwnerGauges
  <2>3. QED BY <1>1, <2>1, <2>2 DEF OwnerAir, Owner!RadioOwned, OwnerPlaces, OnAir
<1>11. CASE Owner!Radio
  <2>1. /\ tail' = tail /\ gauge' = [gauge EXCEPT !.lease = "none"]
        /\ \/ ~gauge.hold /\ radio' = [radio EXCEPT !.on = TRUE] /\ at' = "link"
           \/ at' = "top" /\ radio' = radio
    BY <1>11 DEF Owner!Radio, Owner!Go
  <2>2. gauge' \in OwnerGauges /\ gauge'.hold = gauge.hold
    BY <1>1, <2>1 DEF OwnerGauges
  <2>3. CASE ~gauge.hold /\ radio' = [radio EXCEPT !.on = TRUE] /\ at' = "link"
    <3>1. radio' \in OwnerRadios /\ radio'.on
      BY <1>1, <2>3 DEF OwnerRadios
    <3>2. QED BY <1>1, <2>1, <2>2, <2>3, <3>1 DEF OwnerAir, Owner!RadioOwned, OwnerPlaces, OnAir
  <2>4. CASE at' = "top" /\ radio' = radio
    BY <1>1, <2>1, <2>2, <2>4 DEF OwnerAir, Owner!RadioOwned, OwnerPlaces, OnAir
  <2>5. QED BY <2>1, <2>3, <2>4
<1>12. CASE Owner!Select
  <2>1. tail' = tail /\ gauge' = gauge /\ at = "select" /\ at' = "top"
    BY <1>12, OwnerSpends DEF Owner!Select
  <2>2. radio' = radio \/ radio' = [radio EXCEPT !.up = FALSE, !.dial = TRUE]
    <3>1. \A s : Owner!NotSelected(s) => radio' = radio
      BY DEF Owner!NotSelected
    <3>2. \A s : Owner!Selects(s) => radio' = radio \/ radio' = [radio EXCEPT !.up = FALSE, !.dial = TRUE]
      BY <3>1 DEF Owner!Selects
    <3>3. \E s : Owner!NotSelected(s) \/ Owner!Selects(s)
      BY <1>12 DEF Owner!Select
    <3>4. QED BY <3>1, <3>2, <3>3
  <2>3. radio' \in OwnerRadios /\ radio'.on = radio.on
    BY <1>1, <2>2 DEF OwnerRadios
  <2>4. QED BY <1>1, <2>1, <2>3 DEF OwnerAir, Owner!RadioOwned, OwnerPlaces, OnAir
<1>13. CASE Owner!Start
  <2>1. at = "tail" /\ radio' = radio /\ gauge' = gauge /\ at' \in {"fetch", "top"} /\ radio.on
    BY <1>1, <1>13 DEF Owner!Start, Owner!Go, OnAir
  <2>2. tail' = tail \/ (\E ok \in BOOLEAN : tail' = [client |-> "up", paused |-> ~ok]) \/ tail' = [tail EXCEPT !.paused = FALSE]
    BY <1>13 DEF Owner!Start
  <2>3. tail' \in OwnerTails
    <3>1. CASE \E ok \in BOOLEAN : tail' = [client |-> "up", paused |-> ~ok]
      BY <3>1 DEF OwnerTails
    <3>2. CASE tail' = tail \/ tail' = [tail EXCEPT !.paused = FALSE]
      BY <1>1, <3>2 DEF OwnerTails
    <3>3. QED BY <2>2, <3>1, <3>2
  <2>4. QED BY <1>1, <2>1, <2>3 DEF OwnerAir, Owner!RadioOwned, OwnerPlaces, OnAir
<1>14. CASE Owner!Turn
  <2>1. radio' = radio /\ tail' = tail /\ gauge' = gauge /\ at' \in {"clock", "pause", "off"}
    BY <1>14 DEF Owner!Turn, Owner!Go
  <2>2. QED BY <1>2, <2>1 DEF OwnerPlaces, OnAir
<1>15. CASE Owner!Off \/ Owner!Slow \/ Owner!Apply
  <2>1. radio' = radio /\ tail' = tail /\ gauge' = gauge /\ at' \in {"top", "slow", "apply"}
    BY <1>15 DEF Owner!Off, Owner!Slow, Owner!Apply, Owner!Go
  <2>2. QED BY <1>2, <2>1 DEF OwnerPlaces, OnAir
<1>16. CASE Owner!Link \/ Owner!Retry \/ Owner!Fetch
  <2>1. radio' = radio /\ tail' = tail /\ gauge' = gauge /\ at' \in {"top", "tail", "retry", "select", "quota"} /\ at \in {"link", "retry", "fetch"}
    BY <1>16 DEF Owner!Link, Owner!Retry, Owner!Fetch, Owner!Go
  <2>2. QED BY <1>2, <2>1 DEF OwnerPlaces, OnAir
<1>17. CASE Owner!History \/ \E ok \in BOOLEAN : Owner!Quota(ok) \/ Owner!HistoryEnd(ok)
  <2>1. /\ radio' = radio /\ tail' = tail /\ gauge' = gauge /\ at' \in {"top", "good", "bad", "good+history", "bad+history"}
        /\ at \in {"quota", "good", "bad", "good+history", "bad+history"}
    BY <1>17 DEF Owner!History, Owner!Quota, Owner!HistoryEnd, Owner!Go
  <2>2. QED BY <1>2, <2>1 DEF OwnerPlaces, OnAir
<1>18. Owner!Lock(TRUE) \/ Owner!Lock(FALSE) \/ Owner!Boost \/ Owner!Force \/ Owner!Tick \/ Owner!Settings => radio' = radio /\ tail' = tail /\ gauge' = gauge /\ at' = at
  BY DEF Owner!Lock, Owner!Boost, Owner!Force, Owner!Tick, Owner!Settings
<1>19. QED BY <1>3, <1>4, <1>5, <1>6, <1>7, <1>8, <1>9, <1>10, <1>11, <1>12, <1>13, <1>14, <1>15, <1>16, <1>17, <1>18 DEF Owner!Next

\* the clock of the processor
LEMMA OwnerSpeedKept == ASSUME OwnerInv, Owner!Next PROVE OwnerSpeed'
<1>1. /\ ui \in OwnerScreens /\ cpu \in OwnerClocks /\ (at = "apply" => cpu.next # "none")
      /\ (cpu.next = "slow" => ui.locked \/ ui.boost) /\ (cpu.next = "none" /\ cpu.mhz = "slow" => ui.locked \/ ui.boost)
  BY DEF OwnerInv, OwnerSpeed
<1>2. CASE ui' = ui /\ cpu' = cpu /\ (at' = at \/ at' # "apply")
  BY <1>1, <1>2 DEF OwnerSpeed
<1>3. CASE \E locked \in BOOLEAN : Owner!Lock(locked)
  <2>1. PICK locked \in BOOLEAN : ui' = [ui EXCEPT !.locked = locked, !.boost = ~locked] /\ cpu' = cpu /\ at' = at
    BY <1>3 DEF Owner!Lock
  <2>2. ui' \in OwnerScreens /\ (ui'.locked \/ ui'.boost)
    BY <1>1, <2>1 DEF OwnerScreens
  <2>3. QED BY <1>1, <2>1, <2>2 DEF OwnerSpeed
<1>4. CASE Owner!Boost
  <2>1. cpu' = [cpu EXCEPT !.mhz = "full"] /\ ui' = [ui EXCEPT !.boost = FALSE] /\ at' = at /\ cpu.next = "none"
    BY <1>4 DEF Owner!Boost
  <2>2. ui' \in OwnerScreens /\ cpu' \in OwnerClocks /\ cpu'.mhz = "full" /\ cpu'.next = "none"
    BY <1>1, <2>1 DEF OwnerScreens, OwnerClocks
  <2>3. QED BY <1>1, <2>1, <2>2 DEF OwnerSpeed
<1>5. CASE Owner!Force \/ Owner!Turn
  <2>1. cpu' = cpu /\ (at' = at \/ at' # "apply")
    BY <1>5 DEF Owner!Force, Owner!Turn, Owner!Go
  <2>2. \E forced \in BOOLEAN : ui' = [ui EXCEPT !.forced = forced]
    <3>1. CASE Owner!Force
      BY <3>1 DEF Owner!Force
    <3>2. CASE Owner!Turn
      <4> DEFINE asked == (ui.locked \/ gauge.hold) /\ ~gauge.hold /\ ~(win.open /\ ~((ui.locked \/ gauge.hold) /\ ~win.locked) /\ ~gauge.hold)
      <4>1. ui' = [ui EXCEPT !.forced = ui.forced /\ ~asked]
        BY <3>2 DEF Owner!Turn
      <4>2. (ui.forced /\ ~asked) \in BOOLEAN
        BY <1>1 DEF OwnerScreens
      <4> HIDE DEF asked
      <4>3. QED BY <4>1, <4>2
    <3>3. QED BY <1>5, <3>1, <3>2
  <2>3. ui' \in OwnerScreens /\ ui'.locked = ui.locked /\ ui'.boost = ui.boost
    BY <1>1, <2>2 DEF OwnerScreens
  <2>4. QED BY <1>1, <2>1, <2>3 DEF OwnerSpeed
<1>6. CASE Owner!Slow
  <2>1. ui' = ui /\ \E next \in {"slow", "full"} : cpu' = [cpu EXCEPT !.next = next] /\ (next = "slow" => ui.locked)
    BY <1>6 DEF Owner!Slow
  <2>2. cpu' \in OwnerClocks /\ cpu'.next # "none" /\ (cpu'.next = "slow" => ui.locked)
    BY <1>1, <2>1 DEF OwnerClocks
  <2>3. QED BY <1>1, <2>1, <2>2 DEF OwnerSpeed
<1>7. CASE Owner!Apply
  <2>1. ui' = ui /\ at' = "top" /\ cpu' = [mhz |-> cpu.next, next |-> "none"] /\ at = "apply"
    BY <1>7 DEF Owner!Apply, Owner!Go
  <2>2. cpu.next \in {"full", "slow"}
    BY <1>1, <2>1 DEF OwnerClocks
  <2>3. cpu' \in OwnerClocks /\ cpu'.next = "none" /\ cpu'.mhz = cpu.next
    BY <2>1, <2>2 DEF OwnerClocks
  <2>4. QED BY <1>1, <2>1, <2>3 DEF OwnerSpeed
<1>8. CASE Owner!Clock
  <2>1. ui' = ui /\ at' # "apply" /\ cpu' = [cpu EXCEPT !.mhz = "full"] /\ cpu.next = "none"
    BY <1>8 DEF Owner!Clock, Owner!Go
  <2>2. cpu' \in OwnerClocks /\ cpu'.mhz = "full" /\ cpu'.next = "none"
    BY <1>1, <2>1 DEF OwnerClocks
  <2>3. QED BY <1>1, <2>1, <2>2 DEF OwnerSpeed
<1>9. Owner!Tick \/ Owner!Driver \/ Owner!Tailnet \/ Owner!GaugeTask \/ Owner!Settings => ui' = ui /\ cpu' = cpu /\ at' = at
  BY DEF Owner!Tick, Owner!Driver, Owner!Tailnet, Owner!GaugeTask, Owner!Settings
<1>10. Owner!Pause \/ Owner!Stop \/ Owner!Off \/ Owner!Lease \/ Owner!Radio \/ Owner!Link \/ Owner!Retry => ui' = ui /\ cpu' = cpu /\ at' # "apply"
  BY DEF Owner!Pause, Owner!Stop, Owner!Off, Owner!Lease, Owner!Radio, Owner!Link, Owner!Retry, Owner!Go
<1>11. Owner!Start \/ Owner!Fetch \/ Owner!History \/ (\E ok \in BOOLEAN : Owner!Quota(ok) \/ Owner!HistoryEnd(ok)) => ui' = ui /\ cpu' = cpu /\ at' # "apply"
  BY DEF Owner!Start, Owner!Fetch, Owner!History, Owner!Quota, Owner!HistoryEnd, Owner!Go
<1>12. Owner!Select => ui' = ui /\ cpu' = cpu /\ at' # "apply"
  BY OwnerSpends DEF Owner!Select
<1>13. QED BY <1>2, <1>3, <1>4, <1>5, <1>6, <1>7, <1>8, <1>9, <1>10, <1>11, <1>12 DEF Owner!Next

\* the requests
LEMMA OwnerAsksKept == ASSUME OwnerInv, Owner!Next PROVE OwnerAsks'
<1>1. /\ began \in OwnerRequests /\ ~began.leaked /\ win \in OwnerWindows /\ ui.locked \in BOOLEAN
      /\ (at \in {"quota", "good", "bad"} => win.open \/ ~win.locked)
  BY DEF OwnerInv, OwnerAsks, OwnerBudget, OwnerSpeed, OwnerScreens
<1>2. CASE began' = began /\ (at' \notin {"quota", "good", "bad"} \/ (at' = at /\ win' = win))
  BY <1>1, <1>2 DEF OwnerAsks
<1>3. CASE Owner!Turn
  <2>1. began' = [began EXCEPT !.locked = FALSE] /\ at' \in {"clock", "pause", "off"}
    BY <1>3 DEF Owner!Turn, Owner!Go
  <2>2. began' \in OwnerRequests /\ ~began'.leaked
    BY <1>1, <2>1 DEF OwnerRequests
  <2>3. QED BY <2>1, <2>2 DEF OwnerAsks
<1>4. CASE Owner!Fetch
  <2>1. began' = [began EXCEPT !.locked = ui.locked] /\ win' = win /\ (at' = "top" \/ (at' = "quota" /\ ~(win.locked /\ ~win.open)))
    BY <1>4 DEF Owner!Fetch, Owner!Go
  <2>2. began' \in OwnerRequests /\ ~began'.leaked
    BY <1>1, <2>1 DEF OwnerRequests
  <2>3. QED BY <2>1, <2>2 DEF OwnerAsks
<1>5. CASE \E ok \in BOOLEAN : Owner!Quota(ok)
  <2>1. PICK ok \in BOOLEAN : at = "quota" /\ win' = [win EXCEPT !.first = win.first \/ ok] /\ began' = began
    BY <1>5 DEF Owner!Quota
  <2>2. win'.open = win.open /\ win'.locked = win.locked
    BY <1>1, <2>1 DEF OwnerWindows
  <2>3. QED BY <1>1, <2>1, <2>2 DEF OwnerAsks
<1>6. CASE Owner!History
  <2>1. at' \in {"top", "good+history", "bad+history"} /\ (began' = began \/ (~ui.locked /\ began' = [began EXCEPT !.leaked = began.leaked \/ ui.locked]))
    BY <1>6 DEF Owner!History, Owner!HistoryRequired, Owner!Go
  <2>2. began' \in OwnerRequests /\ ~began'.leaked
    BY <1>1, <2>1 DEF OwnerRequests
  <2>3. QED BY <2>1, <2>2 DEF OwnerAsks
<1>7. Owner!Lock(TRUE) \/ Owner!Lock(FALSE) \/ Owner!Boost \/ Owner!Force \/ Owner!Tick \/ Owner!Driver \/ Owner!Tailnet \/ Owner!GaugeTask \/ Owner!Settings => began' = began /\ at' = at /\ win' = win
  BY DEF Owner!Lock, Owner!Boost, Owner!Force, Owner!Tick, Owner!Driver, Owner!Tailnet, Owner!GaugeTask, Owner!Settings
<1>8. Owner!Pause \/ Owner!Stop \/ Owner!Off \/ Owner!Slow \/ Owner!Apply => began' = began /\ at' \notin {"quota", "good", "bad"}
  BY DEF Owner!Pause, Owner!Stop, Owner!Off, Owner!Slow, Owner!Apply, Owner!Go
<1>9. Owner!Clock \/ Owner!Lease \/ Owner!Radio \/ Owner!Link \/ Owner!Retry \/ Owner!Start \/ (\E ok \in BOOLEAN : Owner!HistoryEnd(ok)) => began' = began /\ at' \notin {"quota", "good", "bad"}
  BY DEF Owner!Clock, Owner!Lease, Owner!Radio, Owner!Link, Owner!Retry, Owner!Start, Owner!HistoryEnd, Owner!Go
<1>10. Owner!Select => began' = began /\ at' \notin {"quota", "good", "bad"}
  BY OwnerSpends DEF Owner!Select
<1>11. QED BY <1>2, <1>3, <1>4, <1>5, <1>6, <1>7, <1>8, <1>9, <1>10 DEF Owner!Next

LEMMA OwnerSteps == ASSUME OwnerInv, Owner!Next PROVE OwnerInv'
BY OwnerScanKept, OwnerBudgetKept, OwnerAirKept, OwnerSpeedKept, OwnerAsksKept DEF OwnerInv

LEMMA OwnerRests == ASSUME OwnerInv, UNCHANGED Owner!ownerVars PROVE OwnerInv'
<1>1. UNCHANGED <<at, win, clock, retry, radio, scan, count, tail, ui, cpu, gauge, began>>
  BY DEF Owner!ownerVars
<1>2. OwnerBudget' /\ OwnerScan' /\ OwnerAir' /\ OwnerSpeed' /\ OwnerAsks'
  BY <1>1 DEF OwnerInv, OwnerBudget, OwnerScan, OwnerAir, OwnerSpeed, OwnerAsks, Owner!RadioOwned
<1>3. QED BY <1>2 DEF OwnerInv

LEMMA OwnerStarts == ASSUME Owner!Init PROVE OwnerInv
<1>1. /\ at = "top" /\ clock = 0 /\ count \in 0 .. Profiles /\ win = [open |-> FALSE, locked |-> FALSE, first |-> FALSE]
      /\ retry = [n |-> 0, runs |-> FALSE, made |-> 0] /\ scan = Owner!NoScan /\ ui = [locked |-> FALSE, forced |-> FALSE, boost |-> FALSE]
      /\ cpu = [mhz |-> "full", next |-> "none"] /\ began = [locked |-> FALSE, leaked |-> FALSE]
      /\ gauge \in [hold : BOOLEAN, lease : {"none"}] /\ radio = [on |-> ~gauge.hold, up |-> FALSE, dial |-> FALSE]
      /\ tail \in [client : {"lan", "none"}, paused : {FALSE}]
  BY DEF Owner!Init
<1>2. OwnerBudget
  BY <1>1, OwnerConstants DEF OwnerBudget, OwnerWindows, OwnerRetries
<1>3. OwnerScan
  <2>1. <<>> \in Candidates(count)
    BY EmptySeq DEF Candidates
  <2>2. QED BY <1>1, <2>1 DEF OwnerScan, ScanHeld, OwnerScans, Owner!NoScan
<1>4. OwnerAir
  <2>1. PICK on \in BOOLEAN : gauge = [hold |-> on, lease |-> "none"]
    BY <1>1
  <2>2. PICK c \in {"lan", "none"} : tail = [client |-> c, paused |-> FALSE]
    BY <1>1
  <2>3. QED BY <1>1, <2>1, <2>2 DEF OwnerAir, Owner!RadioOwned, OwnerPlaces, OnAir, OwnerRadios, OwnerTails, OwnerGauges
<1>5. OwnerSpeed /\ OwnerAsks
  BY <1>1 DEF OwnerSpeed, OwnerAsks, OwnerScreens, OwnerClocks, OwnerRequests
<1>6. QED BY <1>2, <1>3, <1>4, <1>5 DEF OwnerInv

LEMMA OwnerKeeps == ASSUME OwnerInv PROVE Owner!RadioKept
<1>1. Owner!TypeOK /\ Owner!Budgeted
  <2>1. clock \in 0 .. 2 /\ retry.n \in 0 .. Attempts /\ retry.made \in 0 .. Attempts /\ count \in 0 .. Profiles
    BY DEF OwnerInv, OwnerBudget, OwnerRetries, OwnerScan
  <2>2. QED BY <2>1, OwnerConstants DEF Owner!TypeOK, Owner!Budgeted
<1>2. Owner!ScansKnown
  <2>1. (scan.drv = "scans" => scan.started) /\ scan.cands \in Candidates(count) /\ count \in Nat
    BY OwnerConstants DEF OwnerInv, OwnerScan, ScanHeld, OwnerScans
  <2>2. \A i \in DOMAIN scan.cands : scan.cands[i] \in 1 .. count
    BY <2>1, ElementOfSeq DEF Candidates
  <2>3. QED BY <2>1, <2>2 DEF Owner!ScansKnown
<1>3. Owner!RadioOwned
  BY DEF OwnerInv, OwnerAir
<1>4. Owner!FullSpeed
  BY DEF OwnerInv, OwnerSpeed, OwnerClocks, Owner!FullSpeed
<1>5. Owner!RequestsFit
  BY DEF OwnerInv, OwnerAir, OwnerAsks, OnAir, Owner!RequestsFit
<1>6. QED BY <1>1, <1>2, <1>3, <1>4, <1>5 DEF Owner!RadioKept

(* The board's steps move the owner as its own steps do, or leave it.      *)
LEMMA OwnerMoves ==
  ASSUME OwnerInv, [BoardNext]_<<part, vars, trialVars, ownerVars>>
  PROVE  OwnerInv'
<1>1. CASE Owner!Next
  BY <1>1, OwnerSteps
<1>2. CASE UNCHANGED ownerVars
  <2>1. UNCHANGED Owner!ownerVars
    BY <1>2 DEF ownerVars, Owner!ownerVars
  <2> QED BY <2>1, OwnerRests
<1>3. CASE UNCHANGED <<part, vars, trialVars, ownerVars>>
  BY <1>2, <1>3
<1> QED BY <1>1, <1>2, <1>3 DEF BoardNext

(* A window spends no more attempts than it has, a driver's scan is one    *)
(* the owner will hear the end of, the radio is off under a gauge trial,   *)
(* the processor is fast for an open screen, and requests are made only    *)
(* awake or in a window (networkTask).                                     *)
THEOREM RadioIsKept == BoardSpec => []RadioKept
<1>1. BoardInit => OwnerInv
  BY OwnerStarts DEF BoardInit
<1>2. OwnerInv /\ [BoardNext]_<<part, vars, trialVars, ownerVars>> => OwnerInv'
  BY OwnerMoves
<1>3. OwnerInv => RadioKept
  BY OwnerKeeps DEF RadioKept
<1> QED BY <1>1, <1>2, <1>3, PTL DEF BoardSpec

\* what the owner owes, what the driver may still be doing, and what it says
TwtDebts == [flow : BOOLEAN, reply : BOOLEAN, sent : BOOLEAN, ack : BOOLEAN, barrier : BOOLEAN, ps : BOOLEAN, alive : BOOLEAN,
             wanted : BOOLEAN, tries : 0 .. 2, pending : BOOLEAN, failed : BOOLEAN,
             hold : {"none", "socket", "probe", "drain"}, clock : {"off", "run", "due"}]
TwtDrivers == [setup : 0 .. MaxId, flow : 0 .. MaxId, teardown : {"none", "sent"}, tail : BOOLEAN,
               probe : {"none", "wait", "producing", "posted"}, ps : {"user", "min"}, alive : BOOLEAN]
TwtStages == {"Off", "Armed", "Negotiating", "Active", "Baseline", "Failed"}
TwtTrials == [id : 0 .. MaxId, mode : {"Off", "Baseline", "On"}, stage : TwtStages, boot : {"no", "tried", "ok"}]
TwtWorlds == [locked : BOOLEAN, ota : {"idle", "asked", "moving"}, link : BOOLEAN, radio : BOOLEAN, fault : BOOLEAN]
TwtBacks == {"gate", "served", "booted", "pass"}
TwtPlaces == TwtBacks \cup {"check", "overflow", "events", "request", "link", "keepalive", "submit", "hold", "settle", "settled",
                            "route", "stopping", "selecting", "serve", "manifest", "update", "moving"}
TwtNews == [kind : {"setup"}, id : 0 .. MaxId, ok : BOOLEAN, all : {FALSE}]
           \cup [kind : {"teardown"}, id : {0}, ok : BOOLEAN, all : BOOLEAN]
           \cup [kind : {"disconnect"}, id : {0}, ok : {FALSE}, all : {FALSE}]

TwtTyped ==
  /\ pc \in [at : TwtPlaces, back : TwtBacks]
  /\ trial \in TwtTrials /\ owe \in TwtDebts /\ drv \in TwtDrivers
  /\ fifo \in Seq(TwtNews) /\ Len(fifo) <= FifoMax /\ overflow \in BOOLEAN
  /\ request \in {"none", "Off", "Baseline", "On"}
  /\ probe \in {"none", "queued", "sent", "timer", "stuck", "done"}
  /\ socket \in {"idle", "queued", "active", "debt"}
  /\ flaps \in 0 .. MaxFlaps

\* whatever the driver still has of a trial is on the owner's books
Booked(t, o, d) ==
  /\ d.ps # "user" => o.ps
  /\ d.alive => o.alive
  /\ d.setup # 0 => o.reply /\ d.setup = t.id /\ d.flow = 0
  /\ d.flow # 0 => o.flow /\ d.flow = t.id
  /\ d.teardown = "sent" => o.sent /\ ~o.ack
  /\ d.tail => o.flow \/ o.barrier
  /\ o.reply => o.flow
  /\ o.sent => o.flow /\ ~o.reply
  /\ o.ack => o.sent /\ d.flow = 0

\* an answer to the setup, an end of all flows, an end by the access point
IsSetup(e) == e.kind = "setup"
IsAll(e) == e.kind = "teardown" /\ e.all
IsAp(e) == e.kind = "teardown" /\ ~e.all

\* news under way is of what the books say, each kind once, and in the order it happened
Told(t, o, d, e) ==
  /\ IsSetup(e) => o.reply /\ d.setup = 0 /\ e.id = t.id /\ (~e.ok => d.flow = 0)
  /\ IsAll(e) => o.sent /\ ~o.ack /\ d.teardown = "none" /\ (e.ok => d.flow = 0)
  /\ IsAp(e) => e.ok /\ d.flow = 0 /\ d.setup = 0 /\ o.flow /\ ~o.ack
InOrder(e, f) ==
  /\ IsSetup(f) => ~IsSetup(e) /\ ~IsAp(e)
  /\ IsAll(f) => ~IsAll(e)
  /\ IsAp(f) => ~IsAp(e) /\ (IsSetup(e) => e.ok) /\ (IsAll(e) => ~e.ok)
Reported(t, o, d, q) ==
  /\ \A i \in DOMAIN q : Told(t, o, d, q[i])
  /\ \A i, j \in DOMAIN q : i < j => InOrder(q[i], q[j])

\* a negotiation will be answered, and a trial that lost its flow will hear of it
Ends(e) == e.kind = "disconnect" \/ IsAp(e) \/ (IsSetup(e) /\ ~e.ok)
Awaited(t, d, q, lost) ==
  /\ t.stage = "Negotiating" /\ d.setup = 0 => lost \/ \E i \in DOMAIN q : IsSetup(q[i])
  /\ t.stage \in {"Negotiating", "Active"} /\ d.setup = 0 /\ d.flow # t.id => lost \/ \E i \in DOMAIN q : Ends(q[i])

\* a live trial owes nothing yet that it must be seen to pay; a dead one is paid or pending
Staged(t, o, p, s) ==
  /\ Trial!Live(t) => ~o.pending /\ ~o.failed /\ ~o.sent /\ t.id # 0
  /\ t.stage = "Armed" => ~o.flow /\ ~o.barrier
  /\ o.reply /\ Trial!Live(t) => t.stage = "Negotiating"
  /\ ~Trial!Live(t) /\ ~o.pending /\ ~o.failed => ~Trial!Debt(o) /\ p \notin {"sent", "timer", "stuck"} /\ s \in {"idle", "queued"}

TwtPlaced ==
  /\ pc.at = "request" => request # "none"
  /\ pc.at \in {"keepalive", "submit"} => trial.stage = "Armed"
  /\ pc.at \in {"stopping", "selecting", "manifest", "update", "moving"} => ~Trial!Live(trial)
  /\ pc.at \in {"route", "stopping", "selecting", "moving"} => ~Trial!Quit
  /\ world.ota = "moving" => pc.at = "moving"
  /\ drv.probe # "none" => probe \in {"sent", "timer", "stuck"}

TwtGood ==
  /\ TwtTyped /\ Booked(trial, owe, drv) /\ Reported(trial, owe, drv, fifo) /\ Awaited(trial, drv, fifo, overflow)
  /\ Staged(trial, owe, probe, socket) /\ TwtPlaced

TwtInv == world \in TwtWorlds /\ (world.fault \/ TwtGood)

(* What the driver posts comes last in the owner's queue.                  *)
LEMMA NewsPosted ==
  ASSUME NEW q \in Seq(TwtNews), NEW e \in TwtNews
  PROVE  /\ Append(q, e) \in Seq(TwtNews) /\ Len(Append(q, e)) = Len(q) + 1 /\ Len(q) \in Nat
         /\ DOMAIN q = 1 .. Len(q) /\ DOMAIN Append(q, e) = 1 .. Len(q) + 1
         /\ \A i \in 1 .. Len(q) : Append(q, e)[i] = q[i] /\ q[i] \in TwtNews
         /\ Append(q, e)[Len(q) + 1] = e
<1>1. Len(q) \in Nat /\ DOMAIN q = 1 .. Len(q)
  BY LenProperties
<1>2. /\ Append(q, e) \in Seq(TwtNews) /\ Len(Append(q, e)) = Len(q) + 1
      /\ \A i \in 1 .. Len(q) : Append(q, e)[i] = q[i]
      /\ Append(q, e)[Len(q) + 1] = e
  BY AppendProperties
<1>3. DOMAIN Append(q, e) = 1 .. Len(q) + 1
  BY <1>2, LenProperties
<1>4. \A i \in 1 .. Len(q) : q[i] \in TwtNews
  BY <1>1, ElementOfSeq
<1> QED BY <1>1, <1>2, <1>3, <1>4

(* What the owner takes is the first of its queue.                         *)
LEMMA NewsTaken ==
  ASSUME NEW q \in Seq(TwtNews), q # <<>>
  PROVE  /\ Tail(q) \in Seq(TwtNews) /\ Len(q) \in Nat /\ Len(Tail(q)) = Len(q) - 1 /\ Len(q) >= 1
         /\ DOMAIN q = 1 .. Len(q) /\ DOMAIN Tail(q) = 1 .. Len(q) - 1
         /\ \A i \in 1 .. Len(q) - 1 : Tail(q)[i] = q[i + 1] /\ i + 1 \in DOMAIN q
         /\ Head(q) = q[1] /\ Head(q) \in TwtNews /\ 1 \in DOMAIN q
<1>1. Len(q) \in Nat /\ DOMAIN q = 1 .. Len(q) /\ Len(q) >= 1
  BY LenProperties, EmptySeq
<1>2. Tail(q) \in Seq(TwtNews) /\ Len(Tail(q)) = Len(q) - 1 /\ \A i \in 1 .. Len(q) - 1 : Tail(q)[i] = q[i + 1]
  BY HeadTailProperties
<1>3. Head(q) = q[1] /\ Head(q) \in TwtNews
  BY HeadTailProperties
<1>4. DOMAIN Tail(q) = 1 .. Len(q) - 1
  BY <1>2, LenProperties
<1> QED BY <1>1, <1>2, <1>3, <1>4

(* News that fits what is already under way may be posted.                 *)
LEMMA ReportMade ==
  ASSUME NEW t, NEW o, NEW d, NEW q \in Seq(TwtNews), NEW e \in TwtNews, Reported(t, o, d, q), Told(t, o, d, e),
         \A i \in DOMAIN q : InOrder(q[i], e)
  PROVE  Reported(t, o, d, Append(q, e))
<1>1. /\ Len(q) \in Nat /\ DOMAIN q = 1 .. Len(q) /\ DOMAIN Append(q, e) = 1 .. Len(q) + 1
      /\ \A i \in 1 .. Len(q) : Append(q, e)[i] = q[i]
      /\ Append(q, e)[Len(q) + 1] = e
  BY NewsPosted
<1>2. ASSUME NEW i \in DOMAIN Append(q, e) PROVE Told(t, o, d, Append(q, e)[i])
  <2>1. CASE i = Len(q) + 1
    BY <1>1, <2>1
  <2>2. CASE i \in DOMAIN q
    BY <1>1, <2>2 DEF Reported
  <2> QED BY <1>1, <2>1, <2>2
<1>3. ASSUME NEW i \in DOMAIN Append(q, e), NEW j \in DOMAIN Append(q, e), i < j PROVE InOrder(Append(q, e)[i], Append(q, e)[j])
  <2>1. i \in DOMAIN q /\ Append(q, e)[i] = q[i]
    BY <1>1, <1>3
  <2>2. CASE j = Len(q) + 1
    BY <1>1, <2>1, <2>2
  <2>3. CASE j \in DOMAIN q
    <3>1. Append(q, e)[j] = q[j]
      BY <1>1, <2>3
    <3> QED BY <1>3, <2>1, <2>3, <3>1 DEF Reported
  <2> QED BY <1>1, <2>2, <2>3
<1> QED BY <1>2, <1>3 DEF Reported

(* What is left of the queue says what it said, and follows what was taken.*)
LEMMA ReportTaken ==
  ASSUME NEW t, NEW o, NEW d, NEW q \in Seq(TwtNews), q # <<>>, Reported(t, o, d, q)
  PROVE  /\ Reported(t, o, d, Tail(q)) /\ Told(t, o, d, Head(q))
         /\ \A i \in DOMAIN Tail(q) : InOrder(Head(q), Tail(q)[i])
<1>1. /\ Len(q) \in Nat /\ DOMAIN q = 1 .. Len(q) /\ DOMAIN Tail(q) = 1 .. Len(q) - 1
      /\ \A i \in 1 .. Len(q) - 1 : Tail(q)[i] = q[i + 1] /\ i + 1 \in DOMAIN q
      /\ Head(q) = q[1] /\ 1 \in DOMAIN q
  BY NewsTaken
<1>2. \A i \in DOMAIN Tail(q) : Told(t, o, d, Tail(q)[i])
  BY <1>1 DEF Reported
<1>3. ASSUME NEW i \in DOMAIN Tail(q), NEW j \in DOMAIN Tail(q), i < j PROVE InOrder(Tail(q)[i], Tail(q)[j])
  <2>1. i + 1 \in DOMAIN q /\ j + 1 \in DOMAIN q /\ i + 1 < j + 1 /\ Tail(q)[i] = q[i + 1] /\ Tail(q)[j] = q[j + 1]
    BY <1>1, <1>3
  <2> QED BY <2>1 DEF Reported
<1>4. ASSUME NEW i \in DOMAIN Tail(q) PROVE InOrder(Head(q), Tail(q)[i])
  <2>1. i + 1 \in DOMAIN q /\ 1 < i + 1 /\ Tail(q)[i] = q[i + 1]
    BY <1>1
  <2> QED BY <1>1, <2>1 DEF Reported
<1> QED BY <1>1, <1>2, <1>3, <1>4 DEF Reported

(* Of what was awaited, only what is taken is no longer under way.         *)
LEMMA AwaitedTaken ==
  ASSUME NEW t, NEW d, NEW q \in Seq(TwtNews), q # <<>>, NEW l, Awaited(t, d, q, l)
  PROVE  /\ t.stage = "Negotiating" /\ d.setup = 0 => l \/ IsSetup(Head(q)) \/ \E i \in DOMAIN Tail(q) : IsSetup(Tail(q)[i])
         /\ t.stage \in {"Negotiating", "Active"} /\ d.setup = 0 /\ d.flow # t.id =>
              l \/ Ends(Head(q)) \/ \E i \in DOMAIN Tail(q) : Ends(Tail(q)[i])
<1>1. /\ Len(q) \in Nat /\ DOMAIN q = 1 .. Len(q) /\ DOMAIN Tail(q) = 1 .. Len(q) - 1
      /\ \A i \in 1 .. Len(q) - 1 : Tail(q)[i] = q[i + 1]
      /\ Head(q) = q[1]
  BY NewsTaken
<1>2. ASSUME NEW i \in DOMAIN q PROVE q[i] = Head(q) \/ (i - 1 \in DOMAIN Tail(q) /\ Tail(q)[i - 1] = q[i])
  <2>1. CASE i = 1
    BY <1>1, <2>1
  <2>2. CASE i # 1
    <3>1. i - 1 \in 1 .. Len(q) - 1 /\ (i - 1) + 1 = i
      BY <1>1, <2>2
    <3> QED BY <1>1, <3>1
  <2> QED BY <2>1, <2>2
<1>3. ASSUME t.stage = "Negotiating", d.setup = 0, ~l
      PROVE  IsSetup(Head(q)) \/ \E i \in DOMAIN Tail(q) : IsSetup(Tail(q)[i])
  <2>1. PICK i \in DOMAIN q : IsSetup(q[i])
    BY <1>3 DEF Awaited
  <2> QED BY <1>2, <2>1
<1>4. ASSUME t.stage \in {"Negotiating", "Active"}, d.setup = 0, d.flow # t.id, ~l
      PROVE  Ends(Head(q)) \/ \E i \in DOMAIN Tail(q) : Ends(Tail(q)[i])
  <2>1. PICK i \in DOMAIN q : Ends(q[i])
    BY <1>4 DEF Awaited
  <2> QED BY <1>2, <2>1
<1> QED BY <1>3, <1>4

\* settings put back, or not: nothing else of the books changes
Restored(o, d, p, e) ==
  /\ p \in TwtDebts /\ e \in TwtDrivers
  /\ e.setup = d.setup /\ e.flow = d.flow /\ e.probe = d.probe /\ e.teardown = d.teardown /\ e.tail = d.tail
  /\ p.reply = o.reply /\ p.flow = o.flow /\ p.barrier = o.barrier /\ p.sent = o.sent /\ p.ack = o.ack
  /\ e.ps = "user" \/ (e.ps = d.ps /\ p.ps = o.ps)
  /\ ~e.alive \/ (e.alive = d.alive /\ p.alive = o.alive)

\* a pass over the debts: what is with the driver is waited for before it is written off
Settled(o, d, p, e) ==
  /\ p \in TwtDebts /\ e \in TwtDrivers
  /\ e.setup = d.setup /\ e.flow = d.flow /\ e.probe = d.probe /\ p.reply = o.reply
  /\ e.ps = "user" \/ (e.ps = d.ps /\ p.ps = o.ps)
  /\ ~e.alive \/ (e.alive = d.alive /\ p.alive = o.alive)
  /\ \/ /\ p.flow = o.flow /\ p.barrier = o.barrier /\ p.sent = o.sent /\ p.ack = o.ack
        /\ e.teardown = d.teardown /\ e.tail = d.tail
     \/ /\ o.flow /\ ~o.sent /\ ~o.reply /\ p.flow /\ p.barrier = o.barrier /\ p.sent /\ ~p.ack
        /\ e.teardown \in {d.teardown, "sent"} /\ e.tail = d.tail
     \/ /\ ~o.reply /\ (o.flow => o.ack) /\ d.flow = 0
        /\ ~p.flow /\ ~p.barrier /\ ~p.sent /\ ~p.ack /\ e.teardown = d.teardown /\ ~e.tail

(* The user's power save is put back, or the attempt is counted.           *)
LEMMA PsRestored ==
  ASSUME NEW o \in TwtDebts, NEW d \in TwtDrivers, NEW r \in Trial!RestorePs(o, d)
  PROVE  Restored(o, d, r[1], r[2])
<1>1. CASE ~o.ps
  BY <1>1 DEF Trial!RestorePs, Restored
<1>2. CASE o.ps
  <2>1. \/ r = <<[o EXCEPT !.ps = FALSE], [d EXCEPT !.ps = "user"]>>
        \/ o.tries + 1 >= 2 /\ r = <<Trial!Failed([o EXCEPT !.tries = 2]), d>>
        \/ ~(o.tries + 1 >= 2) /\ r = <<[o EXCEPT !.tries = 1], d>>
    BY <1>2 DEF Trial!RestorePs
  <2>2. CASE r = <<[o EXCEPT !.ps = FALSE], [d EXCEPT !.ps = "user"]>>
    BY <2>2 DEF Restored, TwtDebts, TwtDrivers
  <2>3. CASE r = <<Trial!Failed([o EXCEPT !.tries = 2]), d>>
    <3> DEFINE u == [o EXCEPT !.tries = 2]
    <3>1. u \in TwtDebts /\ u.reply = o.reply /\ u.flow = o.flow /\ u.barrier = o.barrier /\ u.sent = o.sent /\ u.ack = o.ack /\ u.ps = o.ps /\ u.alive = o.alive
      BY DEF TwtDebts
    <3>2. r[1] = Trial!Failed(u) /\ r[2] = d
      BY <2>3
    <3> HIDE DEF u
    <3>3. /\ Trial!Failed(u) \in TwtDebts /\ Trial!Failed(u).reply = u.reply /\ Trial!Failed(u).flow = u.flow /\ Trial!Failed(u).barrier = u.barrier
          /\ Trial!Failed(u).sent = u.sent /\ Trial!Failed(u).ack = u.ack /\ Trial!Failed(u).ps = u.ps /\ Trial!Failed(u).alive = u.alive
      BY <3>1 DEF Trial!Failed, TwtDebts
    <3> QED BY <3>1, <3>2, <3>3 DEF Restored
  <2>4. CASE r = <<[o EXCEPT !.tries = 1], d>>
    BY <2>4 DEF Restored, TwtDebts, TwtDrivers
  <2> QED BY <2>1, <2>2, <2>3, <2>4
<1> QED BY <1>1, <1>2

(* And so is the keepalive configuration, before it.                       *)
LEMMA AliveRestored ==
  ASSUME NEW o \in TwtDebts, NEW d \in TwtDrivers, NEW r \in Trial!RestoreAlive(o, d)
  PROVE  Restored(o, d, r[1], r[2])
<1>1. CASE ~o.alive
  BY <1>1, PsRestored DEF Trial!RestoreAlive
<1>2. CASE o.alive
  <2> DEFINE p == [o EXCEPT !.alive = FALSE]
             e == [d EXCEPT !.alive = FALSE]
  <2>1. p \in TwtDebts /\ e \in TwtDrivers
    BY DEF TwtDebts, TwtDrivers
  <2>2. r \in Trial!RestorePs(p, e) \/ r = <<Trial!Failed(o), d>>
    BY <1>2 DEF Trial!RestoreAlive
  <2>3. CASE r \in Trial!RestorePs(p, e)
    <3>1. Restored(p, e, r[1], r[2])
      BY <2>1, <2>3, PsRestored
    <3>2. /\ e.setup = d.setup /\ e.flow = d.flow /\ e.probe = d.probe /\ e.teardown = d.teardown /\ e.tail = d.tail /\ e.ps = d.ps
          /\ p.reply = o.reply /\ p.flow = o.flow /\ p.barrier = o.barrier /\ p.sent = o.sent /\ p.ack = o.ack /\ p.ps = o.ps
          /\ e.alive = FALSE
      BY DEF TwtDebts, TwtDrivers
    <3> HIDE DEF p, e
    <3> QED BY <3>1, <3>2 DEF Restored
  <2>4. CASE r = <<Trial!Failed(o), d>>
    BY <2>4 DEF Restored, TwtDebts, TwtDrivers, Trial!Failed
  <2> QED BY <2>2, <2>3, <2>4
<1> QED BY <1>1, <1>2

(* The barrier is passed only when the driver has no flow left.            *)
LEMMA BarrierPays ==
  ASSUME NEW o \in TwtDebts, NEW d \in TwtDrivers, ~o.reply, o.flow => o.ack, NEW r \in Trial!Barrier(o, d)
  PROVE  Settled(o, d, r[1], r[2])
<1>1. CASE ~(o.flow \/ o.barrier)
  <2>1. Restored(o, d, r[1], r[2])
    BY <1>1, AliveRestored DEF Trial!Barrier
  <2> QED BY <2>1 DEF Restored, Settled
<1>2. CASE (o.flow \/ o.barrier) /\ r = <<Trial!Failed(o), d>>
  BY <1>2 DEF Settled, TwtDebts, TwtDrivers, Trial!Failed
<1>3. CASE (o.flow \/ o.barrier) /\ r # <<Trial!Failed(o), d>>
  <2> DEFINE p == [o EXCEPT !.flow = FALSE, !.barrier = FALSE, !.sent = FALSE, !.ack = FALSE]
             e == [d EXCEPT !.tail = FALSE]
  <2>1. p \in TwtDebts /\ e \in TwtDrivers
    BY DEF TwtDebts, TwtDrivers
  <2>2. d.flow = 0 /\ r \in Trial!RestoreAlive(p, e)
    BY <1>3 DEF Trial!Barrier
  <2>3. Restored(p, e, r[1], r[2])
    BY <2>1, <2>2, AliveRestored
  <2>4. /\ e.setup = d.setup /\ e.flow = d.flow /\ e.probe = d.probe /\ e.teardown = d.teardown /\ e.tail = FALSE /\ e.ps = d.ps /\ e.alive = d.alive
        /\ p.reply = o.reply /\ p.flow = FALSE /\ p.barrier = FALSE /\ p.sent = FALSE /\ p.ack = FALSE /\ p.ps = o.ps /\ p.alive = o.alive
    BY DEF TwtDebts, TwtDrivers
  <2> HIDE DEF p, e
  <2> QED BY <2>2, <2>3, <2>4 DEF Restored, Settled
<1> QED BY <1>1, <1>2, <1>3

(* A reply is waited for, a teardown sent once and waited for, until the   *)
(* clock has run out.                                                      *)
LEMMA DrainPays ==
  ASSUME NEW o \in TwtDebts, NEW d \in TwtDrivers, NEW r \in Trial!Drained(o, d)
  PROVE  Settled(o, d, r[1], r[2])
<1>1. CASE o.clock = "due"
  <2>1. r[1] = Trial!Failed(o) /\ r[2] = d
    BY <1>1 DEF Trial!Drained
  <2> QED BY <2>1 DEF Settled, TwtDebts, TwtDrivers, Trial!Failed
<1>2. CASE o.clock # "due" /\ (o.reply \/ (o.flow /\ o.sent /\ ~o.ack))
  <2>1. r[1] = o /\ r[2] = d
    BY <1>2 DEF Trial!Drained
  <2> QED BY <2>1 DEF Settled, TwtDebts, TwtDrivers
<1>3. CASE o.clock # "due" /\ ~o.reply /\ o.flow /\ ~o.sent
  <2>1. r = <<[o EXCEPT !.sent = TRUE, !.ack = FALSE], d>> \/ r = <<[o EXCEPT !.sent = TRUE, !.ack = FALSE], [d EXCEPT !.teardown = "sent"]>>
    BY <1>3 DEF Trial!Drained
  <2>2. CASE r = <<[o EXCEPT !.sent = TRUE, !.ack = FALSE], d>>
    BY <1>3, <2>2 DEF Settled, TwtDebts, TwtDrivers
  <2>3. CASE r = <<[o EXCEPT !.sent = TRUE, !.ack = FALSE], [d EXCEPT !.teardown = "sent"]>>
    BY <1>3, <2>3 DEF Settled, TwtDebts, TwtDrivers
  <2> QED BY <2>1, <2>2, <2>3
<1>4. CASE o.clock # "due" /\ ~o.reply /\ (o.flow => o.sent /\ o.ack)
  <2>1. r \in Trial!Barrier(o, d)
    BY <1>4 DEF Trial!Drained
  <2> QED BY <1>4, <2>1, BarrierPays
<1> QED BY <1>1, <1>2, <1>3, <1>4

(* A pass that leaves nothing pending has found no probe and no socket of  *)
(* the trial, and paid every debt.                                         *)
LEMMA CleanupPays ==
  ASSUME NEW o \in TwtDebts, NEW d \in TwtDrivers, NEW r \in Trial!Cleaned(o, d)
  PROVE  /\ Settled(o, d, r[1], r[2])
         /\ ~r[1].pending /\ ~r[1].failed => ~Trial!Debt(r[1]) /\ Trial!Quiesced /\ ~Trial!ProbeHeld
<1> DEFINE Like(p) == /\ p \in TwtDebts /\ p.reply = o.reply /\ p.flow = o.flow /\ p.barrier = o.barrier /\ p.sent = o.sent
                      /\ p.ack = o.ack /\ p.ps = o.ps /\ p.alive = o.alive
           o1 == Trial!Released(o, "socket")
           o2 == Trial!Released(o1, "probe")
           o3 == [o2 EXCEPT !.pending = TRUE, !.hold = "drain", !.clock = IF @ = "off" THEN "run" ELSE @]
<1>1. ASSUME NEW p, Like(p) PROVE Settled(o, d, p, d)
  BY <1>1 DEF Settled, TwtDrivers
<1>2. ASSUME NEW p, Like(p), NEW w \in {"socket", "probe"} PROVE Like(Trial!Released(p, w)) /\ Like(Trial!Held(p, w)) /\ Trial!Held(p, w).pending
  <2>1. Like(Trial!Released(p, w))
    <3>1. CASE p.hold = w
      <4>1. Trial!Released(p, w) = [p EXCEPT !.pending = FALSE, !.hold = "none", !.clock = "off"]
        BY <3>1 DEF Trial!Released
      <4>2. [p EXCEPT !.pending = FALSE, !.hold = "none", !.clock = "off"] \in TwtDebts
        BY <1>2 DEF TwtDebts
      <4>3. Trial!Released(p, w).reply = p.reply /\ Trial!Released(p, w).flow = p.flow /\ Trial!Released(p, w).barrier = p.barrier /\ Trial!Released(p, w).sent = p.sent
        BY <1>2, <4>1 DEF TwtDebts
      <4>4. Trial!Released(p, w).ack = p.ack /\ Trial!Released(p, w).ps = p.ps /\ Trial!Released(p, w).alive = p.alive
        BY <1>2, <4>1 DEF TwtDebts
      <4> QED BY <1>2, <4>1, <4>2, <4>3, <4>4
    <3>2. CASE p.hold # w
      BY <1>2, <3>2 DEF Trial!Released
    <3> QED BY <3>1, <3>2
  <2>2. Like(Trial!Held(p, w)) /\ Trial!Held(p, w).pending
    BY <1>2 DEF Trial!Held, TwtDebts
  <2> QED BY <2>1, <2>2
<1>3. Like(o) /\ Like(o1)
  BY <1>2
<1>4. Like(o2)
  BY <1>3, <1>2
<1>5. Like(o3)
  <2> HIDE DEF o2
  <2>1. PICK c \in {"off", "run", "due"} : o3 = [o2 EXCEPT !.pending = TRUE, !.hold = "drain", !.clock = c]
    <3>1. (IF o2.clock = "off" THEN "run" ELSE o2.clock) \in {"off", "run", "due"}
      BY <1>4 DEF TwtDebts
    <3> QED BY <3>1
  <2>2. [o2 EXCEPT !.pending = TRUE, !.hold = "drain", !.clock = c] \in TwtDebts
    BY <1>4 DEF TwtDebts
  <2> QED BY <1>4, <2>1, <2>2 DEF TwtDebts
<1>6. CASE ~Trial!Quiesced
  <2>1. r[1] = Trial!Held(o, "socket") /\ r[2] = d
    BY <1>6 DEF Trial!Cleaned
  <2>2. Like(o)
    OBVIOUS
  <2> QED BY <1>1, <1>2, <2>1, <2>2
<1>7. CASE Trial!Quiesced /\ Trial!ProbeHeld
  <2>1. r[1] = Trial!Held(o1, "probe") /\ r[2] = d
    BY <1>7 DEF Trial!Cleaned
  <2> QED BY <1>1, <1>3, <1>2, <2>1
<1>8. CASE Trial!Quiesced /\ ~Trial!ProbeHeld /\ (o2.failed \/ ~Trial!Debt(o2))
  <2>1. r[1] = o2 /\ r[2] = d
    BY <1>8 DEF Trial!Cleaned
  <2> HIDE DEF o2
  <2> QED BY <1>1, <1>4, <1>8, <2>1
<1>9. CASE Trial!Quiesced /\ ~Trial!ProbeHeld /\ ~(o2.failed \/ ~Trial!Debt(o2))
  <2>1. PICK x \in Trial!Drained(o3, d) : r = <<Trial!Closed(x[1]), x[2]>>
    BY <1>9 DEF Trial!Cleaned
  <2> HIDE DEF o3
  <2>2. Settled(o3, d, x[1], x[2])
    BY <1>5, <2>1, DrainPays
  <2>3. x[1] \in TwtDebts /\ r[1] = Trial!Closed(x[1]) /\ r[2] = x[2]
    BY <2>1, <2>2 DEF Settled
  <2>4. /\ r[1] \in TwtDebts /\ r[1].reply = x[1].reply /\ r[1].flow = x[1].flow /\ r[1].barrier = x[1].barrier /\ r[1].sent = x[1].sent
        /\ r[1].ack = x[1].ack /\ r[1].ps = x[1].ps /\ r[1].alive = x[1].alive
        /\ ~r[1].pending /\ ~r[1].failed => ~Trial!Debt(r[1])
    <3>1. CASE x[1].failed \/ Trial!Debt(x[1])
      <4>1. r[1] = [x[1] EXCEPT !.pending = TRUE]
        BY <2>3, <3>1 DEF Trial!Closed, Trial!Debt
      <4> QED BY <2>3, <4>1 DEF TwtDebts
    <3>2. CASE ~(x[1].failed \/ Trial!Debt(x[1]))
      <4>1. r[1] = [x[1] EXCEPT !.pending = FALSE, !.tries = 0, !.clock = "off", !.hold = "none"]
        BY <2>3, <3>2 DEF Trial!Closed, Trial!Debt
      <4>2. [x[1] EXCEPT !.pending = FALSE, !.tries = 0, !.clock = "off", !.hold = "none"] \in TwtDebts
        <5>1. PICK y : y = x[1] /\ y \in TwtDebts
          BY <2>3
        <5>2. 0 \in 0 .. 2
          OBVIOUS
        <5>3. [y EXCEPT !.pending = FALSE, !.tries = 0, !.clock = "off", !.hold = "none"] \in TwtDebts
          BY <5>1, <5>2 DEF TwtDebts
        <5> QED BY <5>1, <5>3
      <4>3. r[1].reply = x[1].reply /\ r[1].flow = x[1].flow /\ r[1].barrier = x[1].barrier /\ r[1].sent = x[1].sent
        BY <2>3, <4>1 DEF TwtDebts
      <4>4. r[1].ack = x[1].ack /\ r[1].ps = x[1].ps /\ r[1].alive = x[1].alive
        BY <2>3, <4>1 DEF TwtDebts
      <4> QED BY <3>2, <4>1, <4>2, <4>3, <4>4 DEF Trial!Debt
    <3> QED BY <3>1, <3>2
  <2> QED BY <1>5, <1>9, <2>2, <2>3, <2>4 DEF Settled
<1> QED BY <1>6, <1>7, <1>8, <1>9

(* A pass over the debts keeps the books true of the driver and of what is *)
(* still to be heard.                                                      *)
LEMMA SettledKeeps ==
  ASSUME NEW t, NEW o, NEW d, NEW p, NEW e, NEW q \in Seq(TwtNews), o \in TwtDebts, d \in TwtDrivers,
         Settled(o, d, p, e), Booked(t, o, d), Reported(t, o, d, q)
  PROVE  Booked(t, p, e) /\ Reported(t, p, e, q)
<1>1. /\ p \in TwtDebts /\ e \in TwtDrivers
      /\ e.setup = d.setup /\ e.flow = d.flow /\ p.reply = o.reply
      /\ e.ps = "user" \/ (e.ps = d.ps /\ p.ps = o.ps)
      /\ ~e.alive \/ (e.alive = d.alive /\ p.alive = o.alive)
  BY DEF Settled
<1>2. CASE /\ p.flow = o.flow /\ p.barrier = o.barrier /\ p.sent = o.sent /\ p.ack = o.ack
           /\ e.teardown = d.teardown /\ e.tail = d.tail
  <2>1. Booked(t, p, e)
    BY <1>1, <1>2 DEF Booked
  <2>2. ASSUME NEW n, Told(t, o, d, n) PROVE Told(t, p, e, n)
    BY <1>1, <1>2, <2>2 DEF Told
  <2> QED BY <2>1, <2>2 DEF Reported
<1>3. CASE /\ o.flow /\ ~o.sent /\ ~o.reply /\ p.flow /\ p.barrier = o.barrier /\ p.sent /\ ~p.ack
           /\ e.teardown \in {d.teardown, "sent"} /\ e.tail = d.tail
  <2>1. Booked(t, p, e)
    BY <1>1, <1>3 DEF Booked
  <2>2. ASSUME NEW n, Told(t, o, d, n) PROVE Told(t, p, e, n)
    BY <1>1, <1>3, <2>2 DEF Told
  <2> QED BY <2>1, <2>2 DEF Reported
<1>4. CASE /\ ~o.reply /\ (o.flow => o.ack) /\ d.flow = 0
           /\ ~p.flow /\ ~p.barrier /\ ~p.sent /\ ~p.ack /\ e.teardown = d.teardown /\ ~e.tail
  <2>1. Booked(t, p, e)
    BY <1>1, <1>4 DEF Booked
  <2>2. ASSUME NEW n, Told(t, o, d, n) PROVE Told(t, p, e, n)
    BY <1>1, <1>4, <2>2 DEF Told, Booked
  <2> QED BY <2>1, <2>2 DEF Reported
<1> QED BY <1>2, <1>3, <1>4 DEF Settled

(* A trial that is cancelled is dead, and what it owed is paid or pending. *)
LEMMA CancelKeeps ==
  ASSUME NEW t \in TwtTrials, NEW o \in TwtDebts, NEW d \in TwtDrivers, NEW why, NEW q \in Seq(TwtNews), NEW l,
         Booked(t, o, d), Reported(t, o, d, q), Trial!Cancel(t, o, d, why),
         socket \in {"idle", "queued", "active", "debt"}
  PROVE  /\ trial' \in TwtTrials /\ owe' \in TwtDebts /\ drv' \in TwtDrivers /\ socket' \in {"idle", "queued", "active", "debt"}
         /\ Booked(trial', owe', drv') /\ Reported(trial', owe', drv', q) /\ Awaited(trial', drv', q, l)
         /\ ~Trial!Live(trial') /\ Staged(trial', owe', probe, socket') /\ drv'.probe = d.probe
<1>1. trial' \in TwtTrials /\ trial'.id = t.id /\ trial'.stage \in {"Off", "Failed"}
  <2>1. PICK s \in {"Off", "Failed"} : trial' = [t EXCEPT !.stage = s]
    BY DEF Trial!Cancel, Trial!Ended
  <2> QED BY <2>1 DEF TwtTrials, TwtStages
<1>2. PICK r \in Trial!Cleaned(o, d) : owe' = r[1] /\ drv' = r[2]
  BY DEF Trial!Cancel
<1>3. Settled(o, d, owe', drv') /\ (~owe'.pending /\ ~owe'.failed => ~Trial!Debt(owe') /\ Trial!Quiesced /\ ~Trial!ProbeHeld)
  BY <1>2, CleanupPays
<1>4. Booked(t, owe', drv') /\ Reported(t, owe', drv', q)
  BY <1>3, SettledKeeps
<1>5. Booked(trial', owe', drv') /\ Reported(trial', owe', drv', q)
  BY <1>1, <1>4 DEF Booked, Reported, Told
<1>6. socket' \in {"idle", "queued", "active", "debt"} /\ (Trial!Quiesced => socket' \in {"idle", "queued"})
  BY DEF Trial!Cancel, Trial!Quiesce, Trial!Quiesced
<1>7. ~Trial!Live(trial') /\ Awaited(trial', drv', q, l)
  BY <1>1 DEF Trial!Live, Awaited
<1>8. Staged(trial', owe', probe, socket')
  BY <1>1, <1>3, <1>6, <1>7 DEF Staged, Trial!ProbeHeld
<1> QED BY <1>1, <1>3, <1>5, <1>6, <1>7, <1>8 DEF Settled

(* And so it is when a dead trial's cleanup is gone on with.               *)
LEMMA DrainKeeps ==
  ASSUME NEW t \in TwtTrials, NEW o \in TwtDebts, NEW d \in TwtDrivers, NEW q \in Seq(TwtNews),
         NEW r \in Trial!Cleaned(o, d), Booked(t, o, d), Reported(t, o, d, q), Trial!Quiesce,
         socket \in {"idle", "queued", "active", "debt"}
  PROVE  /\ r[1] \in TwtDebts /\ r[2] \in TwtDrivers /\ socket' \in {"idle", "queued", "active", "debt"}
         /\ Booked(t, r[1], r[2]) /\ Reported(t, r[1], r[2], q)
         /\ ~r[1].pending /\ ~r[1].failed => ~Trial!Debt(r[1]) /\ probe \notin {"sent", "timer", "stuck"} /\ socket' \in {"idle", "queued"}
         /\ r[2].probe = d.probe
<1>1. Settled(o, d, r[1], r[2]) /\ (~r[1].pending /\ ~r[1].failed => ~Trial!Debt(r[1]) /\ Trial!Quiesced /\ ~Trial!ProbeHeld)
  BY CleanupPays
<1>2. Booked(t, r[1], r[2]) /\ Reported(t, r[1], r[2], q)
  BY <1>1, SettledKeeps
<1>3. socket' \in {"idle", "queued", "active", "debt"} /\ (Trial!Quiesced => socket' \in {"idle", "queued"})
  BY DEF Trial!Quiesce, Trial!Quiesced
<1> QED BY <1>1, <1>2, <1>3 DEF Settled, Trial!ProbeHeld

\* places from which nothing that would hurt a driver is done next
TwtNeutral == TwtPlaces \ {"request", "keepalive", "submit", "route", "stopping", "selecting", "manifest", "update", "moving"}

(* Where the owner goes, calls and returns to.                             *)
LEMMA OwnerGoes ==
  ASSUME pc \in [at : TwtPlaces, back : TwtBacks]
  PROVE  /\ \A p \in TwtPlaces : Trial!Goto(p) => pc' \in [at : TwtPlaces, back : TwtBacks] /\ pc'.at = p
         /\ \A b \in TwtBacks : Trial!Call(b) => pc' \in [at : TwtPlaces, back : TwtBacks] /\ pc'.at = "check"
         /\ Trial!Return => pc' \in [at : TwtPlaces, back : TwtBacks] /\ pc'.at \in TwtBacks
         /\ TwtBacks \subseteq TwtNeutral /\ TwtNeutral \subseteq TwtPlaces /\ "check" \in TwtNeutral
<1>1. ASSUME NEW p \in TwtPlaces, Trial!Goto(p) PROVE pc' \in [at : TwtPlaces, back : TwtBacks] /\ pc'.at = p
  BY <1>1 DEF Trial!Goto
<1>2. "check" \in TwtPlaces /\ "gate" \in TwtBacks /\ TwtBacks \subseteq TwtPlaces
  BY DEF TwtPlaces, TwtBacks
<1>3. ASSUME NEW b \in TwtBacks, Trial!Call(b) PROVE pc' \in [at : TwtPlaces, back : TwtBacks] /\ pc'.at = "check"
  BY <1>2, <1>3 DEF Trial!Call
<1>4. ASSUME Trial!Return PROVE pc' \in [at : TwtPlaces, back : TwtBacks] /\ pc'.at \in TwtBacks
  BY <1>2, <1>4 DEF Trial!Return
<1>5. TwtBacks \subseteq TwtNeutral /\ TwtNeutral \subseteq TwtPlaces /\ "check" \in TwtNeutral
  BY DEF TwtPlaces, TwtBacks, TwtNeutral
<1> QED BY <1>1, <1>3, <1>4, <1>5

(* An owner at a neutral place has placed nothing at risk.                 *)
LEMMA NeutralPlace ==
  ASSUME pc'.at \in TwtNeutral, world'.ota # "moving", drv'.probe # "none" => probe' \in {"sent", "timer", "stuck"}
  PROVE  TwtPlaced'
BY DEF TwtNeutral, TwtPlaced

(* What the books say rests on a few of their entries.                     *)
LEMMA BooksAlike ==
  ASSUME NEW t, NEW o, NEW d, NEW p, NEW e, NEW q, NEW l,
         p.flow = o.flow, p.reply = o.reply, p.sent = o.sent, p.ack = o.ack, p.barrier = o.barrier, p.ps = o.ps, p.alive = o.alive,
         e.setup = d.setup, e.flow = d.flow, e.teardown = d.teardown, e.tail = d.tail, e.ps = d.ps, e.alive = d.alive
  PROVE  /\ Booked(t, o, d) => Booked(t, p, e)
         /\ Reported(t, o, d, q) => Reported(t, p, e, q)
         /\ Awaited(t, d, q, l) => Awaited(t, e, q, l)
<1>1. Booked(t, o, d) => Booked(t, p, e)
  BY DEF Booked
<1>2. ASSUME NEW n, Told(t, o, d, n) PROVE Told(t, p, e, n)
  BY <1>2 DEF Told
<1>3. Awaited(t, d, q, l) => Awaited(t, e, q, l)
  BY DEF Awaited
<1> QED BY <1>1, <1>2, <1>3 DEF Reported

(* What is posted is there, or marked as lost.                             *)
LEMMA PostKeeps ==
  ASSUME NEW t, NEW o, NEW d, NEW e \in TwtNews, TwtTyped, Trial!Post(e),
         Reported(t, o, d, fifo), Told(t, o, d, e), \A i \in DOMAIN fifo : InOrder(fifo[i], e)
  PROVE  /\ fifo' \in Seq(TwtNews) /\ Len(fifo') <= FifoMax /\ overflow' \in BOOLEAN
         /\ Reported(t, o, d, fifo')
         /\ overflow => overflow'
         /\ overflow' \/ \E i \in DOMAIN fifo' : fifo'[i] = e
         /\ \A i \in DOMAIN fifo : overflow' \/ \E j \in DOMAIN fifo' : fifo'[j] = fifo[i]
<1>1. fifo \in Seq(TwtNews) /\ Len(fifo) <= FifoMax /\ overflow \in BOOLEAN
  BY DEF TwtTyped
<1>2. CASE Len(fifo) = FifoMax /\ overflow' = TRUE /\ fifo' = fifo
  BY <1>1, <1>2
<1>3. CASE Len(fifo) # FifoMax /\ fifo' = Append(fifo, e) /\ overflow' = overflow
  <2>1. /\ fifo' \in Seq(TwtNews) /\ Len(fifo') = Len(fifo) + 1 /\ Len(fifo) \in Nat
        /\ DOMAIN fifo = 1 .. Len(fifo) /\ DOMAIN fifo' = 1 .. Len(fifo) + 1
        /\ \A i \in 1 .. Len(fifo) : fifo'[i] = fifo[i]
        /\ fifo'[Len(fifo) + 1] = e
    BY <1>1, <1>3, NewsPosted
  <2>2. Len(fifo') <= FifoMax
    <3>1. ASSUME NEW n \in Nat, NEW m \in Nat, NEW k, n <= m, n # m, k = n + 1 PROVE k <= m
      BY <3>1
    <3> QED BY <1>1, <1>3, <2>1, <3>1, TrialConstants
  <2>3. Reported(t, o, d, fifo')
    BY <1>1, <1>3, ReportMade
  <2>4. \E i \in DOMAIN fifo' : fifo'[i] = e
    BY <2>1
  <2>5. \A i \in DOMAIN fifo : \E j \in DOMAIN fifo' : fifo'[j] = fifo[i]
    BY <2>1
  <2> QED BY <1>1, <1>3, <2>1, <2>2, <2>3, <2>4, <2>5
<1> QED BY <1>2, <1>3 DEF Trial!Post

(* The reply to a setup ends its wait, and is the only news of the trial.  *)
LEMMA ReplyKeeps == ASSUME TwtGood, Trial!Reply PROVE TwtGood'
<1>1. PICK ok \in BOOLEAN : /\ drv' = [drv EXCEPT !.setup = 0, !.tail = TRUE, !.flow = IF ok THEN drv.setup ELSE 0]
                            /\ Trial!Post(Trial!Setup(drv.setup, ok))
  BY DEF Trial!Reply
<1>2. /\ TwtTyped /\ Booked(trial, owe, drv) /\ Reported(trial, owe, drv, fifo) /\ Awaited(trial, drv, fifo, overflow)
      /\ Staged(trial, owe, probe, socket) /\ TwtPlaced
  BY DEF TwtGood
<1>3. drv.setup # 0 /\ UNCHANGED <<pc, trial, owe, request, probe, socket, world, flaps>>
  BY DEF Trial!Reply
<1> DEFINE e == Trial!Setup(drv.setup, ok)
<1>4. e \in TwtNews /\ IsSetup(e) /\ ~IsAll(e) /\ ~IsAp(e) /\ e.id = drv.setup /\ e.ok = ok
  BY <1>2 DEF TwtTyped, TwtDrivers, TwtNews, Trial!Setup, IsSetup, IsAll, IsAp
<1>5. /\ drv' \in TwtDrivers /\ drv'.setup = 0 /\ drv'.tail = TRUE /\ drv'.flow = (IF ok THEN drv.setup ELSE 0)
      /\ drv'.teardown = drv.teardown /\ drv'.probe = drv.probe /\ drv'.ps = drv.ps /\ drv'.alive = drv.alive
  <2>1. PICK f \in 0 .. MaxId : f = IF ok THEN drv.setup ELSE 0
    BY <1>2, TrialConstants DEF TwtTyped, TwtDrivers
  <2>2. drv' = [drv EXCEPT !.setup = 0, !.tail = TRUE, !.flow = f]
    BY <1>1, <2>1
  <2>3. 0 \in 0 .. MaxId
    BY TrialConstants
  <2> QED BY <1>2, <2>1, <2>2, <2>3 DEF TwtTyped, TwtDrivers
<1>6. owe.reply /\ owe.flow /\ drv.setup = trial.id /\ drv.flow = 0 /\ ~owe.sent /\ ~owe.ack
  BY <1>2, <1>3 DEF Booked
<1>7. Booked(trial, owe, drv')
  BY <1>2, <1>5, <1>6 DEF Booked
<1>8. \A i \in DOMAIN fifo : ~IsSetup(fifo[i]) /\ ~IsAll(fifo[i]) /\ ~IsAp(fifo[i])
  BY <1>2, <1>3, <1>6 DEF Reported, Told
<1>9. Reported(trial, owe, drv', fifo)
  BY <1>2, <1>8 DEF Reported, Told
<1>10. Told(trial, owe, drv', e)
  BY <1>4, <1>5, <1>6 DEF Told
<1>11. \A i \in DOMAIN fifo : InOrder(fifo[i], e)
  BY <1>4, <1>8 DEF InOrder
<1> HIDE DEF e
<1>12. /\ fifo' \in Seq(TwtNews) /\ Len(fifo') <= FifoMax /\ overflow' \in BOOLEAN /\ Reported(trial, owe, drv', fifo')
       /\ overflow' \/ \E i \in DOMAIN fifo' : fifo'[i] = e
  <2>1. Trial!Post(e)
    BY <1>1 DEF e
  <2> QED BY <1>2, <1>4, <1>9, <1>10, <1>11, <2>1, PostKeeps
<1>13. ~ok => Ends(e)
  BY <1>4 DEF Ends
<1>14. Awaited(trial, drv', fifo', overflow')
  BY <1>4, <1>5, <1>6, <1>12, <1>13 DEF Awaited
<1>15. TwtPlaced'
  BY <1>2, <1>3, <1>5 DEF TwtPlaced, Trial!Quit
<1>16. TwtTyped'
  BY <1>2, <1>3, <1>5, <1>12 DEF TwtTyped
<1> QED BY <1>2, <1>3, <1>7, <1>12, <1>14, <1>15, <1>16 DEF TwtGood

(* The end of all flows is told before the callback has returned.          *)
LEMMA TeardownKeeps == ASSUME TwtGood, Trial!TeardownDone PROVE TwtGood'
<1>1. PICK ok \in BOOLEAN : /\ drv' = [drv EXCEPT !.teardown = "none", !.tail = TRUE, !.flow = IF ok THEN 0 ELSE @]
                            /\ Trial!Post(Trial!Teardown(ok, TRUE))
  BY DEF Trial!TeardownDone
<1>2. /\ TwtTyped /\ Booked(trial, owe, drv) /\ Reported(trial, owe, drv, fifo) /\ Awaited(trial, drv, fifo, overflow)
      /\ Staged(trial, owe, probe, socket) /\ TwtPlaced
  BY DEF TwtGood
<1>3. drv.teardown = "sent" /\ UNCHANGED <<pc, trial, owe, request, probe, socket, world, flaps>>
  BY DEF Trial!TeardownDone
<1> DEFINE e == Trial!Teardown(ok, TRUE)
<1>4. e \in TwtNews /\ ~IsSetup(e) /\ IsAll(e) /\ ~IsAp(e) /\ e.ok = ok
  BY DEF TwtNews, Trial!Teardown, IsSetup, IsAll, IsAp
<1>5. /\ drv' \in TwtDrivers /\ drv'.setup = drv.setup /\ drv'.tail = TRUE /\ drv'.flow = (IF ok THEN 0 ELSE drv.flow)
      /\ drv'.teardown = "none" /\ drv'.probe = drv.probe /\ drv'.ps = drv.ps /\ drv'.alive = drv.alive
  <2>1. PICK f \in 0 .. MaxId : f = IF ok THEN 0 ELSE drv.flow
    BY <1>2, TrialConstants DEF TwtTyped, TwtDrivers
  <2>2. drv' = [drv EXCEPT !.teardown = "none", !.tail = TRUE, !.flow = f]
    BY <1>1, <2>1
  <2> QED BY <1>2, <2>1, <2>2 DEF TwtTyped, TwtDrivers
<1>6. owe.flow /\ owe.sent /\ ~owe.ack /\ ~owe.reply /\ drv.setup = 0
  BY <1>2, <1>3 DEF Booked
<1>7. Booked(trial, owe, drv')
  BY <1>2, <1>5, <1>6 DEF Booked
<1>8. \A i \in DOMAIN fifo : ~IsSetup(fifo[i]) /\ ~IsAll(fifo[i])
  BY <1>2, <1>3, <1>6 DEF Reported, Told
<1>9. Reported(trial, owe, drv', fifo)
  BY <1>2, <1>5, <1>8 DEF Reported, Told
<1>10. Told(trial, owe, drv', e)
  BY <1>4, <1>5, <1>6 DEF Told
<1>11. \A i \in DOMAIN fifo : InOrder(fifo[i], e)
  BY <1>4, <1>8 DEF InOrder
<1> HIDE DEF e
<1>12. fifo' \in Seq(TwtNews) /\ Len(fifo') <= FifoMax /\ overflow' \in BOOLEAN /\ Reported(trial, owe, drv', fifo')
  <2>1. Trial!Post(e)
    BY <1>1 DEF e
  <2> QED BY <1>2, <1>4, <1>9, <1>10, <1>11, <2>1, PostKeeps
<1>13. ~Trial!Live(trial)
  BY <1>2, <1>6 DEF Staged
<1>14. Awaited(trial, drv', fifo', overflow')
  BY <1>13 DEF Awaited, Trial!Live
<1>15. TwtPlaced'
  BY <1>2, <1>3, <1>5 DEF TwtPlaced, Trial!Quit
<1>16. TwtTyped'
  BY <1>2, <1>3, <1>5, <1>12 DEF TwtTyped
<1> QED BY <1>2, <1>3, <1>7, <1>12, <1>14, <1>15, <1>16 DEF TwtGood

(* A flow that ends without the owner ends with news of it.                *)
LEMMA FlowLost ==
  ASSUME TwtGood, NEW e \in TwtNews, Ends(e), ~IsSetup(e), ~IsAll(e), Trial!Post(e), drv' = [drv EXCEPT !.flow = 0],
         IsAp(e) => e.ok /\ drv.flow # 0 /\ drv.teardown = "none"
  PROVE  /\ fifo' \in Seq(TwtNews) /\ Len(fifo') <= FifoMax /\ overflow' \in BOOLEAN /\ drv' \in TwtDrivers /\ drv'.probe = drv.probe
         /\ Booked(trial, owe, drv') /\ Reported(trial, owe, drv', fifo') /\ Awaited(trial, drv', fifo', overflow')
<1>1. TwtTyped /\ Booked(trial, owe, drv) /\ Reported(trial, owe, drv, fifo) /\ Awaited(trial, drv, fifo, overflow)
  BY DEF TwtGood
<1>2. /\ drv' \in TwtDrivers /\ drv'.setup = drv.setup /\ drv'.tail = drv.tail /\ drv'.flow = 0 /\ drv'.teardown = drv.teardown
      /\ drv'.probe = drv.probe /\ drv'.ps = drv.ps /\ drv'.alive = drv.alive
  <2>1. 0 \in 0 .. MaxId
    BY TrialConstants
  <2> QED BY <1>1, <2>1 DEF TwtTyped, TwtDrivers
<1>3. Booked(trial, owe, drv')
  BY <1>1, <1>2 DEF Booked
<1>4. Reported(trial, owe, drv', fifo)
  <2>1. ASSUME NEW n, Told(trial, owe, drv, n) PROVE Told(trial, owe, drv', n)
    BY <1>2, <2>1 DEF Told
  <2> QED BY <1>1, <2>1 DEF Reported
<1>5. IsAp(e) => owe.flow /\ ~owe.ack /\ drv.setup = 0
  BY <1>1 DEF Booked
<1>6. Told(trial, owe, drv', e)
  BY <1>2, <1>5 DEF Told
<1>7. ASSUME NEW i \in DOMAIN fifo PROVE InOrder(fifo[i], e)
  <2>1. Told(trial, owe, drv, fifo[i])
    BY <1>1 DEF Reported
  <2> QED BY <2>1 DEF Told, InOrder
<1>8. /\ fifo' \in Seq(TwtNews) /\ Len(fifo') <= FifoMax /\ overflow' \in BOOLEAN /\ Reported(trial, owe, drv', fifo')
      /\ overflow => overflow'
      /\ overflow' \/ \E i \in DOMAIN fifo' : fifo'[i] = e
      /\ \A i \in DOMAIN fifo : overflow' \/ \E j \in DOMAIN fifo' : fifo'[j] = fifo[i]
  BY <1>1, <1>4, <1>6, <1>7, PostKeeps
<1>9. Awaited(trial, drv', fifo', overflow')
  <2>1. overflow' \/ \E j \in DOMAIN fifo' : Ends(fifo'[j])
    BY <1>8
  <2>2. ASSUME trial.stage = "Negotiating", drv'.setup = 0 PROVE overflow' \/ \E j \in DOMAIN fifo' : IsSetup(fifo'[j])
    <3>1. overflow \/ \E i \in DOMAIN fifo : IsSetup(fifo[i])
      BY <1>1, <1>2, <2>2 DEF Awaited
    <3> QED BY <1>8, <3>1
  <2> QED BY <2>1, <2>2 DEF Awaited
<1> QED BY <1>2, <1>3, <1>8, <1>9

(* The driver's steps.                                                     *)
LEMMA DriverKeeps == ASSUME TwtGood, world \in TwtWorlds, Trial!Driver, ~world'.fault PROVE TwtGood'
<1>1. /\ TwtTyped /\ Booked(trial, owe, drv) /\ Reported(trial, owe, drv, fifo) /\ Awaited(trial, drv, fifo, overflow)
      /\ Staged(trial, owe, probe, socket) /\ TwtPlaced
  BY DEF TwtGood
<1>2. CASE Trial!CallbackReturns
  <2>1. drv' = [drv EXCEPT !.tail = FALSE] /\ UNCHANGED <<pc, trial, owe, fifo, overflow, request, probe, socket, world, flaps>>
    BY <1>2 DEF Trial!CallbackReturns
  <2>2. /\ drv' \in TwtDrivers /\ drv'.setup = drv.setup /\ drv'.tail = FALSE /\ drv'.flow = drv.flow /\ drv'.teardown = drv.teardown
        /\ drv'.probe = drv.probe /\ drv'.ps = drv.ps /\ drv'.alive = drv.alive
    BY <1>1, <2>1 DEF TwtTyped, TwtDrivers
  <2>3. Booked(trial, owe, drv')
    BY <1>1, <2>2 DEF Booked
  <2>4. Reported(trial, owe, drv', fifo)
    <3>1. ASSUME NEW n, Told(trial, owe, drv, n) PROVE Told(trial, owe, drv', n)
      BY <2>2, <3>1 DEF Told
    <3> QED BY <1>1, <3>1 DEF Reported
  <2>5. Awaited(trial, drv', fifo, overflow)
    BY <1>1, <2>2 DEF Awaited
  <2>6. TwtPlaced' /\ TwtTyped'
    BY <1>1, <2>1, <2>2 DEF TwtPlaced, TwtTyped, Trial!Quit
  <2> QED BY <1>1, <2>1, <2>3, <2>4, <2>5, <2>6 DEF TwtGood
<1>3. CASE Trial!ApTeardown
  <2>1. /\ drv.flow # 0 /\ drv.teardown = "none" /\ drv' = [drv EXCEPT !.flow = 0] /\ Trial!Post(Trial!Teardown(TRUE, FALSE))
        /\ UNCHANGED <<pc, trial, owe, request, probe, socket, world, flaps>>
    BY <1>3 DEF Trial!ApTeardown
  <2>2. PICK e : e = Trial!Teardown(TRUE, FALSE)
    OBVIOUS
  <2>3. e \in TwtNews /\ Ends(e) /\ ~IsSetup(e) /\ ~IsAll(e) /\ IsAp(e) /\ e.ok
    BY <2>2 DEF TwtNews, Trial!Teardown, IsSetup, IsAll, IsAp, Ends
  <2>4. /\ fifo' \in Seq(TwtNews) /\ Len(fifo') <= FifoMax /\ overflow' \in BOOLEAN /\ drv' \in TwtDrivers /\ drv'.probe = drv.probe
        /\ Booked(trial, owe, drv') /\ Reported(trial, owe, drv', fifo') /\ Awaited(trial, drv', fifo', overflow')
    BY <2>1, <2>2, <2>3, FlowLost
  <2>5. TwtPlaced' /\ TwtTyped'
    BY <1>1, <2>1, <2>4 DEF TwtPlaced, TwtTyped, Trial!Quit
  <2> QED BY <1>1, <2>1, <2>4, <2>5 DEF TwtGood
<1>4. CASE Trial!LinkLost
  <2>1. /\ flaps < MaxFlaps /\ flaps' = flaps + 1 /\ world' = [world EXCEPT !.link = FALSE]
        /\ drv' = [drv EXCEPT !.flow = 0] /\ Trial!Post(Trial!Disconnect)
        /\ UNCHANGED <<pc, trial, owe, request, probe, socket>>
    BY <1>4 DEF Trial!LinkLost
  <2>2. PICK e : e = Trial!Disconnect
    OBVIOUS
  <2>3. e \in TwtNews /\ Ends(e) /\ ~IsSetup(e) /\ ~IsAll(e) /\ ~IsAp(e)
    BY <2>2 DEF TwtNews, Trial!Disconnect, IsSetup, IsAll, IsAp, Ends
  <2>4. /\ fifo' \in Seq(TwtNews) /\ Len(fifo') <= FifoMax /\ overflow' \in BOOLEAN /\ drv' \in TwtDrivers /\ drv'.probe = drv.probe
        /\ Booked(trial, owe, drv') /\ Reported(trial, owe, drv', fifo') /\ Awaited(trial, drv', fifo', overflow')
    BY <2>1, <2>2, <2>3, FlowLost
  <2>5. world'.ota = world.ota /\ flaps' \in 0 .. MaxFlaps
    BY <1>1, <2>1, TrialConstants DEF TwtWorlds, TwtTyped
  <2>6. TwtPlaced' /\ TwtTyped'
    BY <1>1, <2>1, <2>4, <2>5 DEF TwtPlaced, TwtTyped, Trial!Quit
  <2> QED BY <1>1, <2>1, <2>4, <2>6 DEF TwtGood
<1>5. CASE Trial!LinkUp
  <2>1. world' = [world EXCEPT !.link = TRUE] /\ UNCHANGED <<pc, trial, owe, drv, fifo, overflow, request, probe, socket, flaps>>
    BY <1>5 DEF Trial!LinkUp
  <2>2. world'.ota = world.ota
    BY <2>1 DEF TwtWorlds
  <2>3. TwtPlaced' /\ TwtTyped'
    BY <1>1, <2>1, <2>2 DEF TwtPlaced, TwtTyped, Trial!Quit
  <2> QED BY <1>1, <2>1, <2>3 DEF TwtGood
<1>6. ~Trial!ScanFault
  BY DEF Trial!ScanFault, TwtWorlds
<1>7. CASE Trial!ProbeAnswers \/ Trial!TimerTask
  <2>1. PICK v \in {"producing", "posted"} : drv' = [drv EXCEPT !.probe = v] /\ drv.probe # "none" /\ UNCHANGED <<pc, trial, owe, fifo, overflow, request, probe, socket, world, flaps>>
    BY <1>7 DEF Trial!ProbeAnswers, Trial!TimerTask
  <2>2. /\ drv' \in TwtDrivers /\ drv'.setup = drv.setup /\ drv'.tail = drv.tail /\ drv'.flow = drv.flow /\ drv'.teardown = drv.teardown
        /\ drv'.ps = drv.ps /\ drv'.alive = drv.alive
    BY <1>1, <2>1 DEF TwtTyped, TwtDrivers
  <2>3. Booked(trial, owe, drv') /\ Reported(trial, owe, drv', fifo) /\ Awaited(trial, drv', fifo, overflow)
    BY <1>1, <2>2, BooksAlike
  <2>4. TwtPlaced' /\ TwtTyped'
    BY <1>1, <2>1, <2>2 DEF TwtPlaced, TwtTyped, Trial!Quit
  <2> QED BY <1>1, <2>1, <2>3, <2>4 DEF TwtGood
<1>8. CASE Trial!SocketCloses
  <2>1. socket = "active" /\ socket' \in {"idle", "debt"} /\ UNCHANGED <<pc, trial, owe, drv, fifo, overflow, request, probe, world, flaps>>
    BY <1>8 DEF Trial!SocketCloses
  <2>2. Staged(trial, owe, probe, socket')
    BY <1>1, <2>1 DEF Staged
  <2>3. TwtPlaced' /\ TwtTyped'
    BY <1>1, <2>1 DEF TwtPlaced, TwtTyped, Trial!Quit
  <2> QED BY <1>1, <2>1, <2>2, <2>3 DEF TwtGood
<1> QED BY <1>2, <1>3, <1>4, <1>5, <1>6, <1>7, <1>8, ReplyKeeps, TeardownKeeps DEF Trial!Driver

(* The other tasks' steps.                                                 *)
LEMMA OthersKeep ==
  ASSUME TwtGood, world \in TwtWorlds,
         (\E mode \in Modes : Trial!Request(mode)) \/ Trial!RequestProbe \/ Trial!RequestSocket \/ Trial!Lock \/ Trial!RequestOta \/ Trial!Tick
  PROVE  TwtGood'
<1>1. /\ TwtTyped /\ Booked(trial, owe, drv) /\ Reported(trial, owe, drv, fifo) /\ Awaited(trial, drv, fifo, overflow)
      /\ Staged(trial, owe, probe, socket) /\ TwtPlaced
  BY DEF TwtGood
<1>2. CASE \E mode \in Modes : Trial!Request(mode)
  <2>1. request' \in {"none", "Off", "Baseline", "On"} /\ UNCHANGED <<pc, trial, owe, drv, fifo, overflow, probe, socket, world, flaps>>
    BY <1>2, TrialConstants DEF Trial!Request
  <2>2. request' # "none"
    BY <1>2, TrialConstants DEF Trial!Request
  <2>3. TwtPlaced' /\ TwtTyped'
    BY <1>1, <2>1, <2>2 DEF TwtPlaced, TwtTyped, Trial!Quit
  <2> QED BY <1>1, <2>1, <2>3 DEF TwtGood
<1>3. CASE Trial!RequestProbe
  <2>1. /\ probe = "none" /\ trial.stage = "Active" /\ probe' = "queued"
        /\ UNCHANGED <<pc, trial, owe, drv, fifo, overflow, request, socket, world, flaps>>
    BY <1>3 DEF Trial!RequestProbe
  <2>2. drv.probe = "none" /\ Trial!Live(trial)
    BY <1>1, <2>1 DEF TwtPlaced, Trial!Live
  <2>3. Staged(trial, owe, probe', socket)
    BY <1>1, <2>2 DEF Staged
  <2>4. TwtPlaced' /\ TwtTyped'
    BY <1>1, <2>1, <2>2 DEF TwtPlaced, TwtTyped, Trial!Quit
  <2> QED BY <1>1, <2>1, <2>3, <2>4 DEF TwtGood
<1>4. CASE Trial!RequestSocket
  <2>1. trial.stage \in {"Active", "Baseline"} /\ socket' = "queued" /\ UNCHANGED <<pc, trial, owe, drv, fifo, overflow, request, probe, world, flaps>>
    BY <1>4 DEF Trial!RequestSocket
  <2>2. Staged(trial, owe, probe, socket')
    BY <1>1, <2>1 DEF Staged, Trial!Live
  <2>3. TwtPlaced' /\ TwtTyped'
    BY <1>1, <2>1 DEF TwtPlaced, TwtTyped, Trial!Quit
  <2> QED BY <1>1, <2>1, <2>2, <2>3 DEF TwtGood
<1>5. CASE Trial!Lock \/ Trial!RequestOta
  <2>1. UNCHANGED <<pc, trial, owe, drv, fifo, overflow, request, probe, socket, flaps>>
    BY <1>5 DEF Trial!Lock, Trial!RequestOta
  <2>2. world'.ota = "moving" => world.ota = "moving"
    BY <1>5 DEF Trial!Lock, Trial!RequestOta, TwtWorlds
  <2>3. TwtPlaced' /\ TwtTyped'
    BY <1>1, <2>1, <2>2 DEF TwtPlaced, TwtTyped, Trial!Quit
  <2> QED BY <1>1, <2>1, <2>3 DEF TwtGood
<1>6. CASE Trial!Tick
  <2>1. owe' = [owe EXCEPT !.clock = "due"] /\ UNCHANGED <<pc, trial, drv, fifo, overflow, request, probe, socket, world, flaps>>
    BY <1>6 DEF Trial!Tick
  <2>2. /\ owe' \in TwtDebts /\ owe'.flow = owe.flow /\ owe'.reply = owe.reply /\ owe'.sent = owe.sent /\ owe'.ack = owe.ack
        /\ owe'.barrier = owe.barrier /\ owe'.ps = owe.ps /\ owe'.alive = owe.alive
        /\ owe'.pending = owe.pending /\ owe'.failed = owe.failed
    BY <1>1, <2>1 DEF TwtTyped, TwtDebts
  <2>3. Booked(trial, owe', drv) /\ Reported(trial, owe', drv, fifo)
    BY <1>1, <2>2, BooksAlike
  <2>4. Staged(trial, owe', probe, socket)
    BY <1>1, <2>2 DEF Staged, Trial!Debt
  <2>5. TwtPlaced' /\ TwtTyped'
    BY <1>1, <2>1, <2>2 DEF TwtPlaced, TwtTyped, Trial!Quit
  <2> QED BY <1>1, <2>1, <2>3, <2>4, <2>5 DEF TwtGood
<1> QED BY <1>2, <1>3, <1>4, <1>5, <1>6

(* An owner that cancels has a dead trial, and goes where that is known.   *)
LEMMA CancelGood ==
  ASSUME TwtGood, NEW t \in TwtTrials, NEW o \in TwtDebts, NEW d \in TwtDrivers, NEW why, Trial!Cancel(t, o, d, why),
         Booked(t, o, d), d.probe = drv.probe, Reported(t, o, d, fifo'), fifo' \in Seq(TwtNews), Len(fifo') <= FifoMax,
         overflow' \in BOOLEAN, request' \in {"none", "Off", "Baseline", "On"}, UNCHANGED <<probe, world, flaps>>,
         pc' \in [at : TwtPlaces, back : TwtBacks], pc'.at \in TwtNeutral \cup {"manifest", "update"}, world.ota # "moving"
  PROVE  TwtGood'
<1>1. TwtTyped /\ TwtPlaced
  BY DEF TwtGood
<1>2. /\ trial' \in TwtTrials /\ owe' \in TwtDebts /\ drv' \in TwtDrivers /\ socket' \in {"idle", "queued", "active", "debt"}
      /\ Booked(trial', owe', drv') /\ Reported(trial', owe', drv', fifo') /\ Awaited(trial', drv', fifo', overflow')
      /\ ~Trial!Live(trial') /\ Staged(trial', owe', probe, socket') /\ drv'.probe = d.probe
  <2>1. socket \in {"idle", "queued", "active", "debt"}
    BY <1>1 DEF TwtTyped
  <2>2. PICK q \in Seq(TwtNews) : q = fifo'
    OBVIOUS
  <2>3. PICK l : l = overflow'
    OBVIOUS
  <2>4. Reported(t, o, d, q)
    BY <2>2
  <2> QED BY <2>1, <2>2, <2>3, <2>4, CancelKeeps
<1>3. TwtTyped'
  BY <1>1, <1>2 DEF TwtTyped
<1>4. TwtPlaced'
  <2>1. drv'.probe # "none" => probe' \in {"sent", "timer", "stuck"}
    BY <1>1, <1>2 DEF TwtPlaced
  <2> QED BY <1>2, <2>1 DEF TwtPlaced, TwtNeutral
<1>5. Staged(trial', owe', probe', socket')
  BY <1>2
<1> QED BY <1>2, <1>3, <1>4, <1>5 DEF TwtGood

(* An owner that only goes on leaves its books and the driver's as they    *)
(* are.                                                                    *)
LEMMA OnlyGoes ==
  ASSUME TwtGood, UNCHANGED <<trial, owe, drv, fifo, overflow, probe, socket, flaps>>,
         request' \in {"none", "Off", "Baseline", "On"}, pc' \in [at : TwtPlaces, back : TwtBacks], TwtPlaced'
  PROVE  TwtGood'
<1>1. TwtTyped'
  BY DEF TwtGood, TwtTyped
<1> QED BY <1>1 DEF TwtGood

(* While the owner is busy elsewhere, no update is transferred.            *)
LEMMA NotMoving == ASSUME TwtGood, pc.at # "moving" PROVE world.ota # "moving"
BY DEF TwtGood, TwtPlaced

(* The service's check of its deadlines, of the lock and of the updater.   *)
LEMMA CheckKeeps == ASSUME TwtGood, Trial!Check PROVE TwtGood'
<1>1. /\ TwtTyped /\ TwtPlaced /\ Booked(trial, owe, drv) /\ Reported(trial, owe, drv, fifo)
      /\ trial \in TwtTrials /\ owe \in TwtDebts /\ drv \in TwtDrivers /\ pc \in [at : TwtPlaces, back : TwtBacks]
  BY DEF TwtGood, TwtTyped
<1>2. UNCHANGED <<fifo, overflow, request, probe, world, flaps>> /\ pc.at = "check"
  BY DEF Trial!Check, Trial!Calm, Trial!At
<1>3. pc' \in [at : TwtPlaces, back : TwtBacks] /\ pc'.at \in TwtNeutral
  <2>1. Trial!Goto("overflow") \/ Trial!Goto("events")
    BY DEF Trial!Check
  <2>2. {"overflow", "events"} \subseteq TwtPlaces /\ {"overflow", "events"} \subseteq TwtNeutral
    BY DEF TwtPlaces, TwtNeutral
  <2> QED BY <1>1, <2>1, <2>2, OwnerGoes
<1>4. world.ota # "moving"
  BY <1>2, NotMoving
<1>5. /\ fifo' \in Seq(TwtNews) /\ Len(fifo') <= FifoMax /\ overflow' \in BOOLEAN
      /\ request' \in {"none", "Off", "Baseline", "On"} /\ Reported(trial, owe, drv, fifo')
  BY <1>1, <1>2 DEF TwtTyped
<1>6. CASE \E why \in Trial!Ending(trial) : Trial!Cancel(trial, owe, drv, why)
  <2>1. PICK why : Trial!Cancel(trial, owe, drv, why)
    BY <1>6
  <2> QED BY <1>1, <1>2, <1>3, <1>4, <1>5, <2>1, CancelGood
<1>7. CASE UNCHANGED <<trial, owe, drv, socket>>
  <2>1. TwtPlaced'
    BY <1>1, <1>2, <1>3, <1>4, <1>7, NeutralPlace DEF TwtPlaced
  <2> QED BY <1>2, <1>3, <1>5, <1>7, <2>1, OnlyGoes
<1> QED BY <1>6, <1>7 DEF Trial!Check

(* News that was lost ends the trial, for good.                            *)
LEMMA OverflowKeeps == ASSUME TwtGood, Trial!Overflow PROVE TwtGood'
<1>1. /\ TwtTyped /\ TwtPlaced /\ Booked(trial, owe, drv) /\ Reported(trial, owe, drv, fifo)
      /\ trial \in TwtTrials /\ owe \in TwtDebts /\ drv \in TwtDrivers /\ pc \in [at : TwtPlaces, back : TwtBacks]
  BY DEF TwtGood, TwtTyped
<1>2. /\ UNCHANGED <<fifo, drv, request, socket, probe, world, flaps>> /\ pc.at = "overflow" /\ overflow' = FALSE
      /\ owe' = [owe EXCEPT !.failed = TRUE, !.pending = TRUE] /\ trial' = Trial!Ended(trial, "Lost") /\ Trial!Goto("events")
  BY DEF Trial!Overflow, Trial!Calm, Trial!At, Trial!Failed
<1>3. pc' \in [at : TwtPlaces, back : TwtBacks] /\ pc'.at \in TwtNeutral
  <2>1. "events" \in TwtPlaces /\ "events" \in TwtNeutral
    BY DEF TwtPlaces, TwtNeutral
  <2> QED BY <1>1, <1>2, <2>1, OwnerGoes
<1>4. world.ota # "moving"
  BY <1>2, NotMoving
<1>5. trial' \in TwtTrials /\ trial'.id = trial.id /\ trial'.stage \in {"Off", "Failed"}
  <2>1. PICK s \in {"Off", "Failed"} : trial' = [trial EXCEPT !.stage = s]
    BY <1>2 DEF Trial!Ended
  <2> QED BY <1>1, <2>1 DEF TwtTrials, TwtStages
<1>6. /\ owe' \in TwtDebts /\ owe'.flow = owe.flow /\ owe'.reply = owe.reply /\ owe'.sent = owe.sent /\ owe'.ack = owe.ack
      /\ owe'.barrier = owe.barrier /\ owe'.ps = owe.ps /\ owe'.alive = owe.alive /\ owe'.failed
  BY <1>1, <1>2 DEF TwtDebts
<1>7. Booked(trial, owe', drv) /\ Reported(trial, owe', drv, fifo)
  BY <1>1, <1>6, BooksAlike
<1>8. Booked(trial', owe', drv') /\ Reported(trial', owe', drv', fifo')
  BY <1>2, <1>5, <1>7 DEF Booked, Reported, Told
<1>9. Awaited(trial', drv', fifo', overflow') /\ Staged(trial', owe', probe', socket')
  BY <1>5, <1>6 DEF Awaited, Staged, Trial!Live
<1>10. TwtPlaced'
  BY <1>1, <1>2, <1>3, <1>4, NeutralPlace DEF TwtPlaced
<1>11. TwtTyped'
  BY <1>1, <1>2, <1>3, <1>5, <1>6 DEF TwtTyped
<1> QED BY <1>8, <1>9, <1>10, <1>11 DEF TwtGood

(* An event taken, the owner stays where it takes them.                    *)
LEMMA EventTaken ==
  ASSUME TwtGood, Trial!Take
  PROVE  /\ TwtTyped /\ TwtPlaced /\ trial \in TwtTrials /\ owe \in TwtDebts /\ drv \in TwtDrivers
         /\ fifo \in Seq(TwtNews) /\ fifo # <<>> /\ fifo' = Tail(fifo) /\ Head(fifo) \in TwtNews
         /\ fifo' \in Seq(TwtNews) /\ Len(fifo') <= FifoMax /\ overflow' = overflow /\ overflow' \in BOOLEAN
         /\ request' = request /\ request' \in {"none", "Off", "Baseline", "On"} /\ UNCHANGED <<probe, world, flaps>>
         /\ pc' = pc /\ pc' \in [at : TwtPlaces, back : TwtBacks] /\ pc'.at \in TwtNeutral /\ world.ota # "moving"
         /\ Booked(trial, owe, drv) /\ Reported(trial, owe, drv, fifo') /\ Told(trial, owe, drv, Head(fifo))
         /\ \A i \in DOMAIN fifo' : InOrder(Head(fifo), fifo'[i])
         /\ Staged(trial, owe, probe, socket) /\ Awaited(trial, drv, fifo, overflow)
<1>1. /\ TwtTyped /\ TwtPlaced /\ trial \in TwtTrials /\ owe \in TwtDebts /\ drv \in TwtDrivers /\ fifo \in Seq(TwtNews)
      /\ overflow \in BOOLEAN /\ request \in {"none", "Off", "Baseline", "On"} /\ pc \in [at : TwtPlaces, back : TwtBacks]
      /\ Len(fifo) <= FifoMax /\ Booked(trial, owe, drv) /\ Reported(trial, owe, drv, fifo)
      /\ Staged(trial, owe, probe, socket) /\ Awaited(trial, drv, fifo, overflow)
  BY DEF TwtGood, TwtTyped
<1>2. pc.at = "events" /\ fifo # <<>> /\ fifo' = Tail(fifo) /\ UNCHANGED <<pc, overflow, request, probe, world, flaps>>
  BY DEF Trial!Take, Trial!At, Trial!Calm
<1>3. Tail(fifo) \in Seq(TwtNews) /\ Len(fifo) \in Nat /\ Len(Tail(fifo)) = Len(fifo) - 1 /\ Head(fifo) \in TwtNews
  BY <1>1, <1>2, NewsTaken
<1>4. Len(fifo') <= FifoMax
  <2>1. ASSUME NEW n \in Nat, NEW k, k = n - 1, n <= FifoMax PROVE k <= FifoMax
    BY <2>1, TrialConstants
  <2> QED BY <1>1, <1>2, <1>3, <2>1
<1>5. /\ Reported(trial, owe, drv, Tail(fifo)) /\ Told(trial, owe, drv, Head(fifo))
      /\ \A i \in DOMAIN Tail(fifo) : InOrder(Head(fifo), Tail(fifo)[i])
  BY <1>1, <1>2, ReportTaken
<1>6. pc'.at \in TwtNeutral /\ world.ota # "moving"
  BY <1>2, NotMoving DEF TwtNeutral, TwtPlaces
<1> QED BY <1>1, <1>2, <1>3, <1>4, <1>5, <1>6

(* The answer to a setup: the trial is granted, refused, or too late.      *)
LEMMA OnSetupKeeps == ASSUME TwtGood, Trial!OnSetup PROVE TwtGood'
<1> DEFINE e == Head(fifo)
           current == trial.stage = "Negotiating" /\ e.id = trial.id
           draining == owe.reply /\ e.id = trial.id
           o == IF ~draining THEN owe
                ELSE IF current THEN [owe EXCEPT !.reply = FALSE]
                ELSE [owe EXCEPT !.reply = FALSE, !.barrier = TRUE, !.flow = e.ok]
<1>1. Trial!Take /\ IsSetup(e)
  BY DEF Trial!OnSetup, IsSetup
<1>2. /\ TwtTyped /\ TwtPlaced /\ trial \in TwtTrials /\ owe \in TwtDebts /\ drv \in TwtDrivers
      /\ fifo \in Seq(TwtNews) /\ fifo # <<>> /\ fifo' = Tail(fifo) /\ e \in TwtNews
      /\ fifo' \in Seq(TwtNews) /\ Len(fifo') <= FifoMax /\ overflow' = overflow /\ overflow' \in BOOLEAN
      /\ request' = request /\ request' \in {"none", "Off", "Baseline", "On"} /\ UNCHANGED <<probe, world, flaps>>
      /\ pc' = pc /\ pc' \in [at : TwtPlaces, back : TwtBacks] /\ pc'.at \in TwtNeutral /\ world.ota # "moving"
      /\ Booked(trial, owe, drv) /\ Reported(trial, owe, drv, fifo') /\ Told(trial, owe, drv, e)
      /\ \A i \in DOMAIN fifo' : InOrder(e, fifo'[i])
      /\ Staged(trial, owe, probe, socket) /\ Awaited(trial, drv, fifo, overflow)
  BY <1>1, EventTaken
<1>3. owe.reply /\ owe.flow /\ ~owe.sent /\ ~owe.ack /\ drv.setup = 0 /\ e.id = trial.id /\ (~e.ok => drv.flow = 0) /\ e.ok \in BOOLEAN
  BY <1>1, <1>2 DEF Told, Booked, TwtNews
<1>4. \/ /\ current /\ e.ok /\ trial' = [trial EXCEPT !.stage = "Active"] /\ owe' = o /\ UNCHANGED <<drv, socket>>
      \/ current /\ Trial!Cancel(trial, [o EXCEPT !.barrier = TRUE, !.flow = e.ok], drv, "Rejected")
      \/ ~current /\ e.ok /\ Trial!Cancel(trial, [o EXCEPT !.flow = TRUE], drv, "Lost")
      \/ ~current /\ ~e.ok /\ owe' = o /\ UNCHANGED <<trial, drv, socket>>
  BY DEF Trial!OnSetup
<1>5. (current <=> trial.stage = "Negotiating") /\ draining
  BY <1>3
<1>6. drv.probe # "none" => probe \in {"sent", "timer", "stuck"}
  BY <1>2 DEF TwtPlaced
<1>7. TwtPlaced' \/ drv' # drv
  BY <1>2, <1>6, NeutralPlace
<1> HIDE DEF e
<1>12. ASSUME NEW b \in BOOLEAN, NEW f \in BOOLEAN, f \/ ~e.ok, f \/ b, NEW p, p = [owe EXCEPT !.reply = FALSE, !.barrier = b, !.flow = f]
       PROVE  p \in TwtDebts /\ ~p.reply /\ Booked(trial, p, drv) /\ Reported(trial, p, drv, fifo')
  <2>1. /\ p \in TwtDebts /\ ~p.reply /\ p.flow = f /\ p.barrier = b /\ p.sent = owe.sent /\ p.ack = owe.ack /\ p.ps = owe.ps /\ p.alive = owe.alive
    BY <1>2, <1>12 DEF TwtDebts
  <2>2. Booked(trial, p, drv)
    BY <1>2, <1>3, <1>12, <2>1 DEF Booked
  <2>3. ASSUME NEW i \in DOMAIN fifo' PROVE Told(trial, p, drv, fifo'[i])
    <3>1. Told(trial, owe, drv, fifo'[i]) /\ InOrder(e, fifo'[i]) /\ IsSetup(e)
      BY <1>1, <1>2, <2>3 DEF Reported, e
    <3>2. ~IsSetup(fifo'[i]) /\ ~IsAll(fifo'[i]) /\ (IsAp(fifo'[i]) => e.ok)
      BY <1>3, <3>1 DEF Told, InOrder
    <3> QED BY <1>3, <1>12, <2>1, <3>1, <3>2 DEF Told
  <2> QED BY <1>2, <2>1, <2>2, <2>3 DEF Reported
<1>8. CASE /\ current /\ e.ok /\ trial' = [trial EXCEPT !.stage = "Active"] /\ owe' = o /\ UNCHANGED <<drv, socket>>
  <2>1. owe' = [owe EXCEPT !.reply = FALSE]
    BY <1>5, <1>8
  <2>2. owe' = [owe EXCEPT !.reply = FALSE, !.barrier = owe.barrier, !.flow = TRUE]
    BY <1>2, <1>3, <2>1 DEF TwtDebts
  <2>3. owe.barrier \in BOOLEAN
    BY <1>2 DEF TwtDebts
  <2>4. owe' \in TwtDebts /\ ~owe'.reply /\ Booked(trial, owe', drv) /\ Reported(trial, owe', drv, fifo')
    BY <1>12, <2>2, <2>3
  <2>5. trial' \in TwtTrials /\ trial'.id = trial.id /\ trial'.stage = "Active"
    BY <1>2, <1>8 DEF TwtTrials, TwtStages
  <2>6. Booked(trial', owe', drv') /\ Reported(trial', owe', drv', fifo')
    BY <1>8, <2>4, <2>5 DEF Booked, Reported, Told
  <2>7. Awaited(trial', drv', fifo', overflow')
    <3>1. drv.flow # trial.id => overflow \/ Ends(e) \/ \E i \in DOMAIN fifo' : Ends(fifo'[i])
      BY <1>2, <1>3, <1>8, AwaitedTaken DEF e
    <3>2. ~Ends(e)
      BY <1>1, <1>8 DEF Ends, IsSetup, IsAp, e
    <3> QED BY <1>2, <1>8, <2>5, <3>1, <3>2 DEF Awaited
  <2>8. Trial!Live(trial) /\ owe'.pending = owe.pending /\ owe'.failed = owe.failed /\ owe'.sent = owe.sent
    BY <1>2, <1>8, <2>1 DEF Trial!Live, TwtDebts
  <2>9. Staged(trial', owe', probe', socket')
    BY <1>2, <2>4, <2>5, <2>8 DEF Staged, Trial!Live
  <2>10. TwtTyped'
    BY <1>2, <1>8, <2>4, <2>5 DEF TwtTyped
  <2> QED BY <1>7, <1>8, <2>6, <2>7, <2>9, <2>10 DEF TwtGood
<1>9. CASE current /\ Trial!Cancel(trial, [o EXCEPT !.barrier = TRUE, !.flow = e.ok], drv, "Rejected")
  <2>1. o = [owe EXCEPT !.reply = FALSE]
    BY <1>5, <1>9
  <2>2. PICK p : p = [owe EXCEPT !.reply = FALSE, !.barrier = TRUE, !.flow = e.ok]
    OBVIOUS
  <2>3. p = [o EXCEPT !.barrier = TRUE, !.flow = e.ok]
    BY <1>2, <2>1, <2>2 DEF TwtDebts
  <2>4. p \in TwtDebts /\ Booked(trial, p, drv) /\ Reported(trial, p, drv, fifo')
    BY <1>3, <1>12, <2>2
  <2>5. Trial!Cancel(trial, p, drv, "Rejected")
    BY <1>9, <2>3
  <2> QED BY <1>2, <2>4, <2>5, CancelGood
<1>10. CASE ~current /\ e.ok /\ Trial!Cancel(trial, [o EXCEPT !.flow = TRUE], drv, "Lost")
  <2>1. o = [owe EXCEPT !.reply = FALSE, !.barrier = TRUE, !.flow = TRUE]
    BY <1>5, <1>10
  <2>2. PICK p : p = [owe EXCEPT !.reply = FALSE, !.barrier = TRUE, !.flow = TRUE]
    OBVIOUS
  <2>3. p = [o EXCEPT !.flow = TRUE]
    BY <1>2, <2>1, <2>2 DEF TwtDebts
  <2>4. p \in TwtDebts /\ Booked(trial, p, drv) /\ Reported(trial, p, drv, fifo')
    BY <1>3, <1>12, <2>2
  <2>5. Trial!Cancel(trial, p, drv, "Lost")
    BY <1>10, <2>3
  <2> QED BY <1>2, <2>4, <2>5, CancelGood
<1>11. CASE ~current /\ ~e.ok /\ owe' = o /\ UNCHANGED <<trial, drv, socket>>
  <2>1. owe' = [owe EXCEPT !.reply = FALSE, !.barrier = TRUE, !.flow = FALSE]
    BY <1>3, <1>5, <1>11
  <2>2. owe' \in TwtDebts /\ ~owe'.reply /\ Booked(trial, owe', drv) /\ Reported(trial, owe', drv, fifo')
    BY <1>11, <1>12, <2>1
  <2>3. ~Trial!Live(trial)
    BY <1>2, <1>3, <1>5, <1>11 DEF Staged
  <2>4. owe.pending \/ owe.failed
    BY <1>2, <1>3, <2>3 DEF Staged, Trial!Debt
  <2>5. owe'.pending = owe.pending /\ owe'.failed = owe.failed
    BY <1>2, <2>1 DEF TwtDebts
  <2>6. Staged(trial', owe', probe', socket') /\ Awaited(trial', drv', fifo', overflow')
    BY <1>11, <2>3, <2>4, <2>5 DEF Staged, Awaited, Trial!Live
  <2>7. TwtTyped'
    BY <1>2, <1>11, <2>2 DEF TwtTyped
  <2> QED BY <1>7, <1>11, <2>2, <2>6, <2>7 DEF TwtGood
<1> QED BY <1>4, <1>8, <1>9, <1>10, <1>11 DEF e

(* A live trial ends with its link.                                        *)
LEMMA OnDisconnectKeeps == ASSUME TwtGood, Trial!OnDisconnect PROVE TwtGood'
<1>1. Trial!Take
  BY DEF Trial!OnDisconnect
<1>2. /\ TwtTyped /\ TwtPlaced /\ trial \in TwtTrials /\ owe \in TwtDebts /\ drv \in TwtDrivers
      /\ fifo' \in Seq(TwtNews) /\ Len(fifo') <= FifoMax /\ overflow' = overflow /\ overflow' \in BOOLEAN
      /\ request' = request /\ request' \in {"none", "Off", "Baseline", "On"} /\ UNCHANGED <<probe, world, flaps>>
      /\ pc' = pc /\ pc' \in [at : TwtPlaces, back : TwtBacks] /\ pc'.at \in TwtNeutral /\ world.ota # "moving"
      /\ Booked(trial, owe, drv) /\ Reported(trial, owe, drv, fifo') /\ Staged(trial, owe, probe, socket)
  BY <1>1, EventTaken
<1>3. CASE Trial!Cancel(trial, owe, drv, "Lost")
  BY <1>2, <1>3, CancelGood
<1>4. CASE ~Trial!Live(trial) /\ UNCHANGED <<trial, owe, drv, socket>>
  <2>1. TwtPlaced'
    BY <1>2, <1>4, NeutralPlace DEF TwtPlaced
  <2>2. TwtTyped'
    BY <1>2, <1>4 DEF TwtTyped
  <2>3. Awaited(trial', drv', fifo', overflow')
    BY <1>4 DEF Awaited, Trial!Live
  <2> QED BY <1>2, <1>4, <2>1, <2>2, <2>3 DEF TwtGood
<1> QED BY <1>3, <1>4 DEF Trial!OnDisconnect

(* An end of flows: the one asked for, the access point's, or one that     *)
(* says nothing new.                                                       *)
LEMMA OnTeardownKeeps == ASSUME TwtGood, Trial!OnTeardown PROVE TwtGood'
<1> DEFINE e == Head(fifo)
<1>1. Trial!Take /\ e.kind = "teardown"
  BY DEF Trial!OnTeardown
<1>2. /\ TwtTyped /\ TwtPlaced /\ trial \in TwtTrials /\ owe \in TwtDebts /\ drv \in TwtDrivers
      /\ fifo \in Seq(TwtNews) /\ fifo # <<>> /\ fifo' = Tail(fifo) /\ e \in TwtNews
      /\ fifo' \in Seq(TwtNews) /\ Len(fifo') <= FifoMax /\ overflow' = overflow /\ overflow' \in BOOLEAN
      /\ request' = request /\ request' \in {"none", "Off", "Baseline", "On"} /\ UNCHANGED <<probe, world, flaps>>
      /\ pc' = pc /\ pc' \in [at : TwtPlaces, back : TwtBacks] /\ pc'.at \in TwtNeutral /\ world.ota # "moving"
      /\ Booked(trial, owe, drv) /\ Reported(trial, owe, drv, fifo') /\ Told(trial, owe, drv, e)
      /\ \A i \in DOMAIN fifo' : InOrder(e, fifo'[i])
      /\ Staged(trial, owe, probe, socket) /\ Awaited(trial, drv, fifo, overflow)
  BY <1>1, EventTaken
<1>3. /\ IsAll(e) \/ IsAp(e)
      /\ IsAll(e) => owe.sent /\ ~owe.ack /\ drv.teardown = "none" /\ (e.ok => drv.flow = 0)
      /\ IsAp(e) => e.ok /\ drv.flow = 0 /\ drv.setup = 0 /\ owe.flow /\ ~owe.ack
      /\ ~IsSetup(e) /\ (IsAll(e) <=> e.all)
  BY <1>1, <1>2 DEF Told, IsAll, IsAp, IsSetup
<1>4. \/ /\ owe.sent /\ e.all
         /\ owe' = IF e.ok THEN [owe EXCEPT !.ack = TRUE] ELSE Trial!Failed(owe)
         /\ UNCHANGED <<trial, drv, socket>>
      \/ /\ ~(owe.sent /\ e.all) /\ e.ok /\ trial.stage = "Active"
         /\ Trial!Cancel(trial, [owe EXCEPT !.flow = FALSE, !.barrier = TRUE], drv, "Lost")
      \/ /\ ~(owe.sent /\ e.all) /\ (~e.ok \/ trial.stage # "Active")
         /\ UNCHANGED <<trial, owe, drv, socket>>
  BY DEF Trial!OnTeardown
<1>5. drv.probe # "none" => probe \in {"sent", "timer", "stuck"}
  BY <1>2 DEF TwtPlaced
<1>6. TwtPlaced' \/ drv' # drv
  BY <1>2, <1>5, NeutralPlace
<1> HIDE DEF e
<1>7. CASE /\ owe.sent /\ e.all
           /\ owe' = IF e.ok THEN [owe EXCEPT !.ack = TRUE] ELSE Trial!Failed(owe)
           /\ UNCHANGED <<trial, drv, socket>>
  <2>1. ~Trial!Live(trial) /\ owe.flow /\ ~owe.reply /\ drv.setup = 0 /\ IsAll(e)
    BY <1>2, <1>3, <1>7 DEF Staged, Booked
  <2>2. owe.pending \/ owe.failed
    BY <1>2, <2>1 DEF Staged, Trial!Debt
  <2>3. /\ owe' \in TwtDebts /\ owe'.flow = owe.flow /\ owe'.reply = owe.reply /\ owe'.sent = owe.sent /\ (owe'.ack => e.ok)
        /\ owe'.barrier = owe.barrier /\ owe'.ps = owe.ps /\ owe'.alive = owe.alive /\ (owe'.pending \/ owe'.failed)
    <3>1. CASE e.ok
      <4>1. owe' = [owe EXCEPT !.ack = TRUE]
        BY <1>7, <3>1
      <4> QED BY <1>2, <2>2, <3>1, <4>1 DEF TwtDebts
    <3>2. CASE ~e.ok
      <4>1. owe' = [owe EXCEPT !.failed = TRUE, !.pending = TRUE]
        BY <1>7, <3>2 DEF Trial!Failed
      <4> QED BY <1>2, <1>3, <2>1, <4>1 DEF TwtDebts
    <3> QED BY <3>1, <3>2
  <2>4. Booked(trial, owe', drv)
    BY <1>2, <1>3, <1>7, <2>1, <2>3 DEF Booked
  <2>5. ASSUME NEW i \in DOMAIN fifo' PROVE Told(trial, owe', drv, fifo'[i])
    <3>1. Told(trial, owe, drv, fifo'[i]) /\ InOrder(e, fifo'[i])
      BY <1>2, <2>5 DEF Reported
    <3>2. ~IsSetup(fifo'[i]) /\ ~IsAll(fifo'[i]) /\ (IsAp(fifo'[i]) => ~e.ok)
      BY <2>1, <3>1 DEF Told, InOrder
    <3> QED BY <2>3, <3>1, <3>2 DEF Told
  <2>6. Reported(trial, owe', drv, fifo')
    BY <1>2, <2>5 DEF Reported
  <2>7. Staged(trial', owe', probe', socket') /\ Awaited(trial', drv', fifo', overflow')
    BY <1>7, <2>1, <2>3 DEF Staged, Awaited, Trial!Live
  <2>8. TwtTyped'
    BY <1>2, <1>7, <2>3 DEF TwtTyped
  <2> QED BY <1>6, <1>7, <2>4, <2>6, <2>7, <2>8 DEF TwtGood
<1>8. CASE /\ ~(owe.sent /\ e.all) /\ e.ok /\ trial.stage = "Active"
           /\ Trial!Cancel(trial, [owe EXCEPT !.flow = FALSE, !.barrier = TRUE], drv, "Lost")
  <2>1. IsAp(e) /\ ~owe.reply /\ ~owe.sent /\ ~owe.ack
    BY <1>2, <1>3, <1>8 DEF Staged, Booked, Trial!Live
  <2>2. PICK p : p = [owe EXCEPT !.flow = FALSE, !.barrier = TRUE]
    OBVIOUS
  <2>3. /\ p \in TwtDebts /\ ~p.reply /\ ~p.flow /\ p.barrier /\ ~p.sent /\ ~p.ack /\ p.ps = owe.ps /\ p.alive = owe.alive
    BY <1>2, <2>1, <2>2 DEF TwtDebts
  <2>4. Booked(trial, p, drv)
    BY <1>2, <1>3, <2>1, <2>3 DEF Booked
  <2>5. ASSUME NEW i \in DOMAIN fifo' PROVE Told(trial, p, drv, fifo'[i])
    <3>1. Told(trial, owe, drv, fifo'[i]) /\ InOrder(e, fifo'[i])
      BY <1>2, <2>5 DEF Reported
    <3>2. ~IsSetup(fifo'[i]) /\ ~IsAll(fifo'[i]) /\ ~IsAp(fifo'[i])
      BY <2>1, <3>1 DEF Told, InOrder
    <3> QED BY <3>2 DEF Told
  <2>6. Reported(trial, p, drv, fifo')
    BY <1>2, <2>5 DEF Reported
  <2>7. Trial!Cancel(trial, p, drv, "Lost")
    BY <1>8, <2>2
  <2> QED BY <1>2, <2>3, <2>4, <2>6, <2>7, CancelGood
<1>9. CASE /\ ~(owe.sent /\ e.all) /\ (~e.ok \/ trial.stage # "Active")
           /\ UNCHANGED <<trial, owe, drv, socket>>
  <2>1. IsAp(e) /\ trial.stage # "Active"
    BY <1>3, <1>9
  <2>2. \A i \in DOMAIN fifo' : ~IsSetup(fifo'[i])
    BY <1>2, <2>1 DEF InOrder
  <2>3. trial.stage = "Negotiating" /\ drv.setup = 0 => overflow
    <3>1. trial.stage = "Negotiating" /\ drv.setup = 0 => overflow \/ IsSetup(e) \/ \E i \in DOMAIN fifo' : IsSetup(fifo'[i])
      BY <1>2, AwaitedTaken DEF e
    <3> QED BY <1>3, <2>2, <3>1
  <2>4. Awaited(trial', drv', fifo', overflow')
    BY <1>2, <1>9, <2>1, <2>3 DEF Awaited
  <2>5. TwtTyped'
    BY <1>2, <1>9 DEF TwtTyped
  <2> QED BY <1>2, <1>6, <1>9, <2>4, <2>5 DEF TwtGood
<1> QED BY <1>4, <1>7, <1>8, <1>9 DEF e

(* The events are through, and a cleanup begun before is gone on with.     *)
LEMMA DrainGood == ASSUME TwtGood, Trial!Drain PROVE TwtGood'
<1>1. /\ TwtTyped /\ TwtPlaced /\ Booked(trial, owe, drv) /\ Reported(trial, owe, drv, fifo)
      /\ Staged(trial, owe, probe, socket) /\ Awaited(trial, drv, fifo, overflow)
      /\ trial \in TwtTrials /\ owe \in TwtDebts /\ drv \in TwtDrivers /\ pc \in [at : TwtPlaces, back : TwtBacks]
      /\ fifo \in Seq(TwtNews) /\ request \in {"none", "Off", "Baseline", "On"} /\ socket \in {"idle", "queued", "active", "debt"}
  BY DEF TwtGood, TwtTyped
<1>2. UNCHANGED <<trial, fifo, overflow, request, probe, world, flaps>> /\ pc.at = "events"
  BY DEF Trial!Drain, Trial!Calm, Trial!At
<1>3. pc' \in [at : TwtPlaces, back : TwtBacks] /\ (pc'.at = "link" \/ (pc'.at = "request" /\ request # "none"))
  <2>1. (request = "none" /\ Trial!Goto("link")) \/ (request # "none" /\ Trial!Goto("request"))
    BY DEF Trial!Drain
  <2>2. {"link", "request"} \subseteq TwtPlaces
    BY DEF TwtPlaces
  <2> QED BY <1>1, <2>1, <2>2, OwnerGoes
<1>4. world.ota # "moving"
  BY <1>2, NotMoving
<1>5. drv'.probe = drv.probe => TwtPlaced'
  BY <1>1, <1>2, <1>3, <1>4 DEF TwtPlaced
<1>6. CASE owe.pending
  <2>1. Trial!Quiesce /\ \E r \in Trial!Cleaned(owe, drv) : owe' = r[1] /\ drv' = r[2]
    BY <1>6 DEF Trial!Drain
  <2>2. PICK r \in Trial!Cleaned(owe, drv) : owe' = r[1] /\ drv' = r[2]
    BY <2>1
  <2>3. /\ owe' \in TwtDebts /\ drv' \in TwtDrivers /\ socket' \in {"idle", "queued", "active", "debt"}
        /\ Booked(trial, owe', drv') /\ Reported(trial, owe', drv', fifo)
        /\ ~owe'.pending /\ ~owe'.failed => ~Trial!Debt(owe') /\ probe \notin {"sent", "timer", "stuck"} /\ socket' \in {"idle", "queued"}
        /\ drv'.probe = drv.probe
    BY <1>1, <2>1, <2>2, DrainKeeps
  <2>4. ~Trial!Live(trial)
    BY <1>1, <1>6 DEF Staged
  <2>5. Staged(trial', owe', probe', socket') /\ Awaited(trial', drv', fifo', overflow')
    BY <1>2, <2>3, <2>4 DEF Staged, Awaited, Trial!Live
  <2>6. TwtTyped'
    BY <1>1, <1>2, <1>3, <2>3 DEF TwtTyped
  <2> QED BY <1>2, <1>5, <2>3, <2>5, <2>6 DEF TwtGood
<1>7. CASE ~owe.pending
  <2>1. UNCHANGED <<owe, drv, socket>>
    BY <1>7 DEF Trial!Drain
  <2> QED BY <1>1, <1>2, <1>3, <1>5, <2>1, OnlyGoes
<1> QED BY <1>6, <1>7

(* A request is served by a new trial only when the last one owes nothing. *)
LEMMA ServeKeeps == ASSUME TwtGood, Trial!Serve PROVE TwtGood'
<1>1. /\ TwtTyped /\ TwtPlaced /\ Booked(trial, owe, drv) /\ Reported(trial, owe, drv, fifo)
      /\ trial \in TwtTrials /\ owe \in TwtDebts /\ drv \in TwtDrivers /\ pc \in [at : TwtPlaces, back : TwtBacks]
      /\ fifo \in Seq(TwtNews) /\ request \in {"none", "Off", "Baseline", "On"} /\ socket \in {"idle", "queued", "active", "debt"}
  BY DEF TwtGood, TwtTyped
<1>2. /\ UNCHANGED <<fifo, overflow, probe, world, flaps>> /\ pc.at = "request" /\ request' = "none" /\ Trial!Quiesce /\ Trial!Goto("link")
      /\ \E r \in Trial!Cleaned(owe, drv) : /\ owe' = r[1] /\ drv' = r[2]
                                      /\ trial' = Trial!Started([Trial!Ended(trial, "Explicit") EXCEPT !.boot = "no"], r[1], request)
  BY DEF Trial!Serve, Trial!Calm, Trial!At
<1>3. pc' \in [at : TwtPlaces, back : TwtBacks] /\ pc'.at \in TwtNeutral
  <2>1. "link" \in TwtPlaces /\ "link" \in TwtNeutral
    BY DEF TwtPlaces, TwtNeutral
  <2> QED BY <1>1, <1>2, <2>1, OwnerGoes
<1>4. world.ota # "moving" /\ request # "none"
  BY <1>1, <1>2, NotMoving DEF TwtPlaced
<1>5. PICK r \in Trial!Cleaned(owe, drv) : /\ owe' = r[1] /\ drv' = r[2]
                                     /\ trial' = Trial!Started([Trial!Ended(trial, "Explicit") EXCEPT !.boot = "no"], r[1], request)
  BY <1>2
<1>6. /\ owe' \in TwtDebts /\ drv' \in TwtDrivers /\ socket' \in {"idle", "queued", "active", "debt"}
      /\ Booked(trial, owe', drv') /\ Reported(trial, owe', drv', fifo)
      /\ ~owe'.pending /\ ~owe'.failed => ~Trial!Debt(owe') /\ probe \notin {"sent", "timer", "stuck"} /\ socket' \in {"idle", "queued"}
      /\ drv'.probe = drv.probe
  BY <1>1, <1>2, <1>5, DrainKeeps
<1>7. PICK t : t = [Trial!Ended(trial, "Explicit") EXCEPT !.boot = "no"]
  OBVIOUS
<1>8. t \in TwtTrials /\ t.id = trial.id
  BY <1>1, <1>7 DEF Trial!Ended, TwtTrials, TwtStages
<1>9. trial' = Trial!Started(t, owe', request)
  BY <1>5, <1>7
<1>10. ASSUME NEW x \in TwtTrials, NEW why PROVE Trial!Ended(x, why) \in TwtTrials /\ Trial!Ended(x, why).id = x.id /\ ~Trial!Live(Trial!Ended(x, why))
  <2>1. PICK s \in {"Off", "Failed"} : Trial!Ended(x, why) = [x EXCEPT !.stage = s]
    BY DEF Trial!Ended
  <2>2. Trial!Ended(x, why) \in TwtTrials /\ Trial!Ended(x, why).id = x.id /\ Trial!Ended(x, why).stage = s
    BY <2>1 DEF TwtTrials, TwtStages
  <2> QED BY <2>2 DEF Trial!Live
<1>11. TwtPlaced'
  BY <1>1, <1>2, <1>3, <1>4, <1>6, NeutralPlace DEF TwtPlaced
<1>12. trial' \in TwtTrials => TwtTyped'
  BY <1>1, <1>2, <1>3, <1>6 DEF TwtTyped
<1>13. ASSUME ~Trial!Live(trial'), trial' \in TwtTrials PROVE Awaited(trial', drv', fifo', overflow') /\ Staged(trial', owe', probe', socket')
  BY <1>2, <1>6, <1>13 DEF Awaited, Staged, Trial!Live
<1>14. CASE trial' \in TwtTrials /\ trial'.id = trial.id /\ ~Trial!Live(trial')
  <2>1. Booked(trial', owe', drv') /\ Reported(trial', owe', drv', fifo')
    BY <1>2, <1>6, <1>14 DEF Booked, Reported, Told
  <2> QED BY <1>11, <1>12, <1>13, <1>14, <2>1 DEF TwtGood
<1>15. CASE owe'.pending \/ owe'.failed \/ (request # "Off" /\ t.id = MaxId)
  <2>1. trial' = Trial!Ended(t, "Driver")
    BY <1>9, <1>15 DEF Trial!Started
  <2> QED BY <1>8, <1>10, <1>14, <2>1
<1>16. CASE ~(owe'.pending \/ owe'.failed \/ (request # "Off" /\ t.id = MaxId)) /\ request = "Off"
  <2>1. trial' = Trial!Ended(t, "Explicit")
    BY <1>9, <1>16 DEF Trial!Started
  <2> QED BY <1>8, <1>10, <1>14, <2>1
<1>17. CASE ~(owe'.pending \/ owe'.failed \/ (request # "Off" /\ t.id = MaxId)) /\ request # "Off"
  <2>1. PICK u : u = [id |-> t.id + 1, mode |-> request, stage |-> "Armed", boot |-> "no"]
    OBVIOUS
  <2>2. trial' \in {u, Trial!Ended(u, "Ota"), Trial!Ended(u, "Awake")}
    BY <1>9, <1>17, <2>1 DEF Trial!Started
  <2>3. t.id + 1 \in 0 .. MaxId /\ t.id + 1 # 0
    BY <1>8, <1>17, TrialConstants DEF TwtTrials
  <2>4. u \in TwtTrials /\ u.id # 0 /\ u.stage = "Armed"
    BY <1>1, <1>4, <1>17, <2>1, <2>3 DEF TwtTrials, TwtStages
  <2>5. trial' \in TwtTrials /\ trial'.id # 0 /\ (trial'.stage = "Armed" \/ ~Trial!Live(trial'))
    BY <1>10, <2>2, <2>4
  <2>6. ~Trial!Debt(owe') /\ probe \notin {"sent", "timer", "stuck"} /\ socket' \in {"idle", "queued"} /\ ~owe'.pending /\ ~owe'.failed
    BY <1>6, <1>17
  <2>7. ~owe'.flow /\ ~owe'.barrier /\ ~owe'.reply /\ ~owe'.sent /\ ~owe'.ack /\ drv'.setup = 0 /\ drv'.flow = 0
    BY <1>6, <2>6 DEF Trial!Debt, Booked
  <2>8. Booked(trial', owe', drv')
    BY <1>6, <2>7 DEF Booked
  <2>9. ASSUME NEW i \in DOMAIN fifo PROVE Told(trial', owe', drv', fifo[i])
    <3>1. Told(trial, owe', drv', fifo[i])
      BY <1>6 DEF Reported
    <3> QED BY <2>7, <3>1 DEF Told
  <2>10. Reported(trial', owe', drv', fifo')
    BY <1>2, <1>6, <2>9 DEF Reported
  <2>11. Awaited(trial', drv', fifo', overflow') /\ Staged(trial', owe', probe', socket')
    BY <1>2, <2>5, <2>6, <2>7 DEF Awaited, Staged, Trial!Live
  <2> QED BY <1>11, <1>12, <2>5, <2>8, <2>10, <2>11 DEF TwtGood
<1> QED BY <1>15, <1>16, <1>17

(* Settings changed for a trial are on the books before it is dispatched.  *)
LEMMA SettingsBooked ==
  ASSUME NEW t, NEW o \in TwtDebts, NEW d \in TwtDrivers, NEW q, Booked(t, o, d), Reported(t, o, d, q), NEW s \in {"user", "min"}
  PROVE  /\ [o EXCEPT !.ps = TRUE] \in TwtDebts /\ [d EXCEPT !.ps = s] \in TwtDrivers /\ [d EXCEPT !.ps = s].probe = d.probe
         /\ Booked(t, [o EXCEPT !.ps = TRUE], d) /\ Reported(t, [o EXCEPT !.ps = TRUE], d, q)
         /\ Booked(t, [o EXCEPT !.ps = TRUE], [d EXCEPT !.ps = s]) /\ Reported(t, [o EXCEPT !.ps = TRUE], [d EXCEPT !.ps = s], q)
         /\ [o EXCEPT !.alive = TRUE] \in TwtDebts /\ [d EXCEPT !.alive = TRUE] \in TwtDrivers /\ [d EXCEPT !.alive = TRUE].probe = d.probe
         /\ Booked(t, [o EXCEPT !.alive = TRUE], [d EXCEPT !.alive = TRUE])
         /\ Reported(t, [o EXCEPT !.alive = TRUE], [d EXCEPT !.alive = TRUE], q)
<1> DEFINE p == [o EXCEPT !.ps = TRUE]
           e == [d EXCEPT !.ps = s]
           a == [o EXCEPT !.alive = TRUE]
           b == [d EXCEPT !.alive = TRUE]
<1>1. /\ p \in TwtDebts /\ p.flow = o.flow /\ p.reply = o.reply /\ p.sent = o.sent /\ p.ack = o.ack /\ p.barrier = o.barrier
      /\ p.alive = o.alive /\ p.ps
  BY DEF TwtDebts
<1>2. /\ e \in TwtDrivers /\ e.setup = d.setup /\ e.tail = d.tail /\ e.flow = d.flow /\ e.teardown = d.teardown
      /\ e.probe = d.probe /\ e.alive = d.alive
  BY DEF TwtDrivers
<1>3. /\ a \in TwtDebts /\ a.flow = o.flow /\ a.reply = o.reply /\ a.sent = o.sent /\ a.ack = o.ack /\ a.barrier = o.barrier
      /\ a.ps = o.ps /\ a.alive
  BY DEF TwtDebts
<1>4. /\ b \in TwtDrivers /\ b.setup = d.setup /\ b.tail = d.tail /\ b.flow = d.flow /\ b.teardown = d.teardown
      /\ b.probe = d.probe /\ b.ps = d.ps
  BY DEF TwtDrivers
<1> HIDE DEF p, e, a, b
<1>5. Booked(t, p, d) /\ Booked(t, p, e) /\ Booked(t, a, b)
  BY <1>1, <1>2, <1>3, <1>4 DEF Booked
<1>6. ASSUME NEW n, Told(t, o, d, n) PROVE Told(t, p, d, n) /\ Told(t, p, e, n) /\ Told(t, a, b, n)
  BY <1>1, <1>2, <1>3, <1>4, <1>6 DEF Told
<1>7. Reported(t, p, d, q) /\ Reported(t, p, e, q) /\ Reported(t, a, b, q)
  BY <1>6 DEF Reported
<1> QED BY <1>1, <1>2, <1>3, <1>4, <1>5, <1>7 DEF p, e, a, b

(* The link gates the trial, and a path that is primed dispatches it.      *)
LEMMA DispatchKeeps == ASSUME TwtGood, Trial!Dispatch PROVE TwtGood'
<1>1. /\ TwtTyped /\ TwtPlaced /\ Booked(trial, owe, drv) /\ Reported(trial, owe, drv, fifo)
      /\ Staged(trial, owe, probe, socket) /\ Awaited(trial, drv, fifo, overflow)
      /\ trial \in TwtTrials /\ owe \in TwtDebts /\ drv \in TwtDrivers /\ pc \in [at : TwtPlaces, back : TwtBacks]
  BY DEF TwtGood, TwtTyped
<1>2. UNCHANGED <<fifo, overflow, request, probe, world, flaps>> /\ pc.at = "link"
  BY DEF Trial!Dispatch, Trial!Calm, Trial!At
<1>3. /\ fifo' \in Seq(TwtNews) /\ Len(fifo') <= FifoMax /\ overflow' \in BOOLEAN
      /\ request' \in {"none", "Off", "Baseline", "On"} /\ Reported(trial, owe, drv, fifo')
  BY <1>1, <1>2 DEF TwtTyped
<1>4. world.ota # "moving"
  BY <1>2, NotMoving
<1>5. Trial!Return => pc' \in [at : TwtPlaces, back : TwtBacks] /\ pc'.at \in TwtNeutral
  BY <1>1, OwnerGoes
<1> DEFINE o == [owe EXCEPT !.ps = TRUE]
           d == [drv EXCEPT !.ps = "min"]
<1>6. /\ o \in TwtDebts /\ d \in TwtDrivers /\ d.probe = drv.probe
      /\ Booked(trial, o, drv) /\ Reported(trial, o, drv, fifo') /\ Booked(trial, o, d) /\ Reported(trial, o, d, fifo')
  BY <1>1, <1>2, SettingsBooked
<1>7. /\ o.pending = owe.pending /\ o.failed = owe.failed /\ o.sent = owe.sent /\ o.reply = owe.reply /\ o.flow = owe.flow /\ o.barrier = owe.barrier
      /\ d.setup = drv.setup /\ d.flow = drv.flow
  BY <1>1 DEF TwtDebts, TwtDrivers
<1>8. \/ Trial!Return /\ Trial!Cancel(trial, owe, drv, "Lost")
      \/ Trial!Return /\ \E why \in {"Unsupported", "Driver"} : Trial!Cancel(trial, owe, drv, why)
      \/ Trial!Return /\ Trial!Cancel(trial, o, drv, "Driver")
      \/ trial.stage = "Armed" /\ Trial!Return /\ UNCHANGED socket /\ trial' = [trial EXCEPT !.stage = "Baseline"] /\ owe' = o /\ drv' = d
      \/ Trial!Return /\ Trial!Cancel(trial, o, d, "Expired")
      \/ trial.stage = "Armed" /\ Trial!Goto("keepalive") /\ owe' = o /\ drv' = d /\ UNCHANGED <<trial, socket>>
      \/ Trial!Return /\ UNCHANGED <<trial, owe, drv, socket>>
  BY DEF Trial!Dispatch
<1> HIDE DEF o, d
<1>9. CASE Trial!Return /\ \E why \in {"Lost", "Unsupported", "Driver"} : Trial!Cancel(trial, owe, drv, why)
  <2>1. PICK why : Trial!Cancel(trial, owe, drv, why)
    BY <1>9
  <2> QED BY <1>1, <1>2, <1>3, <1>4, <1>5, <1>9, <2>1, CancelGood
<1>10. CASE Trial!Return /\ Trial!Cancel(trial, o, drv, "Driver")
  BY <1>1, <1>2, <1>3, <1>4, <1>5, <1>6, <1>10, CancelGood
<1>11. CASE Trial!Return /\ Trial!Cancel(trial, o, d, "Expired")
  BY <1>1, <1>2, <1>3, <1>4, <1>5, <1>6, <1>11, CancelGood
<1>12. CASE trial.stage = "Armed" /\ Trial!Return /\ UNCHANGED socket /\ trial' = [trial EXCEPT !.stage = "Baseline"] /\ owe' = o /\ drv' = d
  <2>1. trial' \in TwtTrials /\ trial'.id = trial.id /\ trial'.stage = "Baseline"
    BY <1>1, <1>12 DEF TwtTrials, TwtStages
  <2>2. Booked(trial', owe', drv') /\ Reported(trial', owe', drv', fifo')
    BY <1>6, <1>12, <2>1 DEF Booked, Reported, Told
  <2>3. ~owe.reply
    BY <1>1, <1>12 DEF Staged, Trial!Live
  <2>4. Awaited(trial', drv', fifo', overflow') /\ Staged(trial', owe', probe', socket')
    BY <1>1, <1>7, <1>12, <2>1, <2>3 DEF Awaited, Staged, Trial!Live
  <2>5. TwtPlaced'
    BY <1>1, <1>2, <1>4, <1>5, <1>6, <1>12, NeutralPlace DEF TwtPlaced
  <2>6. TwtTyped'
    BY <1>1, <1>2, <1>5, <1>6, <1>12, <2>1 DEF TwtTyped
  <2> QED BY <2>2, <2>4, <2>5, <2>6 DEF TwtGood
<1>13. CASE trial.stage = "Armed" /\ Trial!Goto("keepalive") /\ owe' = o /\ drv' = d /\ UNCHANGED <<trial, socket>>
  <2>1. pc' \in [at : TwtPlaces, back : TwtBacks] /\ pc'.at = "keepalive"
    <3>1. "keepalive" \in TwtPlaces
      BY DEF TwtPlaces
    <3> QED BY <1>1, <1>13, <3>1, OwnerGoes
  <2>2. Booked(trial', owe', drv') /\ Reported(trial', owe', drv', fifo')
    BY <1>6, <1>13
  <2>3. Awaited(trial', drv', fifo', overflow') /\ Staged(trial', owe', probe', socket')
    BY <1>1, <1>2, <1>7, <1>13 DEF Awaited, Staged, Trial!Live
  <2>4. TwtPlaced'
    BY <1>1, <1>2, <1>4, <1>6, <1>13, <2>1 DEF TwtPlaced
  <2>5. TwtTyped'
    BY <1>1, <1>2, <1>6, <1>13, <2>1 DEF TwtTyped
  <2> QED BY <2>2, <2>3, <2>4, <2>5 DEF TwtGood
<1>14. CASE Trial!Return /\ UNCHANGED <<trial, owe, drv, socket>>
  <2>1. TwtPlaced'
    BY <1>1, <1>2, <1>4, <1>5, <1>14, NeutralPlace DEF TwtPlaced
  <2> QED BY <1>2, <1>3, <1>5, <1>14, <2>1, OnlyGoes
<1> QED BY <1>8, <1>9, <1>10, <1>11, <1>12, <1>13, <1>14

(* The keepalive configuration, and what stops it.                         *)
LEMMA KeepaliveKeeps == ASSUME TwtGood, Trial!Keepalive PROVE TwtGood'
<1>1. /\ TwtTyped /\ TwtPlaced /\ Booked(trial, owe, drv) /\ Reported(trial, owe, drv, fifo)
      /\ Staged(trial, owe, probe, socket) /\ Awaited(trial, drv, fifo, overflow)
      /\ trial \in TwtTrials /\ owe \in TwtDebts /\ drv \in TwtDrivers /\ pc \in [at : TwtPlaces, back : TwtBacks]
  BY DEF TwtGood, TwtTyped
<1>2. UNCHANGED <<fifo, overflow, request, probe, world, flaps>> /\ pc.at = "keepalive" /\ trial.stage = "Armed"
  BY <1>1 DEF Trial!Keepalive, Trial!Calm, Trial!At, TwtPlaced
<1>3. /\ fifo' \in Seq(TwtNews) /\ Len(fifo') <= FifoMax /\ overflow' \in BOOLEAN
      /\ request' \in {"none", "Off", "Baseline", "On"} /\ Reported(trial, owe, drv, fifo')
  BY <1>1, <1>2 DEF TwtTyped
<1>4. world.ota # "moving"
  BY <1>2, NotMoving
<1>5. Trial!Return => pc' \in [at : TwtPlaces, back : TwtBacks] /\ pc'.at \in TwtNeutral
  BY <1>1, OwnerGoes
<1>6. Trial!Goto("submit") => pc' \in [at : TwtPlaces, back : TwtBacks] /\ pc'.at = "submit"
  <2>1. "submit" \in TwtPlaces
    BY DEF TwtPlaces
  <2> QED BY <1>1, <2>1, OwnerGoes
<1> DEFINE o == [owe EXCEPT !.alive = TRUE]
           d == [drv EXCEPT !.alive = TRUE]
<1>7. /\ o \in TwtDebts /\ d \in TwtDrivers /\ d.probe = drv.probe /\ Booked(trial, o, d) /\ Reported(trial, o, d, fifo')
  BY <1>1, <1>2, SettingsBooked
<1>8. /\ o.pending = owe.pending /\ o.failed = owe.failed /\ o.sent = owe.sent /\ o.reply = owe.reply /\ o.flow = owe.flow /\ o.barrier = owe.barrier
      /\ d.setup = drv.setup /\ d.flow = drv.flow
  BY <1>1 DEF TwtDebts, TwtDrivers
<1>9. \/ Trial!Goto("submit") /\ UNCHANGED <<trial, owe, drv, socket>>
      \/ Trial!Return /\ Trial!Cancel(trial, owe, drv, IF Trial!Blocked THEN "Ota" ELSE "Explicit")
      \/ Trial!Return /\ Trial!Cancel(trial, o, d, "Driver")
      \/ Trial!Goto("submit") /\ owe' = o /\ drv' = d /\ UNCHANGED <<trial, socket>>
  BY DEF Trial!Keepalive
<1> HIDE DEF o, d
<1>10. CASE Trial!Goto("submit") /\ UNCHANGED <<trial, owe, drv, socket>>
  <2>1. TwtPlaced'
    BY <1>1, <1>2, <1>4, <1>6, <1>10 DEF TwtPlaced
  <2> QED BY <1>2, <1>3, <1>6, <1>10, <2>1, OnlyGoes
<1>11. CASE Trial!Return /\ Trial!Cancel(trial, owe, drv, IF Trial!Blocked THEN "Ota" ELSE "Explicit")
  BY <1>1, <1>2, <1>3, <1>4, <1>5, <1>11, CancelGood
<1>12. CASE Trial!Return /\ Trial!Cancel(trial, o, d, "Driver")
  BY <1>1, <1>2, <1>3, <1>4, <1>5, <1>7, <1>12, CancelGood
<1>13. CASE Trial!Goto("submit") /\ owe' = o /\ drv' = d /\ UNCHANGED <<trial, socket>>
  <2>1. Booked(trial', owe', drv') /\ Reported(trial', owe', drv', fifo')
    BY <1>7, <1>13
  <2>2. Awaited(trial', drv', fifo', overflow') /\ Staged(trial', owe', probe', socket')
    BY <1>1, <1>2, <1>8, <1>13 DEF Awaited, Staged, Trial!Live
  <2>3. TwtPlaced'
    BY <1>1, <1>2, <1>4, <1>6, <1>7, <1>13 DEF TwtPlaced
  <2>4. TwtTyped'
    BY <1>1, <1>2, <1>6, <1>7, <1>13 DEF TwtTyped
  <2> QED BY <2>1, <2>2, <2>3, <2>4 DEF TwtGood
<1> QED BY <1>9, <1>10, <1>11, <1>12, <1>13

(* The setup: its reply and its flow are on the books before it is sent.   *)
LEMMA SubmitKeeps == ASSUME TwtGood, Trial!Submit PROVE TwtGood'
<1>1. /\ TwtTyped /\ TwtPlaced /\ Booked(trial, owe, drv) /\ Reported(trial, owe, drv, fifo)
      /\ Staged(trial, owe, probe, socket) /\ Awaited(trial, drv, fifo, overflow)
      /\ trial \in TwtTrials /\ owe \in TwtDebts /\ drv \in TwtDrivers /\ pc \in [at : TwtPlaces, back : TwtBacks]
  BY DEF TwtGood, TwtTyped
<1>2. UNCHANGED <<fifo, overflow, request, probe, world, flaps>> /\ pc.at = "submit" /\ trial.stage = "Armed" /\ Trial!Return
  BY <1>1 DEF Trial!Submit, Trial!Calm, Trial!At, TwtPlaced
<1>3. /\ fifo' \in Seq(TwtNews) /\ Len(fifo') <= FifoMax /\ overflow' \in BOOLEAN
      /\ request' \in {"none", "Off", "Baseline", "On"} /\ Reported(trial, owe, drv, fifo')
  BY <1>1, <1>2 DEF TwtTyped
<1>4. world.ota # "moving"
  BY <1>2, NotMoving
<1>5. pc' \in [at : TwtPlaces, back : TwtBacks] /\ pc'.at \in TwtNeutral
  BY <1>1, <1>2, OwnerGoes
<1>6. PICK t : t = [trial EXCEPT !.stage = "Negotiating"]
  OBVIOUS
<1>7. t \in TwtTrials /\ t.id = trial.id /\ t.stage = "Negotiating"
  BY <1>1, <1>6 DEF TwtTrials, TwtStages
<1>8. Booked(t, owe, drv) /\ Reported(t, owe, drv, fifo')
  BY <1>1, <1>2, <1>7 DEF Booked, Reported, Told
<1>9. ~owe.flow /\ ~owe.barrier /\ ~owe.reply /\ ~owe.sent /\ ~owe.ack /\ drv.setup = 0 /\ drv.flow = 0 /\ ~drv.tail /\ drv.teardown # "sent"
  BY <1>1, <1>2 DEF Staged, Booked
<1>10. \A i \in DOMAIN fifo : ~IsSetup(fifo[i]) /\ ~IsAll(fifo[i]) /\ ~IsAp(fifo[i])
  BY <1>1, <1>9 DEF Reported, Told
<1>11. \/ Trial!Cancel(trial, owe, drv, "Timeout")
       \/ Trial!Cancel(t, owe, drv, IF Trial!Blocked THEN "Ota" ELSE "Explicit")
       \/ /\ UNCHANGED socket /\ trial' = t /\ owe' = [owe EXCEPT !.flow = TRUE, !.reply = TRUE]
          /\ drv' = [drv EXCEPT !.setup = trial.id]
       \/ Trial!Cancel(t, [owe EXCEPT !.barrier = TRUE], drv, "Driver")
  BY <1>6 DEF Trial!Submit
<1>12. CASE Trial!Cancel(trial, owe, drv, "Timeout")
  BY <1>1, <1>2, <1>3, <1>4, <1>5, <1>12, CancelGood
<1>13. CASE Trial!Cancel(t, owe, drv, IF Trial!Blocked THEN "Ota" ELSE "Explicit")
  BY <1>1, <1>2, <1>3, <1>4, <1>5, <1>7, <1>8, <1>13, CancelGood
<1>14. CASE Trial!Cancel(t, [owe EXCEPT !.barrier = TRUE], drv, "Driver")
  <2>1. PICK p : p = [owe EXCEPT !.barrier = TRUE]
    OBVIOUS
  <2>2. /\ p \in TwtDebts /\ p.flow = owe.flow /\ p.reply = owe.reply /\ p.sent = owe.sent /\ p.ack = owe.ack
        /\ p.ps = owe.ps /\ p.alive = owe.alive /\ p.barrier
    BY <1>1, <2>1 DEF TwtDebts
  <2>3. Booked(t, p, drv)
    BY <1>8, <2>2 DEF Booked
  <2>4. Reported(t, p, drv, fifo')
    <3>1. ASSUME NEW n, Told(t, owe, drv, n) PROVE Told(t, p, drv, n)
      BY <2>2, <3>1 DEF Told
    <3> QED BY <1>8, <3>1 DEF Reported
  <2>5. Trial!Cancel(t, p, drv, "Driver")
    BY <1>14, <2>1
  <2> QED BY <1>1, <1>2, <1>3, <1>4, <1>5, <1>7, <2>2, <2>3, <2>4, <2>5, CancelGood
<1>15. CASE /\ UNCHANGED socket /\ trial' = t /\ owe' = [owe EXCEPT !.flow = TRUE, !.reply = TRUE]
            /\ drv' = [drv EXCEPT !.setup = trial.id]
  <2>1. /\ owe' \in TwtDebts /\ owe'.flow /\ owe'.reply /\ owe'.sent = owe.sent /\ owe'.ack = owe.ack /\ owe'.barrier = owe.barrier
        /\ owe'.ps = owe.ps /\ owe'.alive = owe.alive /\ owe'.pending = owe.pending /\ owe'.failed = owe.failed
    BY <1>1, <1>15 DEF TwtDebts
  <2>2. /\ drv' \in TwtDrivers /\ drv'.setup = trial.id /\ drv'.tail = drv.tail /\ drv'.flow = drv.flow /\ drv'.teardown = drv.teardown
        /\ drv'.probe = drv.probe /\ drv'.ps = drv.ps /\ drv'.alive = drv.alive
    BY <1>1, <1>15 DEF TwtDrivers, TwtTrials
  <2>3. Booked(trial', owe', drv')
    BY <1>1, <1>7, <1>9, <1>15, <2>1, <2>2 DEF Booked
  <2>4. Reported(trial', owe', drv', fifo')
    BY <1>1, <1>2, <1>10 DEF Reported, Told
  <2>5. trial.id # 0 /\ ~owe.pending /\ ~owe.failed
    BY <1>1, <1>2 DEF Staged, Trial!Live
  <2>6. Awaited(trial', drv', fifo', overflow')
    BY <1>7, <1>15, <2>2, <2>5 DEF Awaited
  <2>7. Staged(trial', owe', probe', socket')
    BY <1>7, <1>9, <1>15, <2>1, <2>5 DEF Staged, Trial!Live
  <2>8. TwtPlaced'
    BY <1>1, <1>2, <1>4, <1>5, <2>2, NeutralPlace DEF TwtPlaced
  <2>9. TwtTyped'
    BY <1>1, <1>2, <1>5, <1>7, <1>15, <2>1, <2>2 DEF TwtTyped
  <2> QED BY <2>3, <2>4, <2>6, <2>7, <2>8, <2>9 DEF TwtGood
<1> QED BY <1>11, <1>12, <1>13, <1>14, <1>15

(* The loop's probes: each only in a trial that is live and undisturbed.   *)
LEMMA ProbesKeep == ASSUME TwtGood, world \in TwtWorlds, Trial!ServeProbes PROVE TwtGood'
<1>1. /\ TwtTyped /\ TwtPlaced /\ Booked(trial, owe, drv) /\ Reported(trial, owe, drv, fifo)
      /\ Staged(trial, owe, probe, socket) /\ Awaited(trial, drv, fifo, overflow)
      /\ trial \in TwtTrials /\ owe \in TwtDebts /\ drv \in TwtDrivers /\ pc \in [at : TwtPlaces, back : TwtBacks]
  BY DEF TwtGood, TwtTyped
<1>2. UNCHANGED <<trial, owe, fifo, overflow, request, world, flaps>> /\ pc.at = "gate" /\ Trial!Goto("hold") /\ Trial!ServeSocket /\ Trial!ServeProbe
  BY DEF Trial!ServeProbes, Trial!At
<1>3. pc' \in [at : TwtPlaces, back : TwtBacks] /\ pc'.at \in TwtNeutral
  <2>1. "hold" \in TwtPlaces /\ "hold" \in TwtNeutral
    BY DEF TwtPlaces, TwtNeutral
  <2> QED BY <1>1, <1>2, <2>1, OwnerGoes
<1>4. world.ota # "moving"
  BY <1>2, NotMoving
<1>5. /\ socket' \in {"idle", "queued", "active", "debt"}
      /\ Trial!Live(trial) \/ (socket \in {"idle", "queued"} => socket' \in {"idle", "queued"})
  BY <1>1, <1>2 DEF Trial!ServeSocket, TwtTyped, Trial!Live
<1>6. /\ drv' = drv \/ \E v \in {"none", "wait"} : drv' = [drv EXCEPT !.probe = v]
      /\ probe' \in {"none", "queued", "sent", "timer", "stuck", "done"}
      /\ drv'.probe # "none" => probe' \in {"sent", "timer", "stuck"}
      /\ Trial!Live(trial) \/ probe' = probe \/ probe' \notin {"sent", "timer", "stuck"} \/ probe \in {"sent", "timer", "stuck"}
  <2> DEFINE allowed == Trial!Undisturbed /\ trial.stage = "Active"
  <2>1. drv.probe # "none" => probe \in {"sent", "timer", "stuck"}
    BY <1>1 DEF TwtPlaced
  <2>2. allowed => Trial!Live(trial)
    BY DEF Trial!Live
  <2>3. \/ probe = "queued" /\ probe' = "none" /\ UNCHANGED drv
        \/ probe = "queued" /\ allowed /\ probe' = "sent" /\ drv' = [drv EXCEPT !.probe = "wait"]
        \/ probe = "queued" /\ allowed /\ probe' = "done" /\ UNCHANGED drv
        \/ probe = "sent" /\ drv.probe = "producing" /\ probe' \in {"timer", "stuck"} /\ UNCHANGED drv
        \/ probe = "timer" /\ drv.probe = "posted" /\ probe' = "stuck" /\ UNCHANGED drv
        \/ probe = "timer" /\ drv.probe = "posted" /\ probe' = "done" /\ drv' = [drv EXCEPT !.probe = "none"]
        \/ UNCHANGED <<probe, drv>>
    BY <1>2 DEF Trial!ServeProbe
  <2>4. [drv EXCEPT !.probe = "none"].probe = "none"
    BY <1>1 DEF TwtDrivers
  <2>5. probe \in {"none", "queued", "sent", "timer", "stuck", "done"}
    BY <1>1 DEF TwtTyped
  <2> HIDE DEF allowed
  <2> QED BY <2>1, <2>2, <2>3, <2>4, <2>5
<1>7. /\ drv' \in TwtDrivers /\ drv'.setup = drv.setup /\ drv'.tail = drv.tail /\ drv'.flow = drv.flow /\ drv'.teardown = drv.teardown
      /\ drv'.ps = drv.ps /\ drv'.alive = drv.alive
  BY <1>1, <1>6 DEF TwtDrivers
<1>8. Booked(trial, owe, drv') /\ Reported(trial, owe, drv', fifo) /\ Awaited(trial, drv', fifo, overflow)
  BY <1>1, <1>7, BooksAlike
<1>9. Staged(trial, owe, probe', socket')
  BY <1>1, <1>5, <1>6 DEF Staged
<1>10. TwtPlaced'
  BY <1>2, <1>3, <1>4, <1>6, NeutralPlace
<1>11. TwtTyped'
  BY <1>1, <1>2, <1>3, <1>5, <1>6, <1>7 DEF TwtTyped
<1> QED BY <1>2, <1>8, <1>9, <1>10, <1>11 DEF TwtGood

(* What the loop cancels before it goes on.                                *)
LEMMA LoopCancels ==
  ASSUME TwtGood, Trial!Settle \/ Trial!Booted \/ Trial!Net
  PROVE  TwtGood'
<1>1. /\ TwtTyped /\ TwtPlaced /\ Booked(trial, owe, drv) /\ Reported(trial, owe, drv, fifo)
      /\ Staged(trial, owe, probe, socket) /\ Awaited(trial, drv, fifo, overflow)
      /\ trial \in TwtTrials /\ owe \in TwtDebts /\ drv \in TwtDrivers /\ pc \in [at : TwtPlaces, back : TwtBacks]
  BY DEF TwtGood, TwtTyped
<1>2. UNCHANGED <<fifo, overflow, request, probe, world, flaps>> /\ pc.at \in {"settle", "booted", "serve"}
  BY DEF Trial!Settle, Trial!Booted, Trial!Net, Trial!Calm, Trial!At
<1>3. /\ fifo' \in Seq(TwtNews) /\ Len(fifo') <= FifoMax /\ overflow' \in BOOLEAN
      /\ request' \in {"none", "Off", "Baseline", "On"} /\ Reported(trial, owe, drv, fifo')
  BY <1>1, <1>2 DEF TwtTyped
<1>4. world.ota # "moving"
  BY <1>2, NotMoving
<1>5. /\ {"settled", "manifest", "update", "pass"} \subseteq TwtPlaces /\ {"settled", "pass"} \subseteq TwtNeutral /\ {"served", "pass"} \subseteq TwtBacks
      /\ "check" \in TwtNeutral
  BY DEF TwtPlaces, TwtNeutral, TwtBacks
<1>6. /\ \A p \in {"settled", "manifest", "update", "pass"} : Trial!Goto(p) => pc' \in [at : TwtPlaces, back : TwtBacks] /\ pc'.at = p
      /\ \A b \in {"served", "pass"} : Trial!Call(b) => pc' \in [at : TwtPlaces, back : TwtBacks] /\ pc'.at = "check"
  BY <1>1, <1>5, OwnerGoes
<1>7. \/ \E p \in {"settled", "manifest", "update", "pass"} : Trial!Goto(p) /\ \E why : Trial!Cancel(trial, owe, drv, why)
      \/ (Trial!Call("served") \/ Trial!Goto("pass")) /\ UNCHANGED <<trial, owe, drv, socket>>
      \/ Trial!Call("pass") /\ trial.stage = "Armed" /\ trial' = [trial EXCEPT !.boot = "ok"] /\ UNCHANGED <<owe, drv, socket>>
  <2>1. CASE Trial!Settle
    BY <2>1 DEF Trial!Settle
  <2>2. CASE Trial!Booted
    BY <2>2 DEF Trial!Booted
  <2>3. CASE Trial!Net
    BY <2>3 DEF Trial!Net
  <2> QED BY <2>1, <2>2, <2>3
<1>8. CASE \E p \in {"settled", "manifest", "update", "pass"} : Trial!Goto(p) /\ \E why : Trial!Cancel(trial, owe, drv, why)
  <2>1. PICK p \in {"settled", "manifest", "update", "pass"} : Trial!Goto(p) /\ \E why : Trial!Cancel(trial, owe, drv, why)
    BY <1>8
  <2>3. PICK why : Trial!Cancel(trial, owe, drv, why)
    BY <2>1
  <2>2. pc' \in [at : TwtPlaces, back : TwtBacks] /\ pc'.at \in TwtNeutral \cup {"manifest", "update"}
    BY <1>5, <1>6, <2>1
  <2> QED BY <1>1, <1>2, <1>3, <1>4, <2>2, <2>3, CancelGood
<1>9. CASE (Trial!Call("served") \/ Trial!Goto("pass")) /\ UNCHANGED <<trial, owe, drv, socket>>
  <2>1. pc' \in [at : TwtPlaces, back : TwtBacks] /\ pc'.at \in TwtNeutral
    BY <1>5, <1>6, <1>9
  <2>2. TwtPlaced'
    BY <1>1, <1>2, <1>4, <1>9, <2>1, NeutralPlace DEF TwtPlaced
  <2> QED BY <1>2, <1>3, <1>9, <2>1, <2>2, OnlyGoes
<1>10. CASE Trial!Call("pass") /\ trial.stage = "Armed" /\ trial' = [trial EXCEPT !.boot = "ok"] /\ UNCHANGED <<owe, drv, socket>>
  <2>1. pc' \in [at : TwtPlaces, back : TwtBacks] /\ pc'.at \in TwtNeutral
    BY <1>5, <1>6, <1>10
  <2>2. trial' \in TwtTrials /\ trial'.id = trial.id /\ trial'.stage = trial.stage
    BY <1>1, <1>10 DEF TwtTrials
  <2>3. Booked(trial', owe', drv') /\ Reported(trial', owe', drv', fifo') /\ Awaited(trial', drv', fifo', overflow') /\ Staged(trial', owe', probe', socket')
    BY <1>1, <1>2, <1>10, <2>2 DEF Booked, Reported, Told, Awaited, Staged, Trial!Live
  <2>4. TwtPlaced'
    BY <1>1, <1>2, <1>4, <1>10, <2>1, NeutralPlace DEF TwtPlaced
  <2>5. TwtTyped'
    BY <1>1, <1>2, <1>10, <2>1, <2>2 DEF TwtTyped
  <2> QED BY <2>3, <2>4, <2>5 DEF TwtGood
<1> QED BY <1>7, <1>8, <1>9, <1>10

(* Where the loop only goes on, and what it found before it did.           *)
LEMMA LoopGoes ==
  ASSUME TwtGood, world \in TwtWorlds, Trial!HoldOrSettle \/ Trial!HoldOrRoute \/ Trial!Route \/ Trial!Fetch \/ Trial!Moved
  PROVE  TwtGood'
<1>1. TwtTyped /\ TwtPlaced /\ pc \in [at : TwtPlaces, back : TwtBacks] /\ Staged(trial, owe, probe, socket)
  BY DEF TwtGood, TwtTyped
<1>2. UNCHANGED <<trial, owe, drv, fifo, overflow, request, probe, socket, flaps>>
  BY DEF Trial!HoldOrSettle, Trial!HoldOrRoute, Trial!Route, Trial!Fetch, Trial!Moved, Trial!Still
<1>3. request' \in {"none", "Off", "Baseline", "On"} /\ (drv'.probe # "none" => probe' \in {"sent", "timer", "stuck"})
  BY <1>1, <1>2 DEF TwtTyped, TwtPlaced
<1>4. /\ {"settle", "route", "pass", "stopping", "selecting", "serve", "moving"} \subseteq TwtPlaces /\ "served" \in TwtBacks
      /\ {"settle", "pass", "serve", "check"} \subseteq TwtNeutral
  BY DEF TwtPlaces, TwtNeutral, TwtBacks
<1>5. /\ \A p \in {"settle", "route", "pass", "stopping", "selecting", "serve", "moving"} :
           Trial!Goto(p) => pc' \in [at : TwtPlaces, back : TwtBacks] /\ pc'.at = p
      /\ Trial!Call("served") => pc' \in [at : TwtPlaces, back : TwtBacks] /\ pc'.at = "check"
  BY <1>1, <1>4, OwnerGoes
<1>6. [world EXCEPT !.ota = "idle"].ota = "idle" /\ [world EXCEPT !.radio = TRUE].ota = world.ota
  BY DEF TwtWorlds
<1>7. CASE Trial!HoldOrSettle \/ Trial!HoldOrRoute
  <2>1. pc.at # "moving" /\ \E next \in {"settle", "route"} : Trial!Hold(next)
    BY <1>7 DEF Trial!HoldOrSettle, Trial!HoldOrRoute, Trial!At
  <2>2. world'.ota # "moving"
    BY <1>6, <2>1, NotMoving DEF Trial!Hold
  <2>3. \/ Trial!Goto("pass")
        \/ ~Trial!Quit /\ (Trial!Goto("settle") \/ Trial!Goto("route"))
    BY <2>1 DEF Trial!Hold
  <2>4. CASE Trial!Goto("pass") \/ Trial!Goto("settle")
    <3>1. pc' \in [at : TwtPlaces, back : TwtBacks] /\ pc'.at \in TwtNeutral
      BY <1>4, <1>5, <2>4
    <3>2. TwtPlaced'
      BY <1>3, <2>2, <3>1, NeutralPlace
    <3> QED BY <1>2, <1>3, <3>1, <3>2, OnlyGoes
  <2>5. CASE ~Trial!Quit /\ Trial!Goto("route")
    <3>1. pc' \in [at : TwtPlaces, back : TwtBacks] /\ pc'.at = "route"
      BY <1>5, <2>5
    <3>2. TwtPlaced'
      BY <1>2, <1>3, <2>2, <2>5, <3>1 DEF TwtPlaced, Trial!Quit
    <3> QED BY <1>2, <1>3, <3>1, <3>2, OnlyGoes
  <2> QED BY <2>3, <2>4, <2>5
<1>8. CASE Trial!Route
  <2>1. pc.at = "route" /\ ~Trial!Quit
    BY <1>1, <1>8 DEF Trial!Route, Trial!At, TwtPlaced
  <2>2. world'.ota = world.ota /\ world.ota # "moving"
    BY <1>6, <1>8, <2>1, NotMoving DEF Trial!Route
  <2>3. \/ Trial!Goto("pass") \/ Trial!Goto("serve")
        \/ ~Trial!Live(trial) /\ (Trial!Goto("stopping") \/ Trial!Goto("selecting"))
    BY <1>8 DEF Trial!Route
  <2>4. CASE Trial!Goto("pass") \/ Trial!Goto("serve")
    <3>1. pc' \in [at : TwtPlaces, back : TwtBacks] /\ pc'.at \in TwtNeutral
      BY <1>4, <1>5, <2>4
    <3>2. TwtPlaced'
      BY <1>3, <2>2, <3>1, NeutralPlace
    <3> QED BY <1>2, <1>3, <3>1, <3>2, OnlyGoes
  <2>5. CASE ~Trial!Live(trial) /\ (Trial!Goto("stopping") \/ Trial!Goto("selecting"))
    <3>1. pc' \in [at : TwtPlaces, back : TwtBacks] /\ pc'.at \in {"stopping", "selecting"}
      BY <1>5, <2>5
    <3>2. TwtPlaced'
      BY <1>2, <1>3, <2>1, <2>2, <2>5, <3>1 DEF TwtPlaced, Trial!Quit
    <3> QED BY <1>2, <1>3, <3>1, <3>2, OnlyGoes
  <2> QED BY <2>3, <2>4, <2>5
<1>9. CASE Trial!Fetch
  <2>1. pc.at \in {"manifest", "update"} /\ ~Trial!Live(trial) /\ world.ota # "moving"
    BY <1>1, <1>9, NotMoving DEF Trial!Fetch, Trial!At, TwtPlaced
  <2>2. \/ (Trial!Goto("pass") \/ Trial!Call("served")) /\ world'.ota # "moving"
        \/ ~Trial!Quit /\ Trial!Goto("moving")
    BY <1>6, <1>9, <2>1 DEF Trial!Fetch
  <2>3. CASE (Trial!Goto("pass") \/ Trial!Call("served")) /\ world'.ota # "moving"
    <3>1. pc' \in [at : TwtPlaces, back : TwtBacks] /\ pc'.at \in TwtNeutral
      BY <1>4, <1>5, <2>3
    <3>2. TwtPlaced'
      BY <1>3, <2>3, <3>1, NeutralPlace
    <3> QED BY <1>2, <1>3, <3>1, <3>2, OnlyGoes
  <2>4. CASE ~Trial!Quit /\ Trial!Goto("moving")
    <3>1. pc' \in [at : TwtPlaces, back : TwtBacks] /\ pc'.at = "moving"
      BY <1>5, <2>4
    <3>2. TwtPlaced'
      BY <1>2, <1>3, <2>1, <2>4, <3>1 DEF TwtPlaced, Trial!Quit
    <3> QED BY <1>2, <1>3, <3>1, <3>2, OnlyGoes
  <2> QED BY <2>2, <2>3, <2>4
<1>10. CASE Trial!Moved
  <2>1. world'.ota # "moving" /\ Trial!Goto("pass")
    BY <1>6, <1>10 DEF Trial!Moved
  <2>2. pc' \in [at : TwtPlaces, back : TwtBacks] /\ pc'.at \in TwtNeutral
    BY <1>4, <1>5, <2>1
  <2>3. TwtPlaced'
    BY <1>3, <2>1, <2>2, NeutralPlace
  <2> QED BY <1>2, <1>3, <2>2, <2>3, OnlyGoes
<1> QED BY <1>7, <1>8, <1>9, <1>10

(* The start of a pass, until a scan fault.                                *)
LEMMA PassKeeps == ASSUME TwtGood, ~world.fault, Trial!Pass \/ Trial!Bootstrap PROVE TwtGood'
<1>1. /\ TwtTyped /\ TwtPlaced /\ Booked(trial, owe, drv) /\ Reported(trial, owe, drv, fifo)
      /\ Staged(trial, owe, probe, socket) /\ Awaited(trial, drv, fifo, overflow)
      /\ trial \in TwtTrials /\ owe \in TwtDebts /\ drv \in TwtDrivers /\ pc \in [at : TwtPlaces, back : TwtBacks]
  BY DEF TwtGood, TwtTyped
<1>2. UNCHANGED <<owe, drv, fifo, overflow, request, probe, socket, world, flaps>> /\ pc.at \in {"pass", "served"}
  BY DEF Trial!Pass, Trial!Bootstrap, Trial!Calm, Trial!At
<1>3. world.ota # "moving"
  BY <1>2, NotMoving
<1>4. /\ {"gate", "booted", "pass"} \subseteq TwtBacks /\ "pass" \in TwtPlaces /\ {"pass", "check"} \subseteq TwtNeutral
  BY DEF TwtPlaces, TwtNeutral, TwtBacks
<1>5. Trial!Call("gate") \/ Trial!Call("booted") \/ Trial!Call("pass") \/ Trial!Goto("pass")
  BY <1>2 DEF Trial!Pass, Trial!Bootstrap
<1>6. pc' \in [at : TwtPlaces, back : TwtBacks] /\ pc'.at \in TwtNeutral
  BY <1>1, <1>4, <1>5, OwnerGoes
<1>7. TwtPlaced'
  BY <1>1, <1>2, <1>3, <1>6, NeutralPlace DEF TwtPlaced
<1>8. trial' = trial \/ (trial.stage = "Armed" /\ trial' = [trial EXCEPT !.boot = "tried"])
  BY DEF Trial!Pass, Trial!Bootstrap
<1>9. trial' \in TwtTrials /\ trial'.id = trial.id /\ trial'.stage = trial.stage
  BY <1>1, <1>8 DEF TwtTrials
<1>10. Booked(trial', owe', drv') /\ Reported(trial', owe', drv', fifo') /\ Awaited(trial', drv', fifo', overflow') /\ Staged(trial', owe', probe', socket')
  BY <1>1, <1>2, <1>9 DEF Booked, Reported, Told, Awaited, Staged, Trial!Live
<1>11. TwtTyped'
  BY <1>1, <1>2, <1>6, <1>9 DEF TwtTyped
<1> QED BY <1>7, <1>10, <1>11 DEF TwtGood

(* The radio stopped, or moved to another network: its link was the flow's. *)
LEMMA DropKeeps == ASSUME TwtGood, world \in TwtWorlds, ~world.fault, Trial!Stop \/ Trial!Select PROVE TwtGood'
<1>1. /\ TwtTyped /\ TwtPlaced /\ Booked(trial, owe, drv) /\ Reported(trial, owe, drv, fifo)
      /\ Staged(trial, owe, probe, socket) /\ Awaited(trial, drv, fifo, overflow)
      /\ trial \in TwtTrials /\ owe \in TwtDebts /\ drv \in TwtDrivers /\ pc \in [at : TwtPlaces, back : TwtBacks]
  BY DEF TwtGood, TwtTyped
<1>2. /\ UNCHANGED <<trial, owe, request, probe, socket, flaps>> /\ pc.at \in {"stopping", "selecting"} /\ Trial!Goto("pass")
      /\ \E on \in BOOLEAN : Trial!Drop(on)
  BY DEF Trial!Stop, Trial!Select, Trial!At
<1>3. PICK on \in BOOLEAN : Trial!Drop(on)
  BY <1>2
<1>4. ~Trial!Live(trial) /\ ~Trial!Quit
  BY <1>1, <1>2 DEF TwtPlaced
<1>5. ~owe.flow /\ ~owe.ps /\ ~owe.barrier /\ ~owe.alive
  BY <1>1, <1>4 DEF Staged, Trial!Quit, Trial!Debt
<1>6. drv.setup = 0 /\ drv.flow = 0
  BY <1>1, <1>5 DEF Booked
<1>7. drv' = [drv EXCEPT !.flow = 0]
  BY <1>3 DEF Trial!Drop
<1>8. drv' = drv
  BY <1>1, <1>6, <1>7 DEF TwtDrivers
<1>9. world'.ota = world.ota /\ world.ota # "moving"
  <2>1. world' = [world EXCEPT !.link = FALSE, !.radio = on]
    BY <1>3 DEF Trial!Drop
  <2> QED BY <1>2, <2>1, NotMoving DEF TwtWorlds
<1>10. pc' \in [at : TwtPlaces, back : TwtBacks] /\ pc'.at \in TwtNeutral
  <2>1. "pass" \in TwtPlaces /\ "pass" \in TwtNeutral
    BY DEF TwtPlaces, TwtNeutral, TwtBacks
  <2> QED BY <1>1, <1>2, <2>1, OwnerGoes
<1>11. TwtPlaced'
  BY <1>1, <1>2, <1>8, <1>9, <1>10, NeutralPlace DEF TwtPlaced
<1>12. /\ fifo' \in Seq(TwtNews) /\ Len(fifo') <= FifoMax /\ overflow' \in BOOLEAN
       /\ Reported(trial, owe, drv, fifo')
  <2>1. CASE UNCHANGED <<fifo, overflow>>
    BY <1>1, <2>1 DEF TwtTyped
  <2>2. CASE Trial!Post(Trial!Disconnect)
    <3>1. Trial!Disconnect \in TwtNews /\ Ends(Trial!Disconnect) /\ ~IsSetup(Trial!Disconnect) /\ ~IsAll(Trial!Disconnect) /\ ~IsAp(Trial!Disconnect)
      BY DEF Trial!Disconnect, TwtNews, Ends, IsSetup, IsAll, IsAp
    <3> QED BY <1>7, <1>8, <2>2, <3>1, FlowLost
  <2> QED BY <1>3, <2>1, <2>2 DEF Trial!Drop
<1>13. Awaited(trial, drv, fifo', overflow')
  BY <1>4 DEF Awaited, Trial!Live
<1>14. TwtTyped'
  BY <1>1, <1>2, <1>8, <1>10, <1>12 DEF TwtTyped
<1> QED BY <1>1, <1>2, <1>8, <1>11, <1>12, <1>13, <1>14 DEF TwtGood

(* The world about a trial; a scan fault is for the rest of the boot.      *)
LEMMA WorldGoes ==
  ASSUME world \in TwtWorlds, Trial!Next
  PROVE  world' \in TwtWorlds /\ (world.fault => world'.fault) /\ (world'.fault => world.fault \/ ScanFaults)
<1>1. \/ UNCHANGED world
      \/ \E b \in BOOLEAN, o \in {"idle", "asked", "moving"} :
           \/ world' = [world EXCEPT !.locked = ~@] \/ world' = [world EXCEPT !.ota = o]
           \/ world' = [world EXCEPT !.link = b] \/ world' = [world EXCEPT !.radio = b]
           \/ world' = [world EXCEPT !.link = FALSE, !.radio = b]
      \/ ScanFaults /\ world' = [world EXCEPT !.fault = TRUE]
  <2>1. CASE Trial!Owner
    <3>1. CASE Trial!Pass \/ Trial!ServeProbes \/ Trial!Settle \/ Trial!Net \/ Trial!Bootstrap \/ Trial!Booted \/ Trial!Check \/ Trial!Overflow \/ Trial!OnSetup \/ Trial!OnDisconnect
               \/ Trial!OnTeardown \/ Trial!Drain \/ Trial!Serve \/ Trial!Dispatch \/ Trial!Keepalive \/ Trial!Submit
      BY <3>1 DEF Trial!Pass, Trial!ServeProbes, Trial!Settle, Trial!Net, Trial!Bootstrap, Trial!Booted, Trial!Check, Trial!Overflow, Trial!OnSetup, Trial!OnDisconnect, Trial!OnTeardown, Trial!Take,
                  Trial!Drain, Trial!Serve, Trial!Dispatch, Trial!Keepalive, Trial!Submit, Trial!Calm
    <3>2. CASE Trial!HoldOrSettle \/ Trial!HoldOrRoute
      BY <3>2 DEF Trial!HoldOrSettle, Trial!HoldOrRoute, Trial!Hold
    <3>3. CASE Trial!Route
      BY <3>3 DEF Trial!Route
    <3>4. CASE Trial!Fetch \/ Trial!Moved
      BY <3>4 DEF Trial!Fetch, Trial!Moved
    <3>5. CASE Trial!Stop \/ Trial!Select
      BY <3>5 DEF Trial!Stop, Trial!Select, Trial!Drop
    <3> QED BY <2>1, <3>1, <3>2, <3>3, <3>4, <3>5 DEF Trial!Owner
  <2>2. CASE Trial!Driver
    BY <2>2 DEF Trial!Driver, Trial!Reply, Trial!TeardownDone, Trial!CallbackReturns, Trial!ApTeardown, Trial!LinkLost, Trial!LinkUp, Trial!ScanFault, Trial!ProbeAnswers, Trial!TimerTask,
                Trial!SocketCloses
  <2>3. CASE (\E mode \in Modes : Trial!Request(mode)) \/ Trial!RequestProbe \/ Trial!RequestSocket \/ Trial!RequestOta \/ Trial!Tick
    BY <2>3 DEF Trial!Request, Trial!RequestProbe, Trial!RequestSocket, Trial!RequestOta, Trial!Tick
  <2>4. CASE Trial!Lock
    BY <2>4 DEF Trial!Lock
  <2> QED BY <2>1, <2>2, <2>3, <2>4 DEF Trial!Next
<1> QED BY <1>1 DEF TwtWorlds

(* Every step of a trial.                                                  *)
LEMMA TwtSteps == ASSUME TwtInv, Trial!Next PROVE TwtInv'
<1>1. world \in TwtWorlds /\ world' \in TwtWorlds /\ (world.fault => world'.fault)
  BY WorldGoes DEF TwtInv
<1>2. CASE world'.fault
  BY <1>1, <1>2 DEF TwtInv
<1>3. CASE ~world'.fault
  <2>1. ~world.fault /\ TwtGood
    BY <1>1, <1>3 DEF TwtInv
  <2>2. CASE Trial!Owner
    <3>1. CASE Trial!Pass \/ Trial!Bootstrap
      BY <1>1, <2>1, <3>1, PassKeeps DEF TwtInv
    <3>2. CASE Trial!ServeProbes
      BY <1>1, <2>1, <3>2, ProbesKeep DEF TwtInv
    <3>3. CASE Trial!HoldOrSettle \/ Trial!HoldOrRoute \/ Trial!Route \/ Trial!Fetch \/ Trial!Moved
      BY <1>1, <2>1, <3>3, LoopGoes DEF TwtInv
    <3>4. CASE Trial!Settle \/ Trial!Booted \/ Trial!Net
      BY <1>1, <2>1, <3>4, LoopCancels DEF TwtInv
    <3>5. CASE Trial!Stop \/ Trial!Select
      BY <1>1, <2>1, <3>5, DropKeeps DEF TwtInv
    <3>6. CASE Trial!Check
      BY <1>1, <2>1, <3>6, CheckKeeps DEF TwtInv
    <3>7. CASE Trial!Overflow
      BY <1>1, <2>1, <3>7, OverflowKeeps DEF TwtInv
    <3>8. CASE Trial!OnSetup
      BY <1>1, <2>1, <3>8, OnSetupKeeps DEF TwtInv
    <3>9. CASE Trial!OnDisconnect
      BY <1>1, <2>1, <3>9, OnDisconnectKeeps DEF TwtInv
    <3>10. CASE Trial!OnTeardown
      BY <1>1, <2>1, <3>10, OnTeardownKeeps DEF TwtInv
    <3>11. CASE Trial!Drain
      BY <1>1, <2>1, <3>11, DrainGood DEF TwtInv
    <3>12. CASE Trial!Serve
      BY <1>1, <2>1, <3>12, ServeKeeps DEF TwtInv
    <3>13. CASE Trial!Dispatch
      BY <1>1, <2>1, <3>13, DispatchKeeps DEF TwtInv
    <3>14. CASE Trial!Keepalive
      BY <1>1, <2>1, <3>14, KeepaliveKeeps DEF TwtInv
    <3>15. CASE Trial!Submit
      BY <1>1, <2>1, <3>15, SubmitKeeps DEF TwtInv
    <3> QED BY <2>2, <3>1, <3>2, <3>3, <3>4, <3>5, <3>6, <3>7, <3>8, <3>9, <3>10, <3>11, <3>12, <3>13, <3>14, <3>15 DEF Trial!Owner
  <2>3. CASE Trial!Driver
    BY <1>1, <1>3, <2>1, <2>3, DriverKeeps DEF TwtInv
  <2>4. CASE (\E mode \in Modes : Trial!Request(mode)) \/ Trial!RequestProbe \/ Trial!RequestSocket \/ Trial!Lock \/ Trial!RequestOta \/ Trial!Tick
    BY <1>1, <2>1, <2>4, OthersKeep DEF TwtInv
  <2> QED BY <2>2, <2>3, <2>4 DEF Trial!Next
<1> QED BY <1>2, <1>3

LEMMA TwtRests == ASSUME TwtInv, UNCHANGED Trial!vars PROVE TwtInv'
BY DEF TwtInv, TwtGood, TwtTyped, TwtPlaced, Trial!Quit, Trial!vars

LEMMA TwtStarts == ASSUME Trial!Init PROVE TwtInv
<1>1. pc = [at |-> "pass", back |-> "gate"] /\ trial = [id |-> 0, mode |-> "Off", stage |-> "Off", boot |-> "no"]
  BY DEF Trial!Init
<1>2. PICK wanted \in BOOLEAN :
        owe = [flow |-> FALSE, reply |-> FALSE, sent |-> FALSE, ack |-> FALSE,
               barrier |-> FALSE, ps |-> FALSE, alive |-> FALSE, wanted |-> wanted, tries |-> 0,
               pending |-> FALSE, failed |-> FALSE, hold |-> "none", clock |-> "off"]
  BY DEF Trial!Init
<1>3. drv = [setup |-> 0, flow |-> 0, teardown |-> "none", tail |-> FALSE,
             probe |-> "none", ps |-> "user", alive |-> FALSE]
  BY DEF Trial!Init
<1>4. /\ fifo = <<>> /\ overflow = FALSE /\ request = "none" /\ probe = "none" /\ socket = "idle" /\ flaps = 0
      /\ world = [locked |-> TRUE, ota |-> "idle", link |-> FALSE, radio |-> FALSE, fault |-> FALSE]
  BY DEF Trial!Init
<1>5. world \in TwtWorlds
  BY <1>4 DEF TwtWorlds
<1>6. pc \in [at : TwtPlaces, back : TwtBacks] /\ trial \in TwtTrials
  BY <1>1, TrialConstants DEF TwtPlaces, TwtBacks, TwtTrials, TwtStages
<1>7. owe \in TwtDebts
  BY <1>2 DEF TwtDebts
<1>8. drv \in TwtDrivers
  BY <1>3, TrialConstants DEF TwtDrivers
<1>9. fifo \in Seq(TwtNews) /\ Len(fifo) = 0 /\ DOMAIN fifo = {}
  BY <1>4
<1>10. TwtTyped
  <2>1. Len(fifo) <= FifoMax
    BY <1>9, TrialConstants
  <2>2. flaps \in 0 .. MaxFlaps
    BY <1>4, TrialConstants
  <2>3. /\ overflow \in BOOLEAN /\ request \in {"none", "Off", "Baseline", "On"} /\ socket \in {"idle", "queued", "active", "debt"}
        /\ probe \in {"none", "queued", "sent", "timer", "stuck", "done"}
    BY <1>4
  <2> QED BY <1>6, <1>7, <1>8, <1>9, <2>1, <2>2, <2>3 DEF TwtTyped
<1>11. Booked(trial, owe, drv)
  BY <1>2, <1>3 DEF Booked
<1>12. Reported(trial, owe, drv, fifo)
  BY <1>9 DEF Reported
<1>13. Awaited(trial, drv, fifo, overflow) /\ Staged(trial, owe, probe, socket)
  BY <1>1, <1>2, <1>4 DEF Awaited, Staged, Trial!Live, Trial!Debt
<1>14. TwtPlaced
  BY <1>1, <1>3, <1>4 DEF TwtPlaced
<1> QED BY <1>5, <1>10, <1>11, <1>12, <1>13, <1>14 DEF TwtInv, TwtGood

(* With the books right, a dead trial whose cleanup is through has left    *)
(* the driver nothing, and the owner stops the radio only for such a one.  *)
LEMMA TwtKeeps == ASSUME TwtGood PROVE Trial!TrialIsSafe
<1>1. /\ TwtTyped /\ TwtPlaced /\ Booked(trial, owe, drv) /\ Staged(trial, owe, probe, socket) /\ Awaited(trial, drv, fifo, overflow)
      /\ trial \in TwtTrials /\ owe \in TwtDebts /\ drv \in TwtDrivers
  BY DEF TwtGood, TwtTyped
<1>2. Trial!TypeOK
  BY <1>1 DEF TwtTyped, Trial!TypeOK, TwtTrials, TwtStages, TwtDebts
<1>3. Trial!DebtPaid
  <2>1. SUFFICES ASSUME ~Trial!Live(trial), ~Trial!Quit PROVE Trial!Quiet /\ drv.flow = 0 /\ drv.ps = "user" /\ ~drv.alive
    BY DEF Trial!DebtPaid
  <2>2. ~Trial!Debt(owe) /\ probe \notin {"sent", "timer", "stuck"} /\ socket \in {"idle", "queued"}
    BY <1>1, <2>1 DEF Staged, Trial!Quit
  <2>3. drv.setup = 0 /\ drv.flow = 0 /\ drv.teardown # "sent" /\ ~drv.tail /\ drv.ps = "user" /\ ~drv.alive
    BY <1>1, <2>2 DEF Booked, Trial!Debt
  <2>4. drv.teardown = "none" /\ drv.probe = "none"
    BY <1>1, <2>2, <2>3 DEF TwtDrivers, TwtPlaced
  <2> QED BY <2>2, <2>3, <2>4 DEF Trial!Quiet
<1>4. Trial!RadioQuiet
  BY <1>1, <1>3 DEF Trial!RadioQuiet, Trial!At, TwtPlaced, Trial!DebtPaid
<1>5. Trial!ActiveIsGranted
  <2>1. SUFFICES ASSUME trial.stage = "Active", drv.flow # trial.id, ~overflow PROVE fifo # <<>>
    BY <1>1 DEF Trial!ActiveIsGranted
  <2>2. drv.setup = 0
    BY <1>1, <2>1 DEF Booked, Staged, Trial!Live
  <2>3. \E i \in DOMAIN fifo : Ends(fifo[i])
    BY <1>1, <2>1, <2>2 DEF Awaited
  <2> QED BY <2>3
<1> QED BY <1>2, <1>3, <1>4, <1>5 DEF Trial!TrialIsSafe

(* The board's steps move a trial as its own steps do, or leave it.        *)
LEMMA TrialMoves ==
  ASSUME TwtInv, [BoardNext]_<<part, vars, trialVars, ownerVars>>
  PROVE  TwtInv' /\ (world'.fault => world.fault \/ ScanFaults)
<1>1. CASE Trial!Next
  BY <1>1, TwtSteps, WorldGoes DEF TwtInv
<1>2. CASE UNCHANGED trialVars
  <2>1. UNCHANGED Trial!vars /\ UNCHANGED world
    BY <1>2 DEF trialVars, Trial!vars
  <2> QED BY <2>1, TwtRests
<1>3. CASE UNCHANGED <<part, vars, trialVars, ownerVars>>
  BY <1>2, <1>3
<1> QED BY <1>1, <1>2, <1>3 DEF BoardNext

(* Until a cancelled scan is never done (drainWifiScan), and whether or    *)
(* not it ever happens: the radio is not stopped nor an update transferred *)
(* with a callback of a trial outstanding, a trial that is over with       *)
(* nothing pending has left the driver nothing, and an active one has the  *)
(* flow granted to it or news of its end under way (serviceTwtTrial).      *)
THEOREM TrialsUntilFault == BoardSpec => [](world.fault \/ TrialIsSafe)
<1>1. BoardInit => TwtInv
  BY TwtStarts DEF BoardInit
<1>2. TwtInv /\ [BoardNext]_<<part, vars, trialVars, ownerVars>> => TwtInv'
  BY TrialMoves
<1>3. TwtInv => world.fault \/ TrialIsSafe
  BY TwtKeeps DEF TwtInv, TrialIsSafe
<1> QED BY <1>1, <1>2, <1>3, PTL DEF BoardSpec

(* And where the driver always ends a cancelled scan, forever.             *)
THEOREM TrialsAreSafe == ASSUME ~ScanFaults PROVE BoardSpec => []TrialIsSafe
<1> DEFINE Faultless == TwtInv /\ ~world.fault
<1>1. BoardInit => Faultless
  <2>1. Trial!Init => world = [locked |-> TRUE, ota |-> "idle", link |-> FALSE, radio |-> FALSE, fault |-> FALSE]
    BY DEF Trial!Init
  <2>2. Trial!Init => ~world.fault
    BY <2>1
  <2> QED BY <2>2, TwtStarts DEF BoardInit
<1>2. Faultless /\ [BoardNext]_<<part, vars, trialVars, ownerVars>> => Faultless'
  BY TrialMoves
<1>3. Faultless => TrialIsSafe
  BY TwtKeeps DEF TwtInv, TrialIsSafe
<1> HIDE DEF Faultless
<1> QED BY <1>1, <1>2, <1>3, PTL DEF BoardSpec
=============================================================================
