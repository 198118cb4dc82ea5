---------------------------- MODULE StorageLease ----------------------------
(***************************************************************************)
(* The lease under which tasks use NVS, NAND and the gauge, and the        *)
(* admission under which the updater starts anything (StorageAdmission,    *)
(* tryStorageLease, tryNetworkStartLease and releaseStorageLease of        *)
(* main/ota/mosaico_ota.cpp): one recursive mutex, taken without waiting,  *)
(* and a depth that tells leases from admissions.                          *)
(*                                                                         *)
(* Every guard is scoped to a block of the task that took it, so what the  *)
(* task inside the mutex holds is a stack; storageLeaseDepth counts the    *)
(* leases in it.                                                           *)
(***************************************************************************)
EXTENDS Naturals, Sequences

CONSTANTS Tasks, NoTask,
          MaxNesting  \* guards a task holds at once

ASSUME StorageLeaseAssumption == NoTask \notin Tasks /\ MaxNesting \in Nat \ {0}

(* A StorageAdmission, and what the two kinds of lease push.               *)
Guards == {"admission", "storage", "radio"}

VARIABLES holder,      \* the task that has storageLeaseMutex
          held,        \* its guards, the innermost last
          owner,       \* storageLeaseOwner
          working,     \* a flag of busy() that only admitted calls set
          booting      \* bootPending, set and cleared by the health gate

vars == <<holder, held, owner, working, booting>>

Leases(h)    == {i \in DOMAIN h : h[i] # "admission"}
Innermost(h) == h[Len(h)]
Outer(h)     == SubSeq(h, 1, Len(h) - 1)
Busy         == working \/ booting

(* try_lock of the recursive mutex.                                        *)
Free(t) == holder \in {t, NoTask}

Init ==
  /\ holder = NoTask /\ held = <<>> /\ owner = NoTask
  /\ working = FALSE /\ booting = FALSE

Push(t, kind) ==
  /\ Free(t) /\ Len(held) < MaxNesting
  /\ holder' = t /\ held' = Append(held, kind)
  /\ UNCHANGED <<working, booting>>

(* The mutex goes with the outermost guard.                                *)
Pop(t) ==
  /\ holder = t /\ held # <<>>
  /\ held' = Outer(held)
  /\ holder' = IF Outer(held) = <<>> THEN NoTask ELSE t
  /\ UNCHANGED <<working, booting>>

(* A slip: the mutex alone keeps the updater out, though it is recursive.  *)
AdmitInsideLease(t) == Push(t, "admission") /\ UNCHANGED owner

(* StorageAdmission that holds; one that does not changes nothing.         *)
Admit(t) == Leases(held) = {} /\ Push(t, "admission") /\ UNCHANGED owner

LeaveAdmission(t) ==
  Pop(t) /\ Innermost(held) = "admission" /\ UNCHANGED owner

(* What admitted calls do: requests, checks, downloads, installations and  *)
(* restarts begin, go on and end.                                          *)
Work(t) ==
  /\ holder = t /\ held # <<>> /\ Innermost(held) = "admission"
  /\ working' = ~working
  /\ UNCHANGED <<holder, held, owner, booting>>

(* fail() and finishCheck() end it with no admission.                      *)
WorkEnds ==
  /\ working /\ working' = FALSE
  /\ UNCHANGED <<holder, held, owner, booting>>

(* healthPoll has no admission either.                                     *)
Health ==
  /\ booting' = ~booting
  /\ UNCHANGED <<holder, held, owner, working>>

TryStorageLease(t) == ~Busy /\ Push(t, "storage") /\ owner' = t

(* A queued update needs the radio, so this one does not ask for busy().   *)
TryNetworkStartLease(t) == Push(t, "radio") /\ owner' = t

(* A slip: the owner is forgotten by the first of several releases.        *)
DisownEarly(t) == NoTask
(* The owner once a lease has been returned.                               *)
Disown(t) == IF Leases(Outer(held)) = {} THEN NoTask ELSE t

(* Returned by its owner only.                                             *)
ReleaseStorageLease(t) ==
  /\ owner = t /\ Pop(t) /\ Innermost(held) # "admission"
  /\ owner' = Disown(t)

Next ==
  \/ \E t \in Tasks : \/ Admit(t)
                      \/ LeaveAdmission(t)
                      \/ Work(t)
                      \/ TryStorageLease(t)
                      \/ TryNetworkStartLease(t)
                      \/ ReleaseStorageLease(t)
  \/ WorkEnds
  \/ Health

Spec == Init /\ [][Next]_vars

-----------------------------------------------------------------------------
(* Types; a task is inside the mutex exactly while it holds a guard.       *)
TypeOK ==
  /\ holder \in Tasks \cup {NoTask} /\ owner \in Tasks \cup {NoTask}
  /\ held \in Seq(Guards) /\ Len(held) <= MaxNesting
  /\ working \in BOOLEAN /\ booting \in BOOLEAN
  /\ holder = NoTask <=> held = <<>>

(* While a task has the storage for itself the updater starts nothing,     *)
(* not even from within that task (the depth test of StorageAdmission, the *)
(* busy test of tryStorageLease).                                          *)
LeaseExcludesUpdate == (\E i \in DOMAIN held : held[i] = "storage") => ~working

(* The task that owns a lease is the one inside the mutex, and stays its   *)
(* owner to the last release: no task unlocks for another, and a lease     *)
(* still in use is never orphaned (releaseStorageLease).                   *)
OwnerIsHolder == IF Leases(held) = {} THEN owner = NoTask ELSE owner = holder

(* The strengthening: no admission is nested in a lease.                   *)
Outside(h) ==
  \A i, j \in DOMAIN h : i < j /\ h[j] = "admission" => h[i] = "admission"
AdmissionsOutside == Outside(held)

LeaseInv == TypeOK /\ LeaseExcludesUpdate /\ OwnerIsHolder /\ AdmissionsOutside
=============================================================================
