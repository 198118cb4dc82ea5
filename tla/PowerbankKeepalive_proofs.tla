---------------------- MODULE PowerbankKeepalive_proofs ----------------------
(***************************************************************************)
(* Proofs about the keepalive, for every period, duration, lease and lag:  *)
(* off wins over what was under way, and no pulse comes early.             *)
(*                                                                         *)
(* OffWins is not inductive.  What it rests on: a schedule that is on has  *)
(* its worker; the copies of the generation that are still current bear    *)
(* out what their owners assume (the pulse's, that the schedule is on; the *)
(* request's, that no Off came after it); and an Off also inhibits, which  *)
(* is what stops a service that had decided to start.                      *)
(***************************************************************************)
EXTENDS PowerbankKeepalive, TLAPS

CopiesTrue ==
  /\ On => created
  /\ ~(leased /\ automatic)
  /\ "pulse" \in current => On
  /\ stopped => inhibited /\ "request" \notin current

(* The slot is far enough from the last pulse, seen from the worker's own  *)
(* now; while a pulse is being accounted for its slot is not set yet.      *)
Counting == /\ automatic \/ (leased /\ leaseLeft + lag > 0)
            /\ ~(pc = "complete" /\ "pulse" \in current)

SlotFar ==
  /\ Counting => quiet = Period \/ quiet + dueIn >= Period
  /\ "pulse" \in current /\ pc # "complete" => quiet = Period

Switch == StateMatches /\ NeverNested /\ (stopped => ~On) /\ CopiesTrue

IInv == TypeOK /\ Switch /\ SlotFar

LEMMA ConstantsType ==
  /\ Period \in Nat /\ Period > 0 /\ Lease \in Nat /\ Lease > 0
  /\ Duration \in Nat /\ Fresh \in Nat /\ MaxLag \in Nat
  BY PowerbankKeepaliveAssumption

LEMMA InitInv == Init => IInv
<1> SUFFICES ASSUME Init PROVE IInv
  OBVIOUS
<1> USE ConstantsType DEF Init
<1>1. Flags
  BY DEF Flags
<1>2. Times
  BY DEF Times, Forever
<1>3. Names
  BY DEF Names, Active
<1>4. Switch
  BY DEF Switch, StateMatches, NeverNested, CopiesTrue, On, Active
<1>5. SlotFar
  BY DEF SlotFar, Counting
<1> QED
  BY <1>1, <1>2, <1>3, <1>4, <1>5 DEF IInv, TypeOK

(* Every step keeps the types: the flags,                                  *)
LEMMA FlagsKept == Flags /\ [Next]_vars => Flags'
<1> SUFFICES ASSUME Flags, [Next]_vars PROVE Flags'
  OBVIOUS
<1> USE ConstantsType DEF Flags, schedule, policy, callers, locals, outside,
       EnabledAt, TurnOff, TurnOn, WorkerAt, LeaveScope
<1>1. CASE Off
  BY <1>1 DEF Off
<1>2. CASE RequestInvalid
  BY <1>2 DEF RequestInvalid
<1>3. CASE RequestBegins
  BY <1>3 DEF RequestBegins
<1>4. CASE RequestReserves
  BY ZenonT(60), <1>4 DEF RequestReserves
<1>5. CASE RequestLacksTask
  BY <1>5 DEF RequestLacksTask
<1>6. CASE RequestInstalls
  BY ZenonT(60), <1>6 DEF RequestInstalls
<1>7. CASE ServiceLacksTask
  BY <1>7 DEF ServiceLacksTask
<1>8. CASE ServiceStarts
  BY <1>8 DEF ServiceStarts, Desired
<1>9. CASE Loop
  BY <1>9 DEF Loop
<1>10. CASE ReadSupply
  BY <1>10 DEF ReadSupply, Desired
<1>11. CASE ReadGates
  BY <1>11 DEF ReadGates
<1>12. CASE LeaseExpires
  BY <1>12 DEF LeaseExpires, Expires
<1>13. CASE TakeSlot
  BY <1>13 DEF TakeSlot, Expires, Due, Deadline
<1>14. CASE NothingDue
  BY <1>14 DEF NothingDue, Expires, Due, Deadline
<1>15. CASE Wake
  BY ZenonT(60), <1>15 DEF Wake
<1>16. CASE Acquire
  BY <1>16 DEF Acquire
<1>17. CASE AcquireFails
  BY <1>17 DEF AcquireFails, PmFailure
<1>18. CASE FirstAllowed
  BY <1>18 DEF FirstAllowed, PulseAllowed
<1>19. CASE Publish
  BY ZenonT(60), <1>19 DEF Publish
<1>20. CASE NextSlice
  BY <1>20 DEF NextSlice
<1>21. CASE Slice
  BY <1>21 DEF Slice, PulseAllowed
<1>22. CASE WorkDone
  BY <1>22 DEF WorkDone
<1>23. CASE Release
  BY <1>23 DEF Release
<1>24. CASE ReleaseFails
  BY <1>24 DEF ReleaseFails, PmFailure
<1>25. CASE Account
  BY ZenonT(60), <1>25 DEF Account
<1>26. CASE Complete
  BY <1>26 DEF Complete
<1>27. CASE Tick
  BY <1>27 DEF Tick, Down
<1>28. CASE GatesMove
  BY <1>28 DEF GatesMove
<1>29. ASSUME NEW wanted \in BOOLEAN, NEW blocked \in BOOLEAN, ServiceDecides(wanted, blocked)
      PROVE  Flags'
  BY <1>29 DEF ServiceDecides
<1>30. ASSUME NEW supply \in BOOLEAN, ObserveSupply(supply)
      PROVE  Flags'
  BY ZenonT(60), <1>30 DEF ObserveSupply
<1>31. CASE UNCHANGED vars
  BY <1>31 DEF vars
<1> QED
  BY <1>1, <1>2, <1>3, <1>4, <1>5, <1>6, <1>7, <1>8, <1>9, <1>10, <1>11, <1>12, <1>13, <1>14, <1>15, <1>16, <1>17, <1>18, <1>19, <1>20, <1>21, <1>22, <1>23, <1>24, <1>25, <1>26, <1>27, <1>28, <1>29, <1>30, <1>31 DEF Next, Console, Service, Worker

(* the states and program points,                                          *)
LEMMA NamesKept == TypeOK /\ [Next]_vars => Names'
<1> SUFFICES ASSUME TypeOK, [Next]_vars PROVE Names'
  OBVIOUS
<1> USE ConstantsType DEF TypeOK, Names, Active, schedule, policy, callers, locals, outside,
       EnabledAt, TurnOff, TurnOn, WorkerAt, LeaveScope
<1>1. CASE Off
  BY <1>1 DEF Off
<1>2. CASE RequestInvalid
  BY <1>2 DEF RequestInvalid
<1>3. CASE RequestBegins
  BY <1>3 DEF RequestBegins
<1>4. CASE RequestReserves
  BY <1>4 DEF RequestReserves
<1>5. CASE RequestLacksTask
  BY <1>5 DEF RequestLacksTask
<1>6. CASE RequestInstalls
  BY <1>6 DEF RequestInstalls
<1>7. CASE ServiceLacksTask
  BY <1>7 DEF ServiceLacksTask
<1>8. CASE ServiceStarts
  BY <1>8 DEF ServiceStarts, Desired
<1>9. CASE Loop
  BY <1>9 DEF Loop
<1>10. CASE ReadSupply
  BY <1>10 DEF ReadSupply, Desired
<1>11. CASE ReadGates
  BY <1>11 DEF ReadGates
<1>12. CASE LeaseExpires
  BY <1>12 DEF LeaseExpires, Expires
<1>13. CASE TakeSlot
  BY <1>13 DEF TakeSlot, Expires, Due, Deadline
<1>14. CASE NothingDue
  BY <1>14 DEF NothingDue, Expires, Due, Deadline
<1>15. CASE Wake
  BY <1>15 DEF Wake
<1>16. CASE Acquire
  BY <1>16 DEF Acquire
<1>17. CASE AcquireFails
  BY <1>17 DEF AcquireFails, PmFailure
<1>18. CASE FirstAllowed
  BY <1>18 DEF FirstAllowed, PulseAllowed
<1>19. CASE Publish
  BY <1>19 DEF Publish
<1>20. CASE NextSlice
  BY <1>20 DEF NextSlice
<1>21. CASE Slice
  BY <1>21 DEF Slice, PulseAllowed
<1>22. CASE WorkDone
  BY <1>22 DEF WorkDone
<1>23. CASE Release
  BY <1>23 DEF Release
<1>24. CASE ReleaseFails
  BY <1>24 DEF ReleaseFails, PmFailure
<1>25. CASE Account
  BY <1>25 DEF Account
<1>26. CASE Complete
  BY <1>26 DEF Complete
<1>27. CASE Tick
  BY <1>27 DEF Tick, Down
<1>28. CASE GatesMove
  BY <1>28 DEF GatesMove
<1>29. ASSUME NEW wanted \in BOOLEAN, NEW blocked \in BOOLEAN, ServiceDecides(wanted, blocked)
      PROVE  Names'
  BY <1>29 DEF ServiceDecides
<1>30. ASSUME NEW supply \in BOOLEAN, ObserveSupply(supply)
      PROVE  Names'
  BY ZenonT(60), <1>30 DEF ObserveSupply
<1>31. CASE UNCHANGED vars
  BY <1>31 DEF vars
<1> QED
  BY <1>1, <1>2, <1>3, <1>4, <1>5, <1>6, <1>7, <1>8, <1>9, <1>10, <1>11, <1>12, <1>13, <1>14, <1>15, <1>16, <1>17, <1>18, <1>19, <1>20, <1>21, <1>22, <1>23, <1>24, <1>25, <1>26, <1>27, <1>28, <1>29, <1>30, <1>31 DEF Next, Console, Service, Worker

(* and the times.                                                          *)
LEMMA TimesKept == TypeOK /\ [Next]_vars => Times'
<1> SUFFICES ASSUME TypeOK, [Next]_vars PROVE Times'
  OBVIOUS
<1> USE ConstantsType DEF TypeOK, Flags, Times, On, Forever, Larger, schedule, policy, callers, locals, outside,
       EnabledAt, TurnOff, TurnOn, WorkerAt, LeaveScope
<1>1. CASE Off
  BY <1>1 DEF Off
<1>2. CASE RequestInvalid
  BY <1>2 DEF RequestInvalid
<1>3. CASE RequestBegins
  BY <1>3 DEF RequestBegins
<1>4. CASE RequestReserves
  BY <1>4 DEF RequestReserves
<1>5. CASE RequestLacksTask
  BY <1>5 DEF RequestLacksTask
<1>6. CASE RequestInstalls
  BY <1>6 DEF RequestInstalls
<1>7. CASE ServiceLacksTask
  BY <1>7 DEF ServiceLacksTask
<1>8. CASE ServiceStarts
  BY <1>8 DEF ServiceStarts, Desired
<1>9. CASE Loop
  BY <1>9 DEF Loop
<1>10. CASE ReadSupply
  BY <1>10 DEF ReadSupply, Desired
<1>11. CASE ReadGates
  BY <1>11 DEF ReadGates
<1>12. CASE LeaseExpires
  BY <1>12 DEF LeaseExpires, Expires
<1>13. CASE TakeSlot
  BY <1>13 DEF TakeSlot, Expires, Due, Deadline
<1>14. CASE NothingDue
  BY <1>14 DEF NothingDue, Expires, Due, Deadline
<1>15. CASE Wake
  BY <1>15 DEF Wake
<1>16. CASE Acquire
  BY <1>16 DEF Acquire
<1>17. CASE AcquireFails
  BY <1>17 DEF AcquireFails, PmFailure
<1>18. CASE FirstAllowed
  BY <1>18 DEF FirstAllowed, PulseAllowed
<1>19. CASE Publish
  BY <1>19 DEF Publish
<1>20. CASE NextSlice
  BY <1>20 DEF NextSlice
<1>21. CASE Slice
  BY <1>21 DEF Slice, PulseAllowed
<1>22. CASE WorkDone
  BY <1>22 DEF WorkDone
<1>23. CASE Release
  BY <1>23 DEF Release
<1>24. CASE ReleaseFails
  BY <1>24 DEF ReleaseFails, PmFailure
<1>25. CASE Account
  BY <1>25 DEF Account
<1>26. CASE Complete
  BY <1>26 DEF Complete
<1>27. CASE Tick
  BY <1>27 DEF Tick, Down
<1>28. CASE GatesMove
  BY <1>28 DEF GatesMove
<1>29. ASSUME NEW wanted \in BOOLEAN, NEW blocked \in BOOLEAN, ServiceDecides(wanted, blocked)
      PROVE  Times'
  BY <1>29 DEF ServiceDecides
<1>30. ASSUME NEW supply \in BOOLEAN, ObserveSupply(supply)
      PROVE  Times'
  BY <1>30 DEF ObserveSupply
<1>31. CASE UNCHANGED vars
  BY <1>31 DEF vars
<1> QED
  BY <1>1, <1>2, <1>3, <1>4, <1>5, <1>6, <1>7, <1>8, <1>9, <1>10, <1>11, <1>12, <1>13, <1>14, <1>15, <1>16, <1>17, <1>18, <1>19, <1>20, <1>21, <1>22, <1>23, <1>24, <1>25, <1>26, <1>27, <1>28, <1>29, <1>30, <1>31 DEF Next, Console, Service, Worker

(* The Boolean part.                                                       *)
LEMMA CopiesKept == TypeOK /\ Switch /\ [Next]_vars => Switch'
<1> SUFFICES ASSUME TypeOK /\ Switch, [Next]_vars PROVE Switch'
  OBVIOUS
<1> USE ConstantsType DEF Switch, StateMatches, NeverNested, CopiesTrue, On, Active, schedule, policy, callers, locals, outside,
       EnabledAt, TurnOff, TurnOn, WorkerAt, LeaveScope
<1>1. CASE Off
  BY <1>1 DEF Off
<1>2. CASE RequestInvalid
  BY <1>2 DEF RequestInvalid
<1>3. CASE RequestBegins
  BY <1>3 DEF RequestBegins
<1>4. CASE RequestReserves
  BY <1>4 DEF RequestReserves
<1>5. CASE RequestLacksTask
  BY <1>5 DEF RequestLacksTask
<1>6. CASE RequestInstalls
  BY <1>6 DEF RequestInstalls
<1>7. CASE ServiceLacksTask
  BY <1>7 DEF ServiceLacksTask
<1>8. CASE ServiceStarts
  BY <1>8 DEF ServiceStarts, Desired
<1>9. CASE Loop
  BY <1>9 DEF Loop
<1>10. CASE ReadSupply
  BY <1>10 DEF ReadSupply, Desired
<1>11. CASE ReadGates
  BY <1>11 DEF ReadGates, TypeOK, Names
<1>12. CASE LeaseExpires
  BY <1>12 DEF LeaseExpires, Expires
<1>13. CASE TakeSlot
  BY <1>13 DEF TakeSlot, Expires, Due, Deadline
<1>14. CASE NothingDue
  BY <1>14 DEF NothingDue, Expires, Due, Deadline
<1>15. CASE Wake
  BY <1>15 DEF Wake
<1>16. CASE Acquire
  BY <1>16 DEF Acquire
<1>17. CASE AcquireFails
  BY <1>17 DEF AcquireFails, PmFailure
<1>18. CASE FirstAllowed
  BY <1>18 DEF FirstAllowed, PulseAllowed
<1>19. CASE Publish
  BY <1>19 DEF Publish
<1>20. CASE NextSlice
  BY <1>20 DEF NextSlice
<1>21. CASE Slice
  BY <1>21 DEF Slice, PulseAllowed
<1>22. CASE WorkDone
  BY <1>22 DEF WorkDone
<1>23. CASE Release
  BY <1>23 DEF Release
<1>24. CASE ReleaseFails
  BY <1>24 DEF ReleaseFails, PmFailure
<1>25. CASE Account
  BY <1>25 DEF Account
<1>26. CASE Complete
  BY <1>26 DEF Complete
<1>27. CASE Tick
  BY <1>27 DEF Tick, Down
<1>28. CASE GatesMove
  BY <1>28 DEF GatesMove
<1>29. ASSUME NEW wanted \in BOOLEAN, NEW blocked \in BOOLEAN, ServiceDecides(wanted, blocked)
      PROVE  Switch'
  <2> DEFINE want == wanted /\ external /\ ~inhibited' /\ freshLeft > 0 /\ ~fatal /\ ~blocked
  <2>1. /\ stopped' => stopped /\ inhibited'
        /\ fatal' = fatal /\ created' = created /\ pm' = pm /\ pc' = pc
    BY <1>29 DEF ServiceDecides
  <2>2. CASE ~want /\ automatic
    <3>1. ~leased' /\ ~automatic' /\ state' = "Off" /\ current' = {"service"}
      BY <1>29, <2>2 DEF ServiceDecides
    <3> QED
      BY <2>1, <3>1
  <2>3. CASE ~(~want /\ automatic)
    <3>1. /\ leased' = leased /\ automatic' = automatic /\ state' = state
          /\ current' = current \union {"service"}
      BY <1>29, <2>3 DEF ServiceDecides
    <3> QED
      BY <2>1, <3>1
  <2> QED
    BY <2>2, <2>3
<1>30. ASSUME NEW supply \in BOOLEAN, ObserveSupply(supply)
      PROVE  Switch'
  BY <1>30 DEF ObserveSupply
<1>31. CASE UNCHANGED vars
  BY <1>31 DEF vars
<1> QED
  BY <1>1, <1>2, <1>3, <1>4, <1>5, <1>6, <1>7, <1>8, <1>9, <1>10, <1>11, <1>12, <1>13, <1>14, <1>15, <1>16, <1>17, <1>18, <1>19, <1>20, <1>21, <1>22, <1>23, <1>24, <1>25, <1>26, <1>27, <1>28, <1>29, <1>30, <1>31 DEF Next, Console, Service, Worker

(* The arithmetic of the slots.                                            *)
LEMMA SlotKept == TypeOK /\ CopiesTrue /\ SlotFar /\ [Next]_vars => SlotFar'
<1> SUFFICES ASSUME TypeOK /\ CopiesTrue /\ SlotFar, [Next]_vars PROVE SlotFar'
  OBVIOUS
<1> USE ConstantsType DEF TypeOK, Flags, Times, CopiesTrue, SlotFar, Counting, On, Forever, Larger, schedule, policy, callers, locals, outside,
       EnabledAt, TurnOff, TurnOn, WorkerAt, LeaveScope
<1>1. CASE Off
  BY <1>1 DEF Off
<1>2. CASE RequestInvalid
  BY <1>2 DEF RequestInvalid
<1>3. CASE RequestBegins
  BY <1>3 DEF RequestBegins
<1>4. CASE RequestReserves
  BY <1>4 DEF RequestReserves
<1>5. CASE RequestLacksTask
  BY <1>5 DEF RequestLacksTask
<1>6. CASE RequestInstalls
  BY <1>6 DEF RequestInstalls
<1>7. CASE ServiceLacksTask
  BY <1>7 DEF ServiceLacksTask
<1>8. CASE ServiceStarts
  BY <1>8 DEF ServiceStarts, Desired
<1>9. CASE Loop
  BY <1>9 DEF Loop
<1>10. CASE ReadSupply
  BY <1>10 DEF ReadSupply, Desired
<1>11. CASE ReadGates
  BY <1>11 DEF ReadGates
<1>12. CASE LeaseExpires
  BY <1>12 DEF LeaseExpires, Expires
<1>13. CASE TakeSlot
  BY <1>13 DEF TakeSlot, Expires, Due, Deadline
<1>14. CASE NothingDue
  BY <1>14 DEF NothingDue, Expires, Due, Deadline
<1>15. CASE Wake
  BY <1>15 DEF Wake
<1>16. CASE Acquire
  BY <1>16 DEF Acquire
<1>17. CASE AcquireFails
  BY <1>17 DEF AcquireFails, PmFailure
<1>18. CASE FirstAllowed
  BY <1>18 DEF FirstAllowed, PulseAllowed
<1>19. CASE Publish
  BY <1>19 DEF Publish
<1>20. CASE NextSlice
  BY <1>20 DEF NextSlice
<1>21. CASE Slice
  BY <1>21 DEF Slice, PulseAllowed
<1>22. CASE WorkDone
  BY <1>22 DEF WorkDone
<1>23. CASE Release
  BY <1>23 DEF Release
<1>24. CASE ReleaseFails
  BY <1>24 DEF ReleaseFails, PmFailure
<1>25. CASE Account
  BY <1>25 DEF Account
<1>26. CASE Complete
  BY <1>26 DEF Complete
<1>27. CASE Tick
  BY <1>27 DEF Tick, Down
<1>28. CASE GatesMove
  BY <1>28 DEF GatesMove
<1>29. ASSUME NEW wanted \in BOOLEAN, NEW blocked \in BOOLEAN, ServiceDecides(wanted, blocked)
      PROVE  SlotFar'
  BY <1>29 DEF ServiceDecides
<1>30. ASSUME NEW supply \in BOOLEAN, ObserveSupply(supply)
      PROVE  SlotFar'
  BY <1>30 DEF ObserveSupply
<1>31. CASE UNCHANGED vars
  BY <1>31 DEF vars
<1> QED
  BY <1>1, <1>2, <1>3, <1>4, <1>5, <1>6, <1>7, <1>8, <1>9, <1>10, <1>11, <1>12, <1>13, <1>14, <1>15, <1>16, <1>17, <1>18, <1>19, <1>20, <1>21, <1>22, <1>23, <1>24, <1>25, <1>26, <1>27, <1>28, <1>29, <1>30, <1>31 DEF Next, Console, Service, Worker

LEMMA NextInv == IInv /\ [Next]_vars => IInv'
  BY FlagsKept, NamesKept, TimesKept, CopiesKept, SlotKept DEF IInv, TypeOK, Switch

LEMMA Invariance == Spec => []IInv
<1>1. Init => IInv
  BY InitInv
<1>2. IInv /\ [Next]_vars => IInv'
  BY NextInv
<1> QED
  BY <1>1, <1>2, PTL DEF Spec

-----------------------------------------------------------------------------
(* Off wins over everything that was under way when it was called, and     *)
(* what is shown agrees with the schedule, however long the worker lags    *)
(* and whatever the period and the lease are (worker, off, request and     *)
(* serviceAutomatic of powerbank_keepalive.cpp).                           *)
THEOREM OffAlwaysWins == Spec => []OffWins
<1>1. IInv => OffWins
  BY DEF IInv, Switch, OffWins
<1> QED
  BY <1>1, Invariance, PTL

(* No pulse begins less than a period after the schedule was installed or  *)
(* the last pulse ended: a late worker never catches up in a burst         *)
(* (completePulse and takeSlot of powerbank_keepalive_model.h).            *)
THEOREM PulsesKeepDistance == Spec => NoBurst
<1>1. IInv /\ [Next]_vars => (~pulsing /\ pulsing' => quiet = Period) \/ UNCHANGED vars
  <2> SUFFICES ASSUME IInv, Next, ~pulsing, pulsing' PROVE quiet = Period
    OBVIOUS
  <2>1. CASE Publish
    BY <2>1 DEF Publish, WorkerAt, IInv, SlotFar
  <2>2. CASE ~Publish
    BY <2>2 DEF Next, Console, Service, Worker, Off, RequestInvalid, RequestBegins, RequestReserves,
       RequestLacksTask, RequestInstalls, ServiceLacksTask, ServiceStarts, ServiceDecides, ObserveSupply,
       Loop, ReadSupply, ReadGates, LeaseExpires, TakeSlot, NothingDue, Wake, Acquire, AcquireFails,
       FirstAllowed, NextSlice, Slice, WorkDone, Release, ReleaseFails, Account, Complete, Tick, GatesMove
  <2> QED
    BY <2>1, <2>2
<1> QED
  BY <1>1, Invariance, PTL DEF Spec, NoBurst

==============================================================================
