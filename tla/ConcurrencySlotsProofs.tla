----------------------- MODULE ConcurrencySlotsProofs -----------------------
(***************************************************************************)
(* Theorems about ConcurrencySlots, for every value of its constants: its  *)
(* type invariant and the limit on the requests in progress.               *)
(*                                                                         *)
(* CapacityRespected is not inductive: that a new slot may be granted      *)
(* follows from a count of Redis members, so the invariant has to say that *)
(* every holder that has not lost its lease is one of these members.       *)
(***************************************************************************)
EXTENDS ConcurrencySlots, FiniteSetTheorems, TLAPS

LEMMA TypeStep == TypeOK /\ [Next]_vars => TypeOK'
<1> SUFFICES ASSUME TypeOK, [Next]_vars
             PROVE  TypeOK'
  OBVIOUS
<1> USE SlotAssumption DEF TypeOK, Lives, Controls, Calls
<1>1. ASSUME NEW p \in Procs, Start(p)
      PROVE  TypeOK'
  BY <1>1 DEF Start, slotVars, queueVars, beatVars
<1>2. ASSUME NEW p \in Procs, CleanSlots(p)
      PROVE  TypeOK'
  BY <1>2 DEF CleanSlots, Keep, slotVars, queueVars, beatVars
<1>3. ASSUME NEW p \in Procs, CleanWaits(p)
      PROVE  TypeOK'
  BY <1>3 DEF CleanWaits, slotVars, queueVars, beatVars
<1>4. ASSUME NEW p \in Procs, Crash(p)
      PROVE  TypeOK'
  BY <1>4 DEF Crash, slotVars, queueVars, beatVars
<1>5. ASSUME NEW r \in Requests, NEW p \in Procs, Begin(r, p)
      PROVE  TypeOK'
  BY <1>5 DEF Begin, Goto, slotVars, queueVars, beatVars
<1>6. ASSUME NEW r \in Requests, Acquire(r)
      PROVE  TypeOK'
  BY <1>6 DEF Acquire, Stamp, Fresh, StartHeartbeat, Goto, slotVars,
     queueVars, beatVars
<1>7. ASSUME NEW r \in Requests, AcquireFull(r)
      PROVE  TypeOK'
  BY <1>7 DEF AcquireFull, Prune, Keep, Fresh, Goto, slotVars, queueVars,
     beatVars
<1>8. ASSUME NEW r \in Requests, AcquireFails(r)
      PROVE  TypeOK'
  BY <1>8 DEF AcquireFails, Abandon, Goto, slotVars, queueVars, beatVars
<1>9. ASSUME NEW r \in Requests, TrackSlot(r)
      PROVE  TypeOK'
  BY <1>9 DEF TrackSlot, Stamp, Fresh, StartHeartbeat, Abandon, Goto,
     slotVars, queueVars, beatVars
<1>10. ASSUME NEW r \in Requests, IncrementWait(r)
      PROVE  TypeOK'
  BY <1>10 DEF IncrementWait, Goto, slotVars, queueVars, beatVars
<1>11. ASSUME NEW r \in Requests, QueueFull(r)
      PROVE  TypeOK'
  BY <1>11 DEF QueueFull, Goto, slotVars, queueVars, beatVars
<1>12. ASSUME NEW r \in Requests, IncrementFails(r)
      PROVE  TypeOK'
  BY <1>12 DEF IncrementFails, Abandon, Goto, slotVars, queueVars, beatVars
<1>13. ASSUME NEW r \in Requests, WaitTimeout(r)
      PROVE  TypeOK'
  BY <1>13 DEF WaitTimeout, Goto, slotVars, queueVars, beatVars
<1>14. ASSUME NEW r \in Requests, DecrementWait(r)
      PROVE  TypeOK'
  BY <1>14 DEF DecrementWait, Decrement, AfterQueue, Goto, slotVars,
     queueVars, beatVars
<1>15. ASSUME NEW r \in Requests, DecrementFails(r)
      PROVE  TypeOK'
  BY <1>15 DEF DecrementFails, Abandon, AfterQueue, Goto, slotVars, queueVars,
     beatVars
<1>16. ASSUME NEW r \in Requests, Finish(r)
      PROVE  TypeOK'
  BY <1>16 DEF Finish, Goto, slotVars, queueVars, beatVars
<1>17. ASSUME NEW r \in Requests, Disconnect(r)
      PROVE  TypeOK'
  BY <1>17 DEF Disconnect, Goto, slotVars, queueVars, beatVars
<1>18. ASSUME NEW r \in Requests, Drained(r)
      PROVE  TypeOK'
  BY <1>18 DEF Drained, Goto, slotVars, queueVars, beatVars
<1>19. ASSUME NEW r \in Requests, Release(r)
      PROVE  TypeOK'
  BY <1>19 DEF Release, StopHeartbeat, Keep, AfterRelease, Goto, slotVars,
     queueVars, beatVars
<1>20. ASSUME NEW r \in Requests, ReleaseFails(r)
      PROVE  TypeOK'
  BY <1>20 DEF ReleaseFails, StopHeartbeat, AfterRelease, Goto, slotVars,
     queueVars, beatVars
<1>21. ASSUME NEW r \in Requests, AcquireLiveLease(r)
      PROVE  TypeOK'
  BY <1>21 DEF AcquireLiveLease, Abandon, Goto, slotVars, queueVars, beatVars
<1>22. ASSUME NEW r \in Requests, CreateLiveCall(r)
      PROVE  TypeOK'
  BY <1>22 DEF CreateLiveCall, Goto, slotVars, queueVars, beatVars
<1>23. ASSUME NEW r \in Requests, EndLiveCall(r)
      PROVE  TypeOK'
  BY <1>23 DEF EndLiveCall, Goto, slotVars, queueVars, beatVars
<1>24. ASSUME NEW r \in Requests, ReleaseLiveLease(r)
      PROVE  TypeOK'
  BY <1>24 DEF ReleaseLiveLease, Goto, slotVars, queueVars, beatVars
<1>25. ASSUME NEW r \in Requests, Heartbeat(r)
      PROVE  TypeOK'
  BY <1>25 DEF Heartbeat, Refresh, Stamp, Prune, Keep, Fresh, slotVars,
     queueVars, beatVars
<1>26. ASSUME NEW r \in Requests, HeartbeatFails(r)
      PROVE  TypeOK'
  BY <1>26 DEF HeartbeatFails, Abandon, slotVars, queueVars, beatVars
<1>27. ASSUME NEW r \in Requests, LiveLapse(r)
      PROVE  TypeOK'
  BY <1>27 DEF LiveLapse, slotVars, queueVars, beatVars
<1>28. ASSUME NEW r \in Requests, NEW call \in Calls, Late(call, r)
      PROVE  TypeOK'
  BY <1>28 DEF Late, Stamp, Refresh, Prune, Keep, Fresh, Decrement, slotVars,
     queueVars, beatVars
<1>29. ASSUME WaitExpire
      PROVE  TypeOK'
  BY <1>29 DEF WaitExpire, slotVars, queueVars, beatVars
<1>30. ASSUME CleanupExpired
      PROVE  TypeOK'
  BY <1>30 DEF CleanupExpired, Prune, Keep, Fresh, slotVars, queueVars,
     beatVars
<1>31. ASSUME Tick
      PROVE  TypeOK'
  BY <1>31 DEF Tick, slotVars, queueVars, beatVars
<1>32. ASSUME UNCHANGED vars
      PROVE  TypeOK'
  BY <1>32 DEF vars, slotVars, queueVars, beatVars, slotVars, queueVars,
     beatVars
<1>33. QED BY <1>1, <1>2, <1>3, <1>4, <1>5, <1>6, <1>7, <1>8, <1>9, <1>10,
          <1>11, <1>12, <1>13, <1>14, <1>15, <1>16, <1>17, <1>18, <1>19,
          <1>20, <1>21, <1>22, <1>23, <1>24, <1>25, <1>26, <1>27, <1>28,
          <1>29, <1>30, <1>31, <1>32
          DEF Next, Serve

LEMMA TypeInit == Init => TypeOK
  BY SlotAssumption DEF Init, TypeOK, Lives, Controls

\* The type invariant: whatever fails, arrives late or crashes, the wait
\* counter stays between zero and its limit and no heartbeat is due that
\* does not run.
THEOREM TypeCorrect == Spec => []TypeOK
<1> QED BY TypeInit, TypeStep, PTL DEF Spec

-----------------------------------------------------------------------------
(* The inductive invariant.                                                *)

\* Holders of a regular slot.
Regular == {"leaveHeld", "running", "disconnected", "handover", "handedOver"}

\* Holders of a Live lease.
Leased == {"handover", "handedOver", "live"}

\* A holder of a regular slot that has not lost it is a member that has not
\* expired, and its heartbeat runs.
HeldFresh ==
    \A r \in Requests :
        pc[r] \in Regular /\ r \notin lost =>
            r \in heart /\ r \in member /\ left[r] > 0

HeldLive ==
    \A r \in Requests : pc[r] \in Leased /\ r \notin lost => r \in live

Held == TypeOK /\ HeldFresh /\ HeldLive

LEMMA FiniteRequests ==
  ASSUME NEW S \in SUBSET Requests
  PROVE  IsFiniteSet(S) /\ Cardinality(S) \in Nat
  BY SlotAssumption, FS_Subset, FS_CardinalityType

LEMMA SmallerCardinality ==
  ASSUME NEW T \in SUBSET Requests, NEW S \in SUBSET T
  PROVE  Cardinality(S) <= Cardinality(T)
<1>1. IsFiniteSet(T)
  BY FiniteRequests
<1> QED BY <1>1, FS_Subset

\* A step keeps every holder that has not lost its lease among the members.
LEMMA HeldStep ==
  ASSUME Held, Next \/ UNCHANGED vars, MaxConcurrency > 0
  PROVE  HeldFresh' /\ HeldLive'
<1> USE SlotAssumption DEF Held, HeldFresh, HeldLive, Regular, Leased
<1>1. ASSUME NEW p \in Procs, Start(p)
      PROVE  HeldFresh' /\ HeldLive'
  BY <1>1 DEF Start, slotVars, queueVars, beatVars, TypeOK, InFlight, At
<1>2. ASSUME NEW p \in Procs, CleanSlots(p)
      PROVE  HeldFresh' /\ HeldLive'
  BY <1>2 DEF CleanSlots, Keep, slotVars, queueVars, beatVars, TypeOK,
     InFlight, At
<1>3. ASSUME NEW p \in Procs, CleanWaits(p)
      PROVE  HeldFresh' /\ HeldLive'
  BY <1>3 DEF CleanWaits, slotVars, queueVars, beatVars, TypeOK, InFlight, At
<1>4. ASSUME NEW p \in Procs, Crash(p)
      PROVE  HeldFresh' /\ HeldLive'
  BY <1>4 DEF Crash, slotVars, queueVars, beatVars, TypeOK, InFlight, At
<1>5. ASSUME NEW r \in Requests, NEW p \in Procs, Begin(r, p)
      PROVE  HeldFresh' /\ HeldLive'
  BY <1>5 DEF Begin, Goto, slotVars, queueVars, beatVars, TypeOK, InFlight, At
<1>6. ASSUME NEW r \in Requests, Acquire(r)
      PROVE  HeldFresh' /\ HeldLive'
  BY <1>6 DEF Acquire, Stamp, Fresh, StartHeartbeat, Goto, slotVars,
     queueVars, beatVars, TypeOK, InFlight, At
<1>7. ASSUME NEW r \in Requests, AcquireFull(r)
      PROVE  HeldFresh' /\ HeldLive'
  BY <1>7 DEF AcquireFull, Prune, Keep, Fresh, Goto, slotVars, queueVars,
     beatVars, TypeOK, InFlight, At
<1>8. ASSUME NEW r \in Requests, AcquireFails(r)
      PROVE  HeldFresh' /\ HeldLive'
  BY <1>8 DEF AcquireFails, Abandon, Goto, slotVars, queueVars, beatVars,
     TypeOK, InFlight, At
<1>9. ASSUME NEW r \in Requests, TrackSlot(r)
      PROVE  HeldFresh' /\ HeldLive'
  BY <1>9 DEF TrackSlot, Stamp, Fresh, StartHeartbeat, Abandon, Goto,
     slotVars, queueVars, beatVars, TypeOK, InFlight, At
<1>10. ASSUME NEW r \in Requests, IncrementWait(r)
      PROVE  HeldFresh' /\ HeldLive'
  BY <1>10 DEF IncrementWait, Goto, slotVars, queueVars, beatVars, TypeOK,
     InFlight, At
<1>11. ASSUME NEW r \in Requests, QueueFull(r)
      PROVE  HeldFresh' /\ HeldLive'
  BY <1>11 DEF QueueFull, Goto, slotVars, queueVars, beatVars, TypeOK,
     InFlight, At
<1>12. ASSUME NEW r \in Requests, IncrementFails(r)
      PROVE  HeldFresh' /\ HeldLive'
  BY <1>12 DEF IncrementFails, Abandon, Goto, slotVars, queueVars, beatVars,
     TypeOK, InFlight, At
<1>13. ASSUME NEW r \in Requests, WaitTimeout(r)
      PROVE  HeldFresh' /\ HeldLive'
  BY <1>13 DEF WaitTimeout, Goto, slotVars, queueVars, beatVars, TypeOK,
     InFlight, At
<1>14. ASSUME NEW r \in Requests, DecrementWait(r)
      PROVE  HeldFresh' /\ HeldLive'
  BY <1>14 DEF DecrementWait, Decrement, AfterQueue, Goto, slotVars,
     queueVars, beatVars, TypeOK, InFlight, At
<1>15. ASSUME NEW r \in Requests, DecrementFails(r)
      PROVE  HeldFresh' /\ HeldLive'
  BY <1>15 DEF DecrementFails, Abandon, AfterQueue, Goto, slotVars, queueVars,
     beatVars, TypeOK, InFlight, At
<1>16. ASSUME NEW r \in Requests, Finish(r)
      PROVE  HeldFresh' /\ HeldLive'
  BY <1>16 DEF Finish, Goto, slotVars, queueVars, beatVars, TypeOK, InFlight,
     At
<1>17. ASSUME NEW r \in Requests, Disconnect(r)
      PROVE  HeldFresh' /\ HeldLive'
  BY <1>17 DEF Disconnect, Goto, slotVars, queueVars, beatVars, TypeOK,
     InFlight, At
<1>18. ASSUME NEW r \in Requests, Drained(r)
      PROVE  HeldFresh' /\ HeldLive'
  BY <1>18 DEF Drained, Goto, slotVars, queueVars, beatVars, TypeOK, InFlight,
     At
<1>19. ASSUME NEW r \in Requests, Release(r)
      PROVE  HeldFresh' /\ HeldLive'
  BY <1>19 DEF Release, StopHeartbeat, Keep, AfterRelease, Goto, slotVars,
     queueVars, beatVars, TypeOK, InFlight, At
<1>20. ASSUME NEW r \in Requests, ReleaseFails(r)
      PROVE  HeldFresh' /\ HeldLive'
  BY <1>20 DEF ReleaseFails, StopHeartbeat, AfterRelease, Goto, slotVars,
     queueVars, beatVars, TypeOK, InFlight, At
<1>21. ASSUME NEW r \in Requests, AcquireLiveLease(r)
      PROVE  HeldFresh' /\ HeldLive'
  BY <1>21 DEF AcquireLiveLease, Abandon, Goto, slotVars, queueVars, beatVars,
     TypeOK, InFlight, At
<1>22. ASSUME NEW r \in Requests, CreateLiveCall(r)
      PROVE  HeldFresh' /\ HeldLive'
  BY <1>22 DEF CreateLiveCall, Goto, slotVars, queueVars, beatVars, TypeOK,
     InFlight, At
<1>23. ASSUME NEW r \in Requests, EndLiveCall(r)
      PROVE  HeldFresh' /\ HeldLive'
  BY <1>23 DEF EndLiveCall, Goto, slotVars, queueVars, beatVars, TypeOK,
     InFlight, At
<1>24. ASSUME NEW r \in Requests, ReleaseLiveLease(r)
      PROVE  HeldFresh' /\ HeldLive'
  BY <1>24 DEF ReleaseLiveLease, Goto, slotVars, queueVars, beatVars, TypeOK,
     InFlight, At
<1>25. ASSUME NEW r \in Requests, Heartbeat(r)
      PROVE  HeldFresh' /\ HeldLive'
  BY <1>25 DEF Heartbeat, Refresh, Stamp, Prune, Keep, Fresh, slotVars,
     queueVars, beatVars, TypeOK, InFlight, At
<1>26. ASSUME NEW r \in Requests, HeartbeatFails(r)
      PROVE  HeldFresh' /\ HeldLive'
  BY <1>26 DEF HeartbeatFails, Abandon, slotVars, queueVars, beatVars, TypeOK,
     InFlight, At
<1>27. ASSUME NEW r \in Requests, LiveLapse(r)
      PROVE  HeldFresh' /\ HeldLive'
  BY <1>27 DEF LiveLapse, slotVars, queueVars, beatVars, TypeOK, InFlight, At
<1>28. ASSUME NEW r \in Requests, NEW call \in Calls, Late(call, r)
      PROVE  HeldFresh' /\ HeldLive'
  BY <1>28 DEF Late, Stamp, Refresh, Prune, Keep, Fresh, Decrement, slotVars,
     queueVars, beatVars, TypeOK, InFlight, At
<1>29. ASSUME WaitExpire
      PROVE  HeldFresh' /\ HeldLive'
  BY <1>29 DEF WaitExpire, slotVars, queueVars, beatVars, TypeOK, InFlight, At
<1>30. ASSUME CleanupExpired
      PROVE  HeldFresh' /\ HeldLive'
  BY <1>30 DEF CleanupExpired, Prune, Keep, Fresh, slotVars, queueVars,
     beatVars, TypeOK, InFlight, At
<1>31. ASSUME Tick
      PROVE  HeldFresh' /\ HeldLive'
  BY <1>31 DEF Tick, slotVars, queueVars, beatVars, TypeOK, InFlight, At
<1>32. ASSUME UNCHANGED vars
      PROVE  HeldFresh' /\ HeldLive'
  BY <1>32 DEF vars, slotVars, queueVars, beatVars, TypeOK, InFlight, At
<1>33. QED BY <1>1, <1>2, <1>3, <1>4, <1>5, <1>6, <1>7, <1>8, <1>9, <1>10,
          <1>11, <1>12, <1>13, <1>14, <1>15, <1>16, <1>17, <1>18, <1>19,
          <1>20, <1>21, <1>22, <1>23, <1>24, <1>25, <1>26, <1>27, <1>28,
          <1>29, <1>30, <1>31, <1>32
          DEF Next, Serve

LEMMA HeldInit == Init => Held
  BY TypeInit DEF Init, Held, HeldFresh, HeldLive, Regular, Leased

\* Only the grant of a slot adds a holder.
LEMMA HoldersShrink ==
  ASSUME Held, Next \/ UNCHANGED vars, MaxConcurrency > 0,
         ~ \E r \in Requests : Acquire(r)
  PROVE  (Holding \ lost)' \subseteq Holding \ lost
<1> USE SlotAssumption DEF Holding, At
<1>1. ASSUME NEW p \in Procs, Start(p)
      PROVE  (Holding \ lost)' \subseteq Holding \ lost
  BY <1>1 DEF Start, slotVars, queueVars, beatVars, Held, TypeOK
<1>2. ASSUME NEW p \in Procs, CleanSlots(p)
      PROVE  (Holding \ lost)' \subseteq Holding \ lost
  BY <1>2 DEF CleanSlots, Keep, slotVars, queueVars, beatVars, Held, TypeOK
<1>3. ASSUME NEW p \in Procs, CleanWaits(p)
      PROVE  (Holding \ lost)' \subseteq Holding \ lost
  BY <1>3 DEF CleanWaits, slotVars, queueVars, beatVars, Held, TypeOK
<1>4. ASSUME NEW p \in Procs, Crash(p)
      PROVE  (Holding \ lost)' \subseteq Holding \ lost
  BY <1>4 DEF Crash, slotVars, queueVars, beatVars, Held, TypeOK
<1>5. ASSUME NEW r \in Requests, NEW p \in Procs, Begin(r, p)
      PROVE  (Holding \ lost)' \subseteq Holding \ lost
  BY <1>5 DEF Begin, Goto, slotVars, queueVars, beatVars, Held, TypeOK
<1>6. ASSUME NEW r \in Requests, Acquire(r)
      PROVE  (Holding \ lost)' \subseteq Holding \ lost
  BY <1>6
<1>7. ASSUME NEW r \in Requests, AcquireFull(r)
      PROVE  (Holding \ lost)' \subseteq Holding \ lost
  BY <1>7 DEF AcquireFull, Prune, Keep, Fresh, Goto, slotVars, queueVars,
     beatVars, Held, TypeOK
<1>8. ASSUME NEW r \in Requests, AcquireFails(r)
      PROVE  (Holding \ lost)' \subseteq Holding \ lost
  BY <1>8 DEF AcquireFails, Abandon, Goto, slotVars, queueVars, beatVars,
     Held, TypeOK
<1>9. ASSUME NEW r \in Requests, TrackSlot(r)
      PROVE  (Holding \ lost)' \subseteq Holding \ lost
  BY <1>9 DEF TrackSlot, Stamp, Fresh, StartHeartbeat, Abandon, Goto,
     slotVars, queueVars, beatVars, Held, TypeOK
<1>10. ASSUME NEW r \in Requests, IncrementWait(r)
      PROVE  (Holding \ lost)' \subseteq Holding \ lost
  BY <1>10 DEF IncrementWait, Goto, slotVars, queueVars, beatVars, Held,
     TypeOK
<1>11. ASSUME NEW r \in Requests, QueueFull(r)
      PROVE  (Holding \ lost)' \subseteq Holding \ lost
  BY <1>11 DEF QueueFull, Goto, slotVars, queueVars, beatVars, Held, TypeOK
<1>12. ASSUME NEW r \in Requests, IncrementFails(r)
      PROVE  (Holding \ lost)' \subseteq Holding \ lost
  BY <1>12 DEF IncrementFails, Abandon, Goto, slotVars, queueVars, beatVars,
     Held, TypeOK
<1>13. ASSUME NEW r \in Requests, WaitTimeout(r)
      PROVE  (Holding \ lost)' \subseteq Holding \ lost
  BY <1>13 DEF WaitTimeout, Goto, slotVars, queueVars, beatVars, Held, TypeOK
<1>14. ASSUME NEW r \in Requests, DecrementWait(r)
      PROVE  (Holding \ lost)' \subseteq Holding \ lost
  BY <1>14 DEF DecrementWait, Decrement, AfterQueue, Goto, slotVars,
     queueVars, beatVars, Held, TypeOK
<1>15. ASSUME NEW r \in Requests, DecrementFails(r)
      PROVE  (Holding \ lost)' \subseteq Holding \ lost
  BY <1>15 DEF DecrementFails, Abandon, AfterQueue, Goto, slotVars, queueVars,
     beatVars, Held, TypeOK
<1>16. ASSUME NEW r \in Requests, Finish(r)
      PROVE  (Holding \ lost)' \subseteq Holding \ lost
  BY <1>16 DEF Finish, Goto, slotVars, queueVars, beatVars, Held, TypeOK
<1>17. ASSUME NEW r \in Requests, Disconnect(r)
      PROVE  (Holding \ lost)' \subseteq Holding \ lost
  BY <1>17 DEF Disconnect, Goto, slotVars, queueVars, beatVars, Held, TypeOK
<1>18. ASSUME NEW r \in Requests, Drained(r)
      PROVE  (Holding \ lost)' \subseteq Holding \ lost
  BY <1>18 DEF Drained, Goto, slotVars, queueVars, beatVars, Held, TypeOK
<1>19. ASSUME NEW r \in Requests, Release(r)
      PROVE  (Holding \ lost)' \subseteq Holding \ lost
  BY <1>19 DEF Release, StopHeartbeat, Keep, AfterRelease, Goto, slotVars,
     queueVars, beatVars, Held, TypeOK
<1>20. ASSUME NEW r \in Requests, ReleaseFails(r)
      PROVE  (Holding \ lost)' \subseteq Holding \ lost
  BY <1>20 DEF ReleaseFails, StopHeartbeat, AfterRelease, Goto, slotVars,
     queueVars, beatVars, Held, TypeOK
<1>21. ASSUME NEW r \in Requests, AcquireLiveLease(r)
      PROVE  (Holding \ lost)' \subseteq Holding \ lost
  BY <1>21 DEF AcquireLiveLease, Abandon, Goto, slotVars, queueVars, beatVars,
     Held, TypeOK
<1>22. ASSUME NEW r \in Requests, CreateLiveCall(r)
      PROVE  (Holding \ lost)' \subseteq Holding \ lost
  BY <1>22 DEF CreateLiveCall, Goto, slotVars, queueVars, beatVars, Held,
     TypeOK
<1>23. ASSUME NEW r \in Requests, EndLiveCall(r)
      PROVE  (Holding \ lost)' \subseteq Holding \ lost
  BY <1>23 DEF EndLiveCall, Goto, slotVars, queueVars, beatVars, Held, TypeOK
<1>24. ASSUME NEW r \in Requests, ReleaseLiveLease(r)
      PROVE  (Holding \ lost)' \subseteq Holding \ lost
  BY <1>24 DEF ReleaseLiveLease, Goto, slotVars, queueVars, beatVars, Held,
     TypeOK
<1>25. ASSUME NEW r \in Requests, Heartbeat(r)
      PROVE  (Holding \ lost)' \subseteq Holding \ lost
  BY <1>25 DEF Heartbeat, Refresh, Stamp, Prune, Keep, Fresh, slotVars,
     queueVars, beatVars, Held, TypeOK
<1>26. ASSUME NEW r \in Requests, HeartbeatFails(r)
      PROVE  (Holding \ lost)' \subseteq Holding \ lost
  BY <1>26 DEF HeartbeatFails, Abandon, slotVars, queueVars, beatVars, Held,
     TypeOK
<1>27. ASSUME NEW r \in Requests, LiveLapse(r)
      PROVE  (Holding \ lost)' \subseteq Holding \ lost
  BY <1>27 DEF LiveLapse, slotVars, queueVars, beatVars, Held, TypeOK
<1>28. ASSUME NEW r \in Requests, NEW call \in Calls, Late(call, r)
      PROVE  (Holding \ lost)' \subseteq Holding \ lost
  BY <1>28 DEF Late, Stamp, Refresh, Prune, Keep, Fresh, Decrement, slotVars,
     queueVars, beatVars, Held, TypeOK
<1>29. ASSUME WaitExpire
      PROVE  (Holding \ lost)' \subseteq Holding \ lost
  BY <1>29 DEF WaitExpire, slotVars, queueVars, beatVars, Held, TypeOK
<1>30. ASSUME CleanupExpired
      PROVE  (Holding \ lost)' \subseteq Holding \ lost
  BY <1>30 DEF CleanupExpired, Prune, Keep, Fresh, slotVars, queueVars,
     beatVars, Held, TypeOK
<1>31. ASSUME Tick
      PROVE  (Holding \ lost)' \subseteq Holding \ lost
  BY <1>31 DEF Tick, slotVars, queueVars, beatVars, Held, TypeOK
<1>32. ASSUME UNCHANGED vars
      PROVE  (Holding \ lost)' \subseteq Holding \ lost
  BY <1>32 DEF vars, slotVars, queueVars, beatVars, Held, TypeOK
<1>33. QED BY <1>1, <1>2, <1>3, <1>4, <1>5, <1>6, <1>7, <1>8, <1>9, <1>10,
          <1>11, <1>12, <1>13, <1>14, <1>15, <1>16, <1>17, <1>18, <1>19,
          <1>20, <1>21, <1>22, <1>23, <1>24, <1>25, <1>26, <1>27, <1>28,
          <1>29, <1>30, <1>31, <1>32
          DEF Next, Serve

\* A slot is granted only while fewer than MaxConcurrency requests hold one.
LEMMA AcquireKeepsCapacity ==
  ASSUME Held, MaxConcurrency > 0, NEW r \in Requests, Acquire(r)
  PROVE  CapacityRespected'
<1> DEFINE H == Holding \ lost
<1>1. /\ H \subseteq Fresh \cup live
      /\ Fresh \subseteq Requests /\ live \subseteq Requests
  BY DEF Held, HeldFresh, HeldLive, Regular, Leased, Holding, At, Fresh, TypeOK
<1>2. H' \subseteq H \cup {r} /\ H \subseteq Requests
  BY DEF Acquire, Goto, Holding, At, Held, TypeOK
<1> HIDE DEF H
<1>3. /\ IsFiniteSet(Fresh) /\ IsFiniteSet(live) /\ IsFiniteSet(H)
      /\ Cardinality(Fresh) \in Nat /\ Cardinality(live) \in Nat
      /\ Cardinality(H) \in Nat
  BY <1>1, <1>2, FiniteRequests
<1>4. Cardinality(Fresh \cup live) <= Cardinality(Fresh) + Cardinality(live)
  <2>1. Fresh \cap live \in SUBSET Requests
    BY <1>1
  <2>2. Cardinality(Fresh \cap live) \in Nat
    BY <2>1, FiniteRequests
  <2>3. Cardinality(Fresh \cup live) = Cardinality(Fresh)
            + Cardinality(live) - Cardinality(Fresh \cap live)
    BY <1>3, FS_Union
  <2> QED BY <1>3, <2>2, <2>3
<1>5. Cardinality(H) <= Cardinality(Fresh \cup live)
  BY <1>1, SmallerCardinality
<1>6. Cardinality(Fresh) + Cardinality(live) < MaxConcurrency
  BY DEF Acquire, HasCapacity
<1>7. Cardinality(Fresh \cup live) \in Nat
  BY <1>1, FiniteRequests
<1>8. Cardinality(H \cup {r}) <= Cardinality(H) + 1
  <2>1. Cardinality(H \cup {r}) =
            IF r \in H THEN Cardinality(H) ELSE Cardinality(H) + 1
    BY <1>3, FS_AddElement
  <2> QED BY <1>3, <2>1
<1>9. Cardinality(H') <= Cardinality(H \cup {r})
  BY <1>2, SmallerCardinality
<1>10. Cardinality(H') \in Nat /\ Cardinality(H \cup {r}) \in Nat
  BY <1>2, FiniteRequests
<1>11. Cardinality(H') <= MaxConcurrency
  BY <1>3, <1>4, <1>5, <1>6, <1>7, <1>8, <1>9, <1>10, SlotAssumption
<1> QED BY <1>11 DEF CapacityRespected, H

LEMMA CapacityStep ==
  ASSUME Held, CapacityRespected, Next \/ UNCHANGED vars, MaxConcurrency > 0
  PROVE  CapacityRespected'
<1>1. CASE \E r \in Requests : Acquire(r)
  BY <1>1, AcquireKeepsCapacity
<1>2. CASE ~ \E r \in Requests : Acquire(r)
  <2>1. (Holding \ lost)' \subseteq Holding \ lost
    BY <1>2, HoldersShrink
  <2>2. Holding \ lost \subseteq Requests
    BY DEF Holding, At
  <2>3. Cardinality((Holding \ lost)') <= Cardinality(Holding \ lost)
    BY <2>1, <2>2, SmallerCardinality
  <2>4. /\ Cardinality((Holding \ lost)') \in Nat
        /\ Cardinality(Holding \ lost) \in Nat
    BY <2>1, <2>2, FiniteRequests
  <2> QED BY <2>3, <2>4, SlotAssumption DEF CapacityRespected
<1> QED BY <1>1, <1>2

\* The limit of an entity bounds its requests in progress over any number of
\* processes and requests, for any limit and TTL, with crashes, restarts,
\* failing calls and calls that Redis executes late.
THEOREM CapacityIsRespected == Spec => []CapacityRespected
<1> DEFINE IInv == MaxConcurrency > 0 => Held /\ CapacityRespected
<1>1. Init => IInv
  <2>1. ASSUME Init PROVE Holding \ lost = {}
    BY <2>1 DEF Init, Holding, At
  <2> QED BY <2>1, HeldInit, FS_EmptySet, SlotAssumption DEF CapacityRespected
<1>2. IInv /\ [Next]_vars => IInv'
  <2> SUFFICES ASSUME IInv, [Next]_vars, MaxConcurrency > 0
               PROVE  (Held /\ CapacityRespected)'
    OBVIOUS
  <2>1. TypeOK'
    BY TypeStep DEF Held
  <2>2. HeldFresh' /\ HeldLive'
    BY HeldStep
  <2>3. CapacityRespected'
    BY CapacityStep
  <2> QED BY <2>1, <2>2, <2>3 DEF Held
<1>3. IInv => CapacityRespected
  BY DEF CapacityRespected
<1> HIDE DEF IInv
<1> QED BY <1>1, <1>2, <1>3, PTL DEF Spec

-----------------------------------------------------------------------------
(* The wait queue.                                                         *)

\* Requests whose decrement is still on its way to Redis.
Decrementing == {r \in Requests : <<"decrement", r>> \in pending}

\* Every queued request and every decrement to come is either counted or one
\* of the places the counter has lost.
QueueCounted ==
    Cardinality(Queued) + Cardinality(Decrementing) <= waitCount + under

LEMMA QueueSets ==
  /\ Queued \in SUBSET Requests /\ Decrementing \in SUBSET Requests
  /\ IsFiniteSet(Queued) /\ IsFiniteSet(Decrementing)
  /\ Cardinality(Queued) \in Nat /\ Cardinality(Decrementing) \in Nat
<1>1. Queued \in SUBSET Requests /\ Decrementing \in SUBSET Requests
  BY DEF Queued, At, Decrementing
<1> QED BY <1>1, FiniteRequests

LEMMA QueueSetsNext ==
  /\ Queued' \in SUBSET Requests /\ Decrementing' \in SUBSET Requests
  /\ IsFiniteSet(Queued') /\ IsFiniteSet(Decrementing')
  /\ Cardinality(Queued') \in Nat /\ Cardinality(Decrementing') \in Nat
<1>1. Queued' \in SUBSET Requests /\ Decrementing' \in SUBSET Requests
  BY DEF Queued, At, Decrementing
<1> QED BY <1>1, FiniteRequests

LEMMA CountTypes ==
  ASSUME TypeOK
  PROVE  waitCount \in Nat /\ under \in Nat
  BY SlotAssumption DEF TypeOK

LEMMA CountTypesNext ==
  ASSUME TypeOK'
  PROVE  waitCount' \in Nat /\ under' \in Nat
  BY SlotAssumption DEF TypeOK

LEMMA SumMonotone ==
  ASSUME NEW a \in Nat, NEW b \in Nat, NEW w \in Nat,
         NEW c \in Nat, NEW d \in Nat, NEW v \in Nat,
         a + b <= w, c <= a, d <= b, w <= v
  PROVE  c + d <= v
  OBVIOUS

LEMMA SumAdd ==
  ASSUME NEW a \in Nat, NEW b \in Nat, NEW w \in Nat,
         NEW c \in Nat, NEW d \in Nat, NEW v \in Nat,
         a + b <= w, c <= a + 1, d <= b, v = w + 1
  PROVE  c + d <= v
  OBVIOUS

\* A step that adds nobody to either set and takes nothing from the counts.
LEMMA QueueFrame ==
  ASSUME TypeOK, TypeOK', QueueCounted,
         Queued' \subseteq Queued, Decrementing' \subseteq Decrementing,
         waitCount + under <= waitCount' + under'
  PROVE  QueueCounted'
<1>1. /\ Cardinality(Queued') <= Cardinality(Queued)
      /\ Cardinality(Decrementing') <= Cardinality(Decrementing)
  BY QueueSets, SmallerCardinality
<1>2. waitCount + under \in Nat /\ waitCount' + under' \in Nat
  BY CountTypes, CountTypesNext
<1>3. Cardinality(Queued) + Cardinality(Decrementing) <= waitCount + under
  BY DEF QueueCounted
<1>4. Cardinality(Queued') + Cardinality(Decrementing') <= waitCount' + under'
  BY <1>1, <1>2, <1>3, QueueSets, QueueSetsNext, SumMonotone
<1> QED BY <1>4 DEF QueueCounted

\* One more request is queued and one more place accounted for.
LEMMA QueueJoin ==
  ASSUME TypeOK, TypeOK', QueueCounted, NEW r \in Requests,
         Queued' \subseteq Queued \cup {r},
         Decrementing' \subseteq Decrementing,
         waitCount' + under' = waitCount + under + 1
  PROVE  QueueCounted'
<1>1. Cardinality(Queued \cup {r}) =
         IF r \in Queued THEN Cardinality(Queued) ELSE Cardinality(Queued) + 1
  BY QueueSets, FS_AddElement
<1>2. Queued \cup {r} \in SUBSET Requests
  BY QueueSets
<1>3. /\ Cardinality(Queued') <= Cardinality(Queued \cup {r})
      /\ Cardinality(Decrementing') <= Cardinality(Decrementing)
  BY <1>2, QueueSets, SmallerCardinality
<1>4. waitCount + under \in Nat /\ waitCount' + under' \in Nat
  BY CountTypes, CountTypesNext
<1>5. Cardinality(Queued) + Cardinality(Decrementing) <= waitCount + under
  BY DEF QueueCounted
<1>6. Cardinality(Queued') <= Cardinality(Queued) + 1
  BY <1>1, <1>3, QueueSets, QueueSetsNext
<1>7. Cardinality(Queued') + Cardinality(Decrementing') <= waitCount' + under'
  BY <1>3, <1>4, <1>5, <1>6, QueueSets, QueueSetsNext, SumAdd
<1> QED BY <1>7 DEF QueueCounted

\* One request leaves and the counter is decremented, if it is not zero.
LEMMA QueueLeave ==
  ASSUME TypeOK, TypeOK', QueueCounted, NEW r \in Queued,
         Queued' \subseteq Queued \ {r},
         Decrementing' \subseteq Decrementing,
         Decrement, under' = under
  PROVE  QueueCounted'
<1>1. Cardinality(Queued \ {r}) = Cardinality(Queued) - 1
  BY QueueSets, FS_RemoveElement
<1>2. Queued \ {r} \in SUBSET Requests
  BY QueueSets
<1>3. /\ Cardinality(Queued') <= Cardinality(Queued \ {r})
      /\ Cardinality(Decrementing') <= Cardinality(Decrementing)
  BY <1>2, QueueSets, SmallerCardinality
<1>4. /\ waitCount \in Nat /\ waitCount' \in Nat /\ under \in Nat
  BY SlotAssumption DEF TypeOK
<1>5. waitCount' >= waitCount - 1
  BY <1>4 DEF Decrement
<1> QED BY <1>1, <1>3, <1>4, <1>5, QueueSets, QueueSetsNext DEF QueueCounted

\* The same for a decrement that is executed late.
LEMMA QueueLeaveLate ==
  ASSUME TypeOK, TypeOK', QueueCounted, NEW r \in Decrementing,
         Queued' \subseteq Queued,
         Decrementing' \subseteq Decrementing \ {r},
         Decrement, under' = under
  PROVE  QueueCounted'
<1>1. Cardinality(Decrementing \ {r}) = Cardinality(Decrementing) - 1
  BY QueueSets, FS_RemoveElement
<1>2. Decrementing \ {r} \in SUBSET Requests
  BY QueueSets
<1>3. /\ Cardinality(Queued') <= Cardinality(Queued)
      /\ Cardinality(Decrementing') <= Cardinality(Decrementing \ {r})
  BY <1>2, QueueSets, SmallerCardinality
<1>4. /\ waitCount \in Nat /\ waitCount' \in Nat /\ under \in Nat
  BY SlotAssumption DEF TypeOK
<1>5. waitCount' >= waitCount - 1
  BY <1>4 DEF Decrement
<1> QED BY <1>1, <1>3, <1>4, <1>5, QueueSets, QueueSetsNext DEF QueueCounted

\* One request leaves and its decrement is on its way.
LEMMA QueueAbandon ==
  ASSUME TypeOK, TypeOK', QueueCounted, NEW r \in Queued,
         Queued' \subseteq Queued \ {r},
         Decrementing' \subseteq Decrementing \cup {r},
         UNCHANGED <<waitCount, under>>
  PROVE  QueueCounted'
<1>1. Cardinality(Queued \ {r}) = Cardinality(Queued) - 1
  BY QueueSets, FS_RemoveElement
<1>2. Cardinality(Decrementing \cup {r}) =
         IF r \in Decrementing THEN Cardinality(Decrementing)
                               ELSE Cardinality(Decrementing) + 1
  BY QueueSets, FS_AddElement
<1>3. /\ Queued \ {r} \in SUBSET Requests
      /\ Decrementing \cup {r} \in SUBSET Requests
  BY QueueSets
<1>4. /\ Cardinality(Queued') <= Cardinality(Queued \ {r})
      /\ Cardinality(Decrementing') <= Cardinality(Decrementing \cup {r})
  BY <1>3, SmallerCardinality
<1>5. waitCount \in Nat /\ under \in Nat
  BY SlotAssumption DEF TypeOK
<1> QED BY <1>1, <1>2, <1>4, <1>5, QueueSets, QueueSetsNext DEF QueueCounted

\* Nobody is queued and no decrement is on its way.
LEMMA QueueEmpty ==
  ASSUME TypeOK', Queued' = {}, Decrementing' = {}
  PROVE  QueueCounted'
<1>1. Cardinality(Queued') = 0 /\ Cardinality(Decrementing') = 0
  BY FS_EmptySet
<1>2. waitCount' \in Nat /\ under' \in Nat
  BY SlotAssumption DEF TypeOK
<1> QED BY <1>1, <1>2 DEF QueueCounted

LEMMA QueueStep ==
  ASSUME TypeOK, TypeOK', QueueCounted, Next \/ UNCHANGED vars
  PROVE  QueueCounted'
<1> USE SlotAssumption DEF TypeOK, Calls
<1>1. ASSUME NEW p \in Procs, Start(p)
      PROVE  QueueCounted'
  <2>1. Queued' \subseteq Queued /\ Decrementing' \subseteq Decrementing
    BY <1>1 DEF Start, slotVars, queueVars, beatVars, Queued, At, Decrementing
  <2>2. waitCount + under <= waitCount' + under'
    BY <1>1 DEF Start, slotVars, queueVars, beatVars
  <2> QED BY <2>1, <2>2, QueueFrame
<1>2. ASSUME NEW p \in Procs, CleanSlots(p)
      PROVE  QueueCounted'
  <2>1. Queued' \subseteq Queued /\ Decrementing' \subseteq Decrementing
    BY <1>2 DEF CleanSlots, Keep, slotVars, queueVars, beatVars, Queued, At,
       Decrementing
  <2>2. waitCount + under <= waitCount' + under'
    BY <1>2 DEF CleanSlots, Keep, slotVars, queueVars, beatVars
  <2> QED BY <2>1, <2>2, QueueFrame
<1>3. ASSUME NEW p \in Procs, CleanWaits(p)
      PROVE  QueueCounted'
  <2>1. Queued' = Queued /\ Decrementing' = Decrementing
    BY <1>3 DEF CleanWaits, slotVars, queueVars, beatVars, Queued, At,
       Decrementing
  <2>2. CASE Queued = {} /\ ~DecrementPending
    <3>1. Decrementing = {}
      BY <2>2 DEF DecrementPending, Decrementing
    <3> QED BY <2>1, <2>2, <3>1, QueueEmpty
  <2>3. CASE ~(Queued = {} /\ ~DecrementPending)
    <3>1. waitCount \in Nat /\ under \in Nat
      OBVIOUS
    <3>2. ASSUME waitCount' = waitCount, under' = under
          PROVE  waitCount + under <= waitCount' + under'
      BY <3>1, <3>2
    <3>3. ASSUME waitCount' = 0, under' = under + waitCount
          PROVE  waitCount + under <= waitCount' + under'
      BY <3>1, <3>3
    <3>4. \/ waitCount' = waitCount /\ under' = under
          \/ waitCount' = 0 /\ under' = under + waitCount
      BY <1>3, <2>3 DEF CleanWaits, queueVars
    <3>5. waitCount + under <= waitCount' + under'
      BY <3>2, <3>3, <3>4
    <3> QED BY <2>1, <3>5, QueueFrame
  <2> QED BY <2>2, <2>3
<1>4. ASSUME NEW p \in Procs, Crash(p)
      PROVE  QueueCounted'
  <2>1. Queued' \subseteq Queued /\ Decrementing' \subseteq Decrementing
    BY <1>4 DEF Crash, slotVars, queueVars, beatVars, Queued, At, Decrementing
  <2>2. waitCount + under <= waitCount' + under'
    BY <1>4 DEF Crash, slotVars, queueVars, beatVars
  <2> QED BY <2>1, <2>2, QueueFrame
<1>5. ASSUME NEW r \in Requests, NEW p \in Procs, Begin(r, p)
      PROVE  QueueCounted'
  <2>1. Queued' \subseteq Queued /\ Decrementing' \subseteq Decrementing
    BY <1>5 DEF Begin, Goto, slotVars, queueVars, beatVars, Queued, At,
       Decrementing
  <2>2. waitCount + under <= waitCount' + under'
    BY <1>5 DEF Begin, Goto, slotVars, queueVars, beatVars
  <2> QED BY <2>1, <2>2, QueueFrame
<1>6. ASSUME NEW r \in Requests, Acquire(r)
      PROVE  QueueCounted'
  <2>1. Queued' \subseteq Queued /\ Decrementing' \subseteq Decrementing
    BY <1>6 DEF Acquire, Stamp, Fresh, StartHeartbeat, Goto, slotVars,
       queueVars, beatVars, Queued, At, Decrementing
  <2>2. waitCount + under <= waitCount' + under'
    BY <1>6 DEF Acquire, Stamp, Fresh, StartHeartbeat, Goto, slotVars,
       queueVars, beatVars
  <2> QED BY <2>1, <2>2, QueueFrame
<1>7. ASSUME NEW r \in Requests, AcquireFull(r)
      PROVE  QueueCounted'
  <2>1. Queued' \subseteq Queued /\ Decrementing' \subseteq Decrementing
    BY <1>7 DEF AcquireFull, Prune, Keep, Fresh, Goto, slotVars, queueVars,
       beatVars, Queued, At, Decrementing
  <2>2. waitCount + under <= waitCount' + under'
    BY <1>7 DEF AcquireFull, Prune, Keep, Fresh, Goto, slotVars, queueVars,
       beatVars
  <2> QED BY <2>1, <2>2, QueueFrame
<1>8. ASSUME NEW r \in Requests, AcquireFails(r)
      PROVE  QueueCounted'
  <2>1. Queued' \subseteq Queued /\ Decrementing' \subseteq Decrementing
    BY <1>8 DEF AcquireFails, Abandon, Goto, slotVars, queueVars, beatVars,
       Queued, At, Decrementing
  <2>2. waitCount + under <= waitCount' + under'
    BY <1>8 DEF AcquireFails, Abandon, Goto, slotVars, queueVars, beatVars
  <2> QED BY <2>1, <2>2, QueueFrame
<1>9. ASSUME NEW r \in Requests, TrackSlot(r)
      PROVE  QueueCounted'
  <2>1. Queued' \subseteq Queued /\ Decrementing' \subseteq Decrementing
    BY <1>9 DEF TrackSlot, Stamp, Fresh, StartHeartbeat, Abandon, Goto,
       slotVars, queueVars, beatVars, Queued, At, Decrementing
  <2>2. waitCount + under <= waitCount' + under'
    BY <1>9 DEF TrackSlot, Stamp, Fresh, StartHeartbeat, Abandon, Goto,
       slotVars, queueVars, beatVars
  <2> QED BY <2>1, <2>2, QueueFrame
<1>10. ASSUME NEW r \in Requests, IncrementWait(r)
      PROVE  QueueCounted'
  <2>1. /\ Queued' \subseteq Queued \cup {r}
        /\ Decrementing' \subseteq Decrementing
    BY <1>10 DEF IncrementWait, Goto, slotVars, queueVars, beatVars, Queued,
       At, Decrementing
  <2>2. waitCount' + under' = waitCount + under + 1
    BY <1>10 DEF IncrementWait, Goto, slotVars, queueVars, beatVars
  <2> QED BY <2>1, <2>2, QueueJoin
<1>11. ASSUME NEW r \in Requests, QueueFull(r)
      PROVE  QueueCounted'
  <2>1. Queued' \subseteq Queued /\ Decrementing' \subseteq Decrementing
    BY <1>11 DEF QueueFull, Goto, slotVars, queueVars, beatVars, Queued, At,
       Decrementing
  <2>2. waitCount + under <= waitCount' + under'
    BY <1>11 DEF QueueFull, Goto, slotVars, queueVars, beatVars
  <2> QED BY <2>1, <2>2, QueueFrame
<1>12. ASSUME NEW r \in Requests, IncrementFails(r)
      PROVE  QueueCounted'
  <2>1. /\ Queued' \subseteq Queued \cup {r}
        /\ Decrementing' \subseteq Decrementing
    BY <1>12 DEF IncrementFails, Abandon, Goto, slotVars, queueVars, beatVars,
       Queued, At, Decrementing
  <2>2. waitCount' + under' = waitCount + under + 1
    BY <1>12 DEF IncrementFails, Abandon, Goto, slotVars, queueVars, beatVars
  <2> QED BY <2>1, <2>2, QueueJoin
<1>13. ASSUME NEW r \in Requests, WaitTimeout(r)
      PROVE  QueueCounted'
  <2>1. Queued' \subseteq Queued /\ Decrementing' \subseteq Decrementing
    BY <1>13 DEF WaitTimeout, Goto, slotVars, queueVars, beatVars, Queued, At,
       Decrementing
  <2>2. waitCount + under <= waitCount' + under'
    BY <1>13 DEF WaitTimeout, Goto, slotVars, queueVars, beatVars
  <2> QED BY <2>1, <2>2, QueueFrame
<1>14. ASSUME NEW r \in Requests, DecrementWait(r)
      PROVE  QueueCounted'
  <2>1. /\ r \in Queued /\ Queued' \subseteq Queued \ {r}
        /\ Decrementing' = Decrementing /\ Decrement
    BY <1>14 DEF DecrementWait, AfterQueue, Goto, Queued, At, Decrementing,
       slotVars, beatVars
  <2>2. CASE Queued = {r} /\ ~DecrementPending
    <3>1. Decrementing = {}
      BY <2>2 DEF DecrementPending, Decrementing
    <3> QED BY <2>1, <2>2, <3>1, QueueEmpty
  <2>3. CASE ~(Queued = {r} /\ ~DecrementPending)
    <3>1. under' = under
      BY <1>14, <2>3 DEF DecrementWait
    <3> QED BY <2>1, <3>1, QueueLeave
  <2> QED BY <2>2, <2>3
<1>15. ASSUME NEW r \in Requests, DecrementFails(r)
      PROVE  QueueCounted'
  <2>1. /\ r \in Queued /\ Queued' \subseteq Queued \ {r}
        /\ Decrementing' \subseteq Decrementing \cup {r}
        /\ UNCHANGED <<waitCount, under>>
    BY <1>15 DEF DecrementFails, Abandon, AfterQueue, Goto, Queued, At,
       Decrementing, queueVars
  <2> QED BY <2>1, QueueAbandon
<1>16. ASSUME NEW r \in Requests, Finish(r)
      PROVE  QueueCounted'
  <2>1. Queued' \subseteq Queued /\ Decrementing' \subseteq Decrementing
    BY <1>16 DEF Finish, Goto, slotVars, queueVars, beatVars, Queued, At,
       Decrementing
  <2>2. waitCount + under <= waitCount' + under'
    BY <1>16 DEF Finish, Goto, slotVars, queueVars, beatVars
  <2> QED BY <2>1, <2>2, QueueFrame
<1>17. ASSUME NEW r \in Requests, Disconnect(r)
      PROVE  QueueCounted'
  <2>1. Queued' \subseteq Queued /\ Decrementing' \subseteq Decrementing
    BY <1>17 DEF Disconnect, Goto, slotVars, queueVars, beatVars, Queued, At,
       Decrementing
  <2>2. waitCount + under <= waitCount' + under'
    BY <1>17 DEF Disconnect, Goto, slotVars, queueVars, beatVars
  <2> QED BY <2>1, <2>2, QueueFrame
<1>18. ASSUME NEW r \in Requests, Drained(r)
      PROVE  QueueCounted'
  <2>1. Queued' \subseteq Queued /\ Decrementing' \subseteq Decrementing
    BY <1>18 DEF Drained, Goto, slotVars, queueVars, beatVars, Queued, At,
       Decrementing
  <2>2. waitCount + under <= waitCount' + under'
    BY <1>18 DEF Drained, Goto, slotVars, queueVars, beatVars
  <2> QED BY <2>1, <2>2, QueueFrame
<1>19. ASSUME NEW r \in Requests, Release(r)
      PROVE  QueueCounted'
  <2>1. Queued' \subseteq Queued /\ Decrementing' \subseteq Decrementing
    BY <1>19 DEF Release, StopHeartbeat, Keep, AfterRelease, Goto, slotVars,
       queueVars, beatVars, Queued, At, Decrementing
  <2>2. waitCount + under <= waitCount' + under'
    BY <1>19 DEF Release, StopHeartbeat, Keep, AfterRelease, Goto, slotVars,
       queueVars, beatVars
  <2> QED BY <2>1, <2>2, QueueFrame
<1>20. ASSUME NEW r \in Requests, ReleaseFails(r)
      PROVE  QueueCounted'
  <2>1. Queued' \subseteq Queued /\ Decrementing' \subseteq Decrementing
    BY <1>20 DEF ReleaseFails, StopHeartbeat, AfterRelease, Goto, slotVars,
       queueVars, beatVars, Queued, At, Decrementing
  <2>2. waitCount + under <= waitCount' + under'
    BY <1>20 DEF ReleaseFails, StopHeartbeat, AfterRelease, Goto, slotVars,
       queueVars, beatVars
  <2> QED BY <2>1, <2>2, QueueFrame
<1>21. ASSUME NEW r \in Requests, AcquireLiveLease(r)
      PROVE  QueueCounted'
  <2>1. Queued' \subseteq Queued /\ Decrementing' \subseteq Decrementing
    BY <1>21 DEF AcquireLiveLease, Abandon, Goto, slotVars, queueVars,
       beatVars, Queued, At, Decrementing
  <2>2. waitCount + under <= waitCount' + under'
    BY <1>21 DEF AcquireLiveLease, Abandon, Goto, slotVars, queueVars,
       beatVars
  <2> QED BY <2>1, <2>2, QueueFrame
<1>22. ASSUME NEW r \in Requests, CreateLiveCall(r)
      PROVE  QueueCounted'
  <2>1. Queued' \subseteq Queued /\ Decrementing' \subseteq Decrementing
    BY <1>22 DEF CreateLiveCall, Goto, slotVars, queueVars, beatVars, Queued,
       At, Decrementing
  <2>2. waitCount + under <= waitCount' + under'
    BY <1>22 DEF CreateLiveCall, Goto, slotVars, queueVars, beatVars
  <2> QED BY <2>1, <2>2, QueueFrame
<1>23. ASSUME NEW r \in Requests, EndLiveCall(r)
      PROVE  QueueCounted'
  <2>1. Queued' \subseteq Queued /\ Decrementing' \subseteq Decrementing
    BY <1>23 DEF EndLiveCall, Goto, slotVars, queueVars, beatVars, Queued, At,
       Decrementing
  <2>2. waitCount + under <= waitCount' + under'
    BY <1>23 DEF EndLiveCall, Goto, slotVars, queueVars, beatVars
  <2> QED BY <2>1, <2>2, QueueFrame
<1>24. ASSUME NEW r \in Requests, ReleaseLiveLease(r)
      PROVE  QueueCounted'
  <2>1. Queued' \subseteq Queued /\ Decrementing' \subseteq Decrementing
    BY <1>24 DEF ReleaseLiveLease, Goto, slotVars, queueVars, beatVars,
       Queued, At, Decrementing
  <2>2. waitCount + under <= waitCount' + under'
    BY <1>24 DEF ReleaseLiveLease, Goto, slotVars, queueVars, beatVars
  <2> QED BY <2>1, <2>2, QueueFrame
<1>25. ASSUME NEW r \in Requests, Heartbeat(r)
      PROVE  QueueCounted'
  <2>1. Queued' \subseteq Queued /\ Decrementing' \subseteq Decrementing
    BY <1>25 DEF Heartbeat, Refresh, Stamp, Prune, Keep, Fresh, slotVars,
       queueVars, beatVars, Queued, At, Decrementing
  <2>2. waitCount + under <= waitCount' + under'
    BY <1>25 DEF Heartbeat, Refresh, Stamp, Prune, Keep, Fresh, slotVars,
       queueVars, beatVars
  <2> QED BY <2>1, <2>2, QueueFrame
<1>26. ASSUME NEW r \in Requests, HeartbeatFails(r)
      PROVE  QueueCounted'
  <2>1. Queued' \subseteq Queued /\ Decrementing' \subseteq Decrementing
    BY <1>26 DEF HeartbeatFails, Abandon, slotVars, queueVars, beatVars,
       Queued, At, Decrementing
  <2>2. waitCount + under <= waitCount' + under'
    BY <1>26 DEF HeartbeatFails, Abandon, slotVars, queueVars, beatVars
  <2> QED BY <2>1, <2>2, QueueFrame
<1>27. ASSUME NEW r \in Requests, LiveLapse(r)
      PROVE  QueueCounted'
  <2>1. Queued' \subseteq Queued /\ Decrementing' \subseteq Decrementing
    BY <1>27 DEF LiveLapse, slotVars, queueVars, beatVars, Queued, At,
       Decrementing
  <2>2. waitCount + under <= waitCount' + under'
    BY <1>27 DEF LiveLapse, slotVars, queueVars, beatVars
  <2> QED BY <2>1, <2>2, QueueFrame
<1>28. ASSUME NEW r \in Requests, NEW call \in Calls, Late(call, r)
      PROVE  QueueCounted'
  <2>1. Queued' = Queued /\ under' = under
    BY <1>28 DEF Late, Queued, At
  <2>2. CASE call = "decrement"
    <3>1. /\ r \in Decrementing /\ Decrement
          /\ Decrementing' \subseteq Decrementing \ {r}
      BY <1>28, <2>2 DEF Late, Decrementing
    <3> QED BY <2>1, <3>1, QueueLeaveLate
  <2>3. CASE call # "decrement"
    <3>1. Decrementing' = Decrementing
      BY <1>28, <2>3 DEF Late, Decrementing
    <3>2. waitCount' = waitCount \/ waitCount' = waitCount + 1
      BY <1>28, <2>3 DEF Late
    <3>3. waitCount + under <= waitCount' + under'
      <4> HIDE DEF TypeOK
      <4> QED BY <2>1, <3>2, CountTypes
    <3> QED BY <2>1, <3>1, <3>3, QueueFrame
  <2> QED BY <2>2, <2>3
<1>29. ASSUME WaitExpire
      PROVE  QueueCounted'
  <2>1. Queued' = Queued /\ Decrementing' = Decrementing
    BY <1>29 DEF WaitExpire, slotVars, queueVars, beatVars, Queued, At,
       Decrementing
  <2>2. CASE Queued = {} /\ ~DecrementPending
    <3>1. Decrementing = {}
      BY <2>2 DEF DecrementPending, Decrementing
    <3> QED BY <2>1, <2>2, <3>1, QueueEmpty
  <2>3. CASE ~(Queued = {} /\ ~DecrementPending)
    <3>1. waitCount \in Nat /\ under \in Nat
      OBVIOUS
    <3>2. waitCount + under <= waitCount' + under'
      BY <1>29, <2>3, <3>1 DEF WaitExpire
    <3> QED BY <2>1, <3>2, QueueFrame
  <2> QED BY <2>2, <2>3
<1>30. ASSUME CleanupExpired
      PROVE  QueueCounted'
  <2>1. Queued' \subseteq Queued /\ Decrementing' \subseteq Decrementing
    BY <1>30 DEF CleanupExpired, Prune, Keep, Fresh, slotVars, queueVars,
       beatVars, Queued, At, Decrementing
  <2>2. waitCount + under <= waitCount' + under'
    BY <1>30 DEF CleanupExpired, Prune, Keep, Fresh, slotVars, queueVars,
       beatVars
  <2> QED BY <2>1, <2>2, QueueFrame
<1>31. ASSUME Tick
      PROVE  QueueCounted'
  <2>1. Queued' \subseteq Queued /\ Decrementing' \subseteq Decrementing
    BY <1>31 DEF Tick, slotVars, queueVars, beatVars, Queued, At, Decrementing
  <2>2. waitCount + under <= waitCount' + under'
    BY <1>31 DEF Tick, slotVars, queueVars, beatVars
  <2> QED BY <2>1, <2>2, QueueFrame
<1>32. ASSUME UNCHANGED vars
      PROVE  QueueCounted'
  BY <1>32 DEF vars, queueVars, QueueCounted, Queued, At, Decrementing
<1>33. QED BY <1>1, <1>2, <1>3, <1>4, <1>5, <1>6, <1>7, <1>8, <1>9, <1>10,
          <1>11, <1>12, <1>13, <1>14, <1>15, <1>16, <1>17, <1>18, <1>19,
          <1>20, <1>21, <1>22, <1>23, <1>24, <1>25, <1>26, <1>27, <1>28,
          <1>29, <1>30, <1>31, <1>32
          DEF Next, Serve

\* The queue holds at most its limit, plus the places lost to increments that
\* failed open, expiry and start-up clean-ups, for any number of requests and
\* processes and any number of calls executed late.
THEOREM QueueIsBounded == Spec => []QueueBounded
<1> DEFINE IInv == TypeOK /\ QueueCounted
<1>1. Init => IInv
  <2> SUFFICES ASSUME Init PROVE QueueCounted
    BY TypeInit
  <2>1. Queued = {} /\ Decrementing = {}
    BY DEF Init, Queued, At, Decrementing
  <2>2. Cardinality(Queued) = 0 /\ Cardinality(Decrementing) = 0
    BY <2>1, FS_EmptySet
  <2> QED BY <2>2 DEF QueueCounted, Init
<1>2. IInv /\ [Next]_vars => IInv'
  BY TypeStep, QueueStep
<1>3. IInv => QueueBounded
  BY QueueSets, SlotAssumption DEF QueueCounted, QueueBounded, TypeOK
<1> HIDE DEF IInv
<1> QED BY <1>1, <1>2, <1>3, PTL DEF Spec

-----------------------------------------------------------------------------
(* Late refreshes.                                                         *)

\* What ReleasedStaysReleased says of one step.
OnlyAcquired ==
    \A r \in Requests :
        r \notin member /\ r \in member' =>
            \/ pc[r] \in {"try", "wait"}
            \/ <<"acquire", r>> \in pending

\* A released, lapsed or cleaned slot is never recreated, however late an
\* abandoned refresh is executed.
THEOREM SlotStaysReleased == Spec => ReleasedStaysReleased
<1>1. TypeOK /\ [Next]_vars => [OnlyAcquired]_vars
  <2> SUFFICES ASSUME TypeOK, Next
               PROVE  OnlyAcquired
    OBVIOUS
  <2>1. ASSUME NEW r \in Requests, Serve(r) PROVE OnlyAcquired
    BY <2>1 DEF Serve, Acquire, AcquireFull, AcquireFails, TrackSlot,
       IncrementWait, QueueFull, IncrementFails, WaitTimeout, DecrementWait,
       DecrementFails, Finish, Disconnect, Drained, Release, ReleaseFails,
       AcquireLiveLease, CreateLiveCall, EndLiveCall, ReleaseLiveLease,
       Stamp, Prune, Keep, Fresh, slotVars, OnlyAcquired
  <2>2. ASSUME NEW r \in Requests, NEW p \in Procs, Begin(r, p)
        PROVE  OnlyAcquired
    BY <2>2 DEF Begin, slotVars, OnlyAcquired
  <2>3. ASSUME NEW r \in Requests, NEW call \in Calls, Late(call, r)
        PROVE  OnlyAcquired
    <3>1. CASE call = "acquire"
      <4>1. member' \subseteq member \cup {r} /\ <<"acquire", r>> \in pending
        BY <2>3, <3>1 DEF Late, Stamp, Prune, Keep, Fresh
      <4> QED BY <4>1 DEF OnlyAcquired
    <3>2. CASE call = "refresh"
      <4>1. Refresh(r)
        BY <2>3, <3>2 DEF Late
      <4> QED BY <4>1 DEF Refresh, Stamp, Prune, Keep, Fresh, OnlyAcquired
    <3>3. CASE call # "acquire" /\ call # "refresh"
      <4>1. member' = member
        BY <2>3, <3>3 DEF Late, slotVars
      <4> QED BY <4>1 DEF OnlyAcquired
    <3> QED BY <3>1, <3>2, <3>3
  <2>4. ASSUME NEW r \in Requests,
               Heartbeat(r) \/ HeartbeatFails(r) \/ LiveLapse(r)
        PROVE  OnlyAcquired
    BY <2>4 DEF Heartbeat, HeartbeatFails, LiveLapse, Refresh, Stamp, Prune,
       Keep, Fresh, slotVars, OnlyAcquired
  <2>5. ASSUME NEW p \in Procs,
               Start(p) \/ CleanSlots(p) \/ CleanWaits(p) \/ Crash(p)
        PROVE  OnlyAcquired
    BY <2>5 DEF Start, CleanSlots, CleanWaits, Crash, Keep, slotVars,
       OnlyAcquired
  <2>6. ASSUME WaitExpire \/ CleanupExpired \/ Tick
        PROVE  OnlyAcquired
    BY <2>6 DEF WaitExpire, CleanupExpired, Tick, Prune, Keep, Fresh,
       slotVars, OnlyAcquired
  <2> QED BY <2>1, <2>2, <2>3, <2>4, <2>5, <2>6 DEF Next
<1>2. [OnlyAcquired]_vars => [\A r \in Requests :
          r \notin member /\ r \in member' =>
              \/ pc[r] \in {"try", "wait"}
              \/ <<"acquire", r>> \in pending]_vars
  BY DEF OnlyAcquired
<1> QED BY <1>1, <1>2, TypeCorrect, PTL DEF Spec, ReleasedStaysReleased
=============================================================================
